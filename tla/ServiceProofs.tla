--------------------------- MODULE ServiceProofs ---------------------------
(* Proofs about four of the services.  A model repository: whatever fails  *)
(* in it, what a branch names can be read and has its content files, for   *)
(* every number of branches, files, commits and overlapping requests. The  *)
(* second factor: a code logs in once, for every period and skew of the    *)
(* codes and for any number of requests that overlap.  The file servers:   *)
(* they end in line with their settings, for any number of servers, ports, *)
(* listeners and overlapping requests.  Accounts: what was disabled,       *)
(* deleted, revoked or denied is refused to every request that begins      *)
(* after, for any number of users, tokens and overlapping operations.      *)
EXTENDS HubRepository, SecondFactor, FileServers, Accounts, TLAPS

(***************************************************************************)
(* The shape of a request at each of its steps.                            *)
(***************************************************************************)
Ids == {Promoted} \cup Nat
Registries == 0..MaxHubReloads
BlobOp == [do : {"check", "open", "put"}, branch : Branches, content : Contents, files : SUBSET File]
CommitOp == [do : {"commit"}, branch : Branches, files : SUBSET File]
RefOp == [do : {"ref"}, branch : Branches, id : Ids]
DeleteOp == [do : {"delete"}, id : Ids, parent : Ids]
MoveOp == [do : {"move"}, id : Ids, parent : Ids, left : SUBSET Branches]
SweepOp == [do : {"sweep"}, used : SUBSET Contents, missed : SUBSET Contents]
CopyOp == [do : {"copy"}, gen : Registries, todo : SUBSET File]
PutOp == [do : {"promote open", "promote put"}, gen : Registries, todo : SUBSET File,
          content : Contents]
WriteOp == [do : {"write"}]
HubOp == {HubIdle} \cup BlobOp \cup CommitOp \cup RefOp \cup DeleteOp \cup MoveOp
           \cup SweepOp \cup CopyOp \cup PutOp \cup WriteOp

HubDocs ==
  /\ DOMAIN hubCommits \subseteq Ids \ {0}
  /\ \A id \in DOMAIN hubCommits :
       hubCommits[id] \in [whole : BOOLEAN, files : SUBSET File, parent : Ids]
HubTypeOK ==
  /\ HubDocs
  /\ hubRefs \in [Branches -> Ids]
  /\ hubBlobs \subseteq Contents /\ hubTorn \subseteq Contents
  /\ hubNow \in Registries
  /\ hubOps \in [HubRequests -> HubOp]
  /\ hubMade \in Nat

\* The steps under Local.mu, that the request at one of them holds the mutex of some
\* registry, and that one at most is held.
Locked == {"check", "open", "put", "commit", "ref", "delete", "move", "sweep", "write"}
Unlocked == {"idle", "copy", "promote open", "promote put"}
HubMutex ==
  /\ hubLock \in [Registries -> HubRequests \cup {0}]
  /\ \A r \in HubRequests : hubOps[r].do \in Locked => \E g \in Registries : hubLock[g] = r
  /\ \A g, h \in Registries : hubLock[g] # 0 /\ hubLock[h] # 0 => g = h

\* A document that cannot be read was cut short.
HubTornDocs == \A id \in DOMAIN hubCommits \ Readable : id \in hubCut

\* What a request relies on and has read or written at an earlier step.
InStore == hubBlobs \cup hubTorn \cup hubLost
Stored(files) == \A f \in files : f.content \in InStore
StoredBut(files, content) == \A f \in files : f.content = content \/ f.content \in InStore
ReliesOn(rq) ==
  /\ rq.do \in {"check", "open", "put"} => StoredBut(rq.files, rq.content)
  /\ rq.do = "commit" => Stored(rq.files)
  /\ rq.do = "ref" => rq.id \in Readable
  /\ rq.do = "delete" => rq.id # 0
  /\ rq.do = "move" => /\ rq.parent \in {0} \cup Readable \cup hubCut
                       /\ rq.id # rq.parent
                       /\ \A b \in Branches \ rq.left : hubRefs[b] = rq.id => rq.id \in hubCut
  /\ rq.do = "sweep" => \A id \in Readable : \A f \in hubCommits[id].files :
                          f.content \in rq.used \cup rq.missed
  /\ rq.do = "copy" => Stored(SourceFiles \ rq.todo)
  /\ rq.do \in {"promote open", "promote put"} => StoredBut(SourceFiles \ rq.todo, rq.content)
  /\ rq.do = "write" => Stored(SourceFiles)
HubRelies == \A r \in HubRequests : ReliesOn(hubOps[r])

\* What HubWhole says of the branches and of the contents.
BranchesWhole ==
  \A b \in Branches :
    \/ hubRefs[b] \in Readable \cup {0} \cup hubCut
    \/ \E r \in HubRequests : At(r, "move") /\ hubOps[r].id = hubRefs[b]
ContentsWhole == \A id \in Readable : Stored(hubCommits[id].files)

HubInv ==
  /\ HubTypeOK /\ HubMutex /\ HubTornDocs /\ HubRelies /\ BranchesWhole /\ ContentsWhole
-----------------------------------------------------------------------------
\* The fields a request has at a step.
LEMMA HubShape ==
  ASSUME NEW rq \in HubOp
  PROVE  /\ rq.do \in Locked \cup Unlocked
         /\ rq.do \in {"check", "open", "put"} => rq \in BlobOp
         /\ rq.do = "commit" => rq \in CommitOp
         /\ rq.do = "ref" => rq \in RefOp
         /\ rq.do = "delete" => rq \in DeleteOp
         /\ rq.do = "move" => rq \in MoveOp
         /\ rq.do = "sweep" => rq \in SweepOp
         /\ rq.do = "copy" => rq \in CopyOp
         /\ rq.do \in {"promote open", "promote put"} => rq \in PutOp
<1> USE DEF HubIdle, BlobOp, CommitOp, RefOp, DeleteOp, MoveOp, SweepOp, CopyOp, PutOp, WriteOp,
            Locked, Unlocked
<1>1. CASE rq = HubIdle
  <2>1. rq.do = "idle"
    BY <1>1
  <2> QED BY ONLY <2>1 DEF Locked, Unlocked
<1>2. CASE rq \in BlobOp
  BY <1>2
<1>3. CASE rq \in CommitOp
  BY <1>3
<1>4. CASE rq \in RefOp
  BY <1>4
<1>5. CASE rq \in DeleteOp
  BY <1>5
<1>6. CASE rq \in MoveOp
  BY <1>6
<1>7. CASE rq \in SweepOp
  BY <1>7
<1>8. CASE rq \in CopyOp
  BY <1>8
<1>9. CASE rq \in PutOp
  BY <1>9
<1>10. CASE rq \in WriteOp
  BY <1>10
<1> QED BY <1>1, <1>2, <1>3, <1>4, <1>5, <1>6, <1>7, <1>8, <1>9, <1>10 DEF HubOp

\* The files of a commit, or of none, are stored.
LEMMA TreeStored ==
  ASSUME HubInv, NEW id
  PROVE  HubTree(id) \subseteq File /\ Stored(HubTree(id))
BY DEF HubInv, HubTypeOK, HubDocs, ContentsWhole, HubTree, Stored, Readable

\* A request at a step under the mutex is the only one.
LEMMA HubAlone ==
  ASSUME HubInv, NEW r \in HubRequests, hubOps[r].do \in Locked
  PROVE  \A q \in HubRequests \ {r} : hubOps[q].do \in Unlocked
<1>1. \A q \in HubRequests : hubOps[q].do \in Locked \cup Unlocked
  BY HubShape DEF HubInv, HubTypeOK
<1>2. \A q \in HubRequests \ {r} : hubOps[q].do \notin Locked
  BY HubAssumption DEF HubInv, HubMutex
<1> QED BY <1>1, <1>2

\* A request that takes a mutex while none is held elsewhere is alone under one.
LEMMA HubTakes ==
  ASSUME HubInv, NEW r \in HubRequests, NEW g \in Registries, TakesLock(r, g), ~hubOverlap',
         NEW rq, hubOps' = [hubOps EXCEPT ![r] = rq]
  PROVE  HubMutex' /\ \A q \in HubRequests : hubOps[q].do \notin Locked
<1>1. \A h \in Registries : hubLock[h] = 0
  BY DEF TakesLock, Free, Registries
<1>2. \A q \in HubRequests : hubOps[q].do \notin Locked
  BY <1>1, HubAssumption DEF HubInv, HubMutex
<1>3. hubLock' \in [Registries -> HubRequests \cup {0}] /\ hubLock'[g] = r
  BY DEF TakesLock, HubInv, HubMutex
<1>4. \A h \in Registries \ {g} : hubLock'[h] = 0
  BY <1>1 DEF TakesLock, HubInv, HubMutex
<1>5. \A q \in HubRequests \ {r} : hubOps'[q] = hubOps[q]
  BY DEF HubInv, HubTypeOK
<1> QED BY <1>2, <1>3, <1>4, <1>5 DEF HubMutex

LEMMA HubKeeps ==
  ASSUME HubInv, NEW r \in HubRequests, SameLock,
         NEW rq, hubOps' = [hubOps EXCEPT ![r] = rq], rq.do \in Locked => hubOps[r].do \in Locked
  PROVE  HubMutex'
<1>1. hubOps'[r] = rq /\ \A q \in HubRequests \ {r} : hubOps'[q] = hubOps[q]
  BY DEF HubInv, HubTypeOK
<1> QED BY <1>1 DEF SameLock, HubInv, HubMutex

LEMMA HubReleases ==
  ASSUME HubInv, NEW r \in HubRequests, HubDone(r)
  PROVE  HubMutex' /\ hubOps' = [hubOps EXCEPT ![r] = HubIdle] /\ HubIdle \in HubOp
<1>1. hubOps' = [hubOps EXCEPT ![r] = HubIdle] /\ HubIdle \in HubOp
  BY DEF HubDone, Goes, HubOp
<1>2. hubOps'[r].do = "idle" /\ \A q \in HubRequests \ {r} : hubOps'[q] = hubOps[q]
  BY <1>1 DEF HubInv, HubTypeOK, HubIdle
<1>3. hubLock' = [g \in Registries |-> IF hubLock[g] = r THEN 0 ELSE hubLock[g]]
  BY DEF HubDone, Registries
<1>4. \A g \in Registries : /\ hubLock'[g] \in HubRequests \cup {0}
                            /\ hubLock'[g] = IF hubLock[g] = r THEN 0 ELSE hubLock[g]
  BY <1>3 DEF HubInv, HubMutex
<1>5. hubLock' \in [Registries -> HubRequests \cup {0}]
  BY <1>3, <1>4
<1> QED BY <1>1, <1>2, <1>4, <1>5 DEF HubInv, HubMutex, Locked

\* A step of one request that changes no document and no branch, and takes nothing
\* from the store.
LEMMA HubOpOnly ==
  ASSUME HubInv, NEW r \in HubRequests, NEW rq \in HubOp,
         hubOps' = [hubOps EXCEPT ![r] = rq], HubMutex',
         UNCHANGED <<hubCommits, hubRefs, hubNow, hubMade>>,
         hubBlobs' \subseteq Contents, hubTorn' \subseteq Contents,
         InStore \subseteq InStore', hubCut \subseteq hubCut',
         At(r, "move") =>
           \/ rq.do = "move" /\ rq.id = hubOps[r].id
           \/ \A b \in Branches : hubRefs[b] = hubOps[r].id => hubOps[r].id \in hubCut',
         ReliesOn(rq)'
  PROVE  HubInv'
<1> USE DEF HubInv
<1>1. hubOps'[r] = rq /\ \A q \in HubRequests \ {r} : hubOps'[q] = hubOps[q]
  BY DEF HubTypeOK
<1>2. HubTypeOK'
  BY DEF HubTypeOK, HubDocs
<1>3. Readable' = Readable
  BY DEF Readable
<1>4. HubTornDocs'
  BY <1>3 DEF HubTornDocs
<1>5. \A q \in HubRequests \ {r} : ReliesOn(hubOps[q])'
  <2> SUFFICES ASSUME NEW q \in HubRequests \ {r}, NEW oq, oq = hubOps[q] PROVE ReliesOn(oq)'
    BY <1>1
  <2>1. ReliesOn(oq)
    BY DEF HubRelies
  <2> QED BY <2>1, <1>3 DEF ReliesOn, Stored, StoredBut
<1>6. HubRelies'
  BY <1>1, <1>5 DEF HubRelies
<1>7. BranchesWhole'
  BY <1>1, <1>3 DEF BranchesWhole, At
<1>8. ContentsWhole'
  BY <1>3 DEF ContentsWhole, Stored
<1> QED BY <1>2, <1>4, <1>6, <1>7, <1>8

\* A step that changes neither the files nor a request.
LEMMA HubStill ==
  ASSUME HubInv, hubNow' \in Registries,
         UNCHANGED <<hubCommits, hubRefs, hubBlobs, hubTorn, hubLock, hubOps, hubMade, hubCut,
                     hubLost>>
  PROVE  HubInv'
<1> USE DEF HubInv
<1>1. Readable' = Readable /\ InStore' = InStore
  BY DEF Readable, InStore
<1>2. HubTypeOK' /\ HubMutex'
  BY DEF HubTypeOK, HubDocs, HubMutex
<1>3. HubTornDocs' /\ BranchesWhole' /\ ContentsWhole'
  BY <1>1 DEF HubTornDocs, BranchesWhole, ContentsWhole, Stored, At
<1>4. \A r \in HubRequests : ReliesOn(hubOps[r])'
  BY <1>1 DEF HubRelies, ReliesOn, Stored, StoredBut
<1> QED BY <1>2, <1>3, <1>4 DEF HubRelies

LEMMA HubUploadInv ==
  ASSUME HubInv, ~hubOverlap', NEW r \in HubRequests, NEW branch \in Branches,
         NEW path \in Paths, NEW content \in Contents, HubUpload(r, branch, path, content)
  PROVE  HubInv'
<1>1. PICK files \in {HubTree(hubRefs[branch]), {}} :
        IF hubImmutable /\ HasPath(files, path)
          THEN SameLock /\ UNCHANGED hubOps
          ELSE /\ TakesLock(r, hubNow)
               /\ Goes(r, [do |-> "check", branch |-> branch, content |-> content,
                           files |-> {f \in files : f.path # path}
                                       \cup {[path |-> path, content |-> content]}])
  BY DEF HubUpload
<1>2. files \subseteq File /\ Stored(files)
  BY TreeStored DEF Stored
<1>3. /\ UNCHANGED <<hubCommits, hubRefs, hubBlobs, hubTorn, hubNow, hubMade, hubCut, hubLost>>
      /\ hubOps[r].do = "idle"
  BY DEF HubUpload, hubFiles, hubHistory, At
<1>4. CASE SameLock /\ UNCHANGED hubOps
  BY <1>3, <1>4, HubStill DEF HubInv, HubTypeOK, SameLock
<1>5. CASE ~(SameLock /\ UNCHANGED hubOps)
  <2>1. PICK rq : rq = [do |-> "check", branch |-> branch, content |-> content,
                        files |-> {f \in files : f.path # path}
                                    \cup {[path |-> path, content |-> content]}]
    OBVIOUS
  <2>2. TakesLock(r, hubNow) /\ hubOps' = [hubOps EXCEPT ![r] = rq]
    BY <1>1, <1>5, <2>1 DEF Goes
  <2>3. rq \in HubOp /\ rq.do = "check" /\ rq.content = content
        /\ rq.files = {f \in files : f.path # path} \cup {[path |-> path, content |-> content]}
    BY <1>2, <2>1 DEF HubOp, BlobOp, File
  <2>4. HubMutex'
    BY <2>2, HubTakes DEF HubInv, HubTypeOK
  <2>5. InStore' = InStore
    BY <1>3 DEF InStore
  <2>6. ReliesOn(rq)'
    BY <1>2, <2>3, <2>5 DEF ReliesOn, StoredBut, Stored
  <2> QED BY <1>3, <2>2, <2>3, <2>4, <2>5, <2>6, HubOpOnly DEF At, HubInv, HubTypeOK
<1> QED BY <1>4, <1>5

LEMMA HubRemoveFileInv ==
  ASSUME HubInv, ~hubOverlap', NEW r \in HubRequests, NEW branch \in Branches,
         NEW path \in Paths, HubRemoveFile(r, branch, path)
  PROVE  HubInv'
<1>1. PICK files : files = HubTree(hubRefs[branch])
  OBVIOUS
<1>2. files \subseteq File /\ Stored(files)
  BY <1>1, TreeStored
<1>3. /\ UNCHANGED <<hubCommits, hubRefs, hubBlobs, hubTorn, hubNow, hubMade, hubCut, hubLost>>
      /\ hubOps[r].do = "idle"
  BY DEF HubRemoveFile, hubFiles, hubHistory, At
<1>4. PICK rq : rq = [do |-> "commit", branch |-> branch, files |-> {f \in files : f.path # path}]
  OBVIOUS
<1>5. TakesLock(r, hubNow) /\ hubOps' = [hubOps EXCEPT ![r] = rq]
  BY <1>1, <1>4 DEF HubRemoveFile, Goes
<1>6. rq \in HubOp /\ rq.do = "commit" /\ rq.files \subseteq files
  BY <1>2, <1>4 DEF HubOp, CommitOp
<1>7. HubMutex'
  BY <1>5, HubTakes DEF HubInv, HubTypeOK
<1>8. InStore' = InStore
  BY <1>3 DEF InStore
<1>9. ReliesOn(rq)'
  BY <1>2, <1>6, <1>8 DEF ReliesOn, Stored
<1> QED BY <1>3, <1>5, <1>6, <1>7, <1>8, <1>9, HubOpOnly DEF At, HubInv, HubTypeOK

LEMMA HubCheckBlobInv ==
  ASSUME HubInv, NEW r \in HubRequests, HubCheckBlob(r)
  PROVE  HubInv'
<1>1. hubOps[r].do = "check" /\ hubOps[r] \in BlobOp /\ ReliesOn(hubOps[r])
  BY HubShape DEF HubCheckBlob, HubInv, HubTypeOK, HubRelies, At
<1>2. /\ UNCHANGED <<hubCommits, hubRefs, hubBlobs, hubTorn, hubNow, hubMade, hubCut, hubLost>>
      /\ SameLock
  BY DEF HubCheckBlob, hubFiles, hubHistory
<1>3. InStore' = InStore
  BY <1>2 DEF InStore
<1>4. StoredBut(hubOps[r].files, hubOps[r].content)
  BY <1>1 DEF ReliesOn
<1>5. PICK rq \in HubOp : /\ hubOps' = [hubOps EXCEPT ![r] = rq] /\ rq.do \in {"commit", "open"}
                          /\ ReliesOn(rq)'
  <2>1. CASE /\ hubOps[r].content \in hubBlobs \cup hubTorn
             /\ Goes(r, [do |-> "commit", branch |-> hubOps[r].branch, files |-> hubOps[r].files])
    <3>1. PICK rq : rq = [do |-> "commit", branch |-> hubOps[r].branch, files |-> hubOps[r].files]
      OBVIOUS
    <3>2. rq \in HubOp /\ rq.do = "commit" /\ rq.files = hubOps[r].files
      BY <1>1, <3>1 DEF BlobOp, CommitOp, HubOp
    <3>3. ReliesOn(rq)'
      BY <1>3, <1>4, <2>1, <3>2 DEF ReliesOn, Stored, StoredBut, InStore
    <3> QED BY <2>1, <3>1, <3>2, <3>3 DEF Goes
  <2>2. CASE Goes(r, [hubOps[r] EXCEPT !.do = "open"])
    <3>1. PICK rq : rq = [hubOps[r] EXCEPT !.do = "open"]
      OBVIOUS
    <3>2. rq \in BlobOp /\ rq.do = "open" /\ rq.files = hubOps[r].files
          /\ rq.content = hubOps[r].content
      BY <1>1, <3>1 DEF BlobOp
    <3>3. ReliesOn(rq)'
      BY <1>3, <1>4, <3>2 DEF ReliesOn, StoredBut
    <3> QED BY <2>2, <3>1, <3>2, <3>3 DEF Goes, HubOp
  <2> QED BY <2>1, <2>2 DEF HubCheckBlob
<1>6. HubMutex'
  BY <1>1, <1>2, <1>5, HubKeeps DEF Locked
<1> QED BY <1>1, <1>2, <1>3, <1>5, <1>6, HubOpOnly DEF At, HubInv, HubTypeOK

\* The next step of a request that opens or puts a content.
LEMMA HubNextDo ==
  ASSUME HubInv, NEW r \in HubRequests, NEW old \in {"open", "put", "promote open"},
         NEW do \in {"put", "promote put"}, At(r, old),
         old = "promote open" <=> do = "promote put"
  PROVE  \E rq \in HubOp : /\ rq = [hubOps[r] EXCEPT !.do = do] /\ rq.do = do
                           /\ rq.content = hubOps[r].content /\ rq.content \in Contents
                           /\ do = "put" => rq.files = hubOps[r].files
                           /\ do = "promote put" => rq.todo = hubOps[r].todo
<1>1. hubOps[r] \in HubOp
  BY DEF HubInv, HubTypeOK
<1>2. PICK rq : rq = [hubOps[r] EXCEPT !.do = do]
  OBVIOUS
<1>3. CASE do = "put"
  <2>1. hubOps[r] \in BlobOp
    BY <1>1, <1>3, HubShape DEF At
  <2>2. rq \in BlobOp /\ rq.do = do /\ rq.content = hubOps[r].content /\ rq.content \in Contents
        /\ rq.files = hubOps[r].files
    BY <1>2, <1>3, <2>1 DEF BlobOp
  <2> QED BY <1>2, <1>3, <2>2 DEF HubOp
<1>4. CASE do = "promote put"
  <2>1. hubOps[r] \in PutOp
    BY <1>1, <1>4, HubShape DEF At
  <2>2. rq \in PutOp /\ rq.do = do /\ rq.content = hubOps[r].content /\ rq.content \in Contents
        /\ rq.todo = hubOps[r].todo
    BY <1>2, <1>4, <2>1 DEF PutOp
  <2> QED BY <1>2, <1>4, <2>2 DEF HubOp
<1> QED BY <1>3, <1>4

LEMMA HubOpenBlobInv ==
  ASSUME HubInv, NEW r \in HubRequests, HubOpenBlob(r)
  PROVE  HubInv'
<1>1. PICK old \in {"open", "promote open"} :
        /\ At(r, old)
        /\ Goes(r, [hubOps[r] EXCEPT !.do = IF old = "open" THEN "put" ELSE "promote put"])
  BY DEF HubOpenBlob
<1>2. PICK do \in {"put", "promote put"} : do = IF old = "open" THEN "put" ELSE "promote put"
  BY <1>1
<1>3. PICK rq \in HubOp :
        /\ rq = [hubOps[r] EXCEPT !.do = do] /\ rq.do = do
        /\ rq.content = hubOps[r].content /\ rq.content \in Contents
        /\ do = "put" => rq.files = hubOps[r].files
        /\ do = "promote put" => rq.todo = hubOps[r].todo
  BY <1>1, <1>2, HubNextDo
<1>4. hubOps' = [hubOps EXCEPT ![r] = rq]
  BY <1>1, <1>2, <1>3 DEF Goes
<1>5. /\ UNCHANGED <<hubCommits, hubRefs, hubNow, hubMade, hubCut, hubLost>> /\ SameLock
      /\ hubBlobs' \subseteq Contents /\ hubTorn' \subseteq Contents /\ InStore \subseteq InStore'
  BY <1>3 DEF HubOpenBlob, hubHistory, InStore, HubInv, HubTypeOK
<1>6. ReliesOn(hubOps[r])
  BY DEF HubInv, HubRelies
<1>7. ReliesOn(rq)'
  BY <1>1, <1>2, <1>3, <1>5, <1>6 DEF ReliesOn, StoredBut, At
<1>8. HubMutex'
  BY <1>1, <1>2, <1>3, <1>4, <1>5, HubKeeps DEF Locked, At
<1>9. hubOps[r].do # "move" /\ hubCut \subseteq hubCut'
  BY <1>1, <1>5 DEF At
<1> QED BY <1>4, <1>5, <1>7, <1>8, <1>9, HubOpOnly DEF At

LEMMA HubPutBlobInv ==
  ASSUME HubInv, NEW r \in HubRequests, HubPutBlob(r)
  PROVE  HubInv'
<1>1. hubOps[r] \in HubOp /\ ReliesOn(hubOps[r])
  BY DEF HubInv, HubTypeOK, HubRelies
<1>2. PICK content : content = hubOps[r].content
  OBVIOUS
<1>3. /\ UNCHANGED <<hubCommits, hubRefs, hubNow, hubMade, hubCut>> /\ SameLock
      /\ hubBlobs' = hubBlobs \cup {content} /\ hubTorn' = hubTorn \ {content}
      /\ hubLost' = hubLost \ {content}
  BY <1>2 DEF HubPutBlob
<1>4. InStore \subseteq InStore' /\ content \in InStore'
  BY <1>3 DEF InStore
<1>5. CASE /\ At(r, "put")
           /\ Goes(r, [do |-> "commit", branch |-> hubOps[r].branch, files |-> hubOps[r].files])
  <2>1. hubOps[r] \in BlobOp /\ StoredBut(hubOps[r].files, content)
    BY <1>1, <1>2, <1>5, HubShape DEF ReliesOn, At
  <2>2. PICK rq : rq = [do |-> "commit", branch |-> hubOps[r].branch, files |-> hubOps[r].files]
    OBVIOUS
  <2>3. rq \in HubOp /\ rq.do = "commit" /\ rq.files = hubOps[r].files /\ content \in Contents
    BY <1>2, <2>1, <2>2 DEF BlobOp, CommitOp, HubOp
  <2>4. ReliesOn(rq)'
    BY <1>4, <2>1, <2>3 DEF ReliesOn, Stored, StoredBut
  <2>5. hubOps' = [hubOps EXCEPT ![r] = rq] /\ hubOps[r].do = "put"
    BY <1>5, <2>2 DEF Goes, At
  <2>6. HubMutex'
    BY <1>3, <2>3, <2>5, HubKeeps DEF Locked
  <2> QED BY <1>3, <1>4, <2>3, <2>4, <2>5, <2>6, HubOpOnly DEF At, HubInv, HubTypeOK
<1>6. CASE /\ At(r, "promote put")
           /\ Goes(r, [do |-> "copy", gen |-> hubOps[r].gen, todo |-> hubOps[r].todo])
  <2>1. hubOps[r] \in PutOp /\ StoredBut(SourceFiles \ hubOps[r].todo, content)
    BY <1>1, <1>2, <1>6, HubShape DEF ReliesOn, At
  <2>2. PICK rq : rq = [do |-> "copy", gen |-> hubOps[r].gen, todo |-> hubOps[r].todo]
    OBVIOUS
  <2>3. rq \in HubOp /\ rq.do = "copy" /\ rq.todo = hubOps[r].todo /\ content \in Contents
    BY <1>2, <2>1, <2>2 DEF PutOp, CopyOp, HubOp
  <2>4. ReliesOn(rq)'
    BY <1>4, <2>1, <2>3 DEF ReliesOn, Stored, StoredBut
  <2>5. hubOps' = [hubOps EXCEPT ![r] = rq] /\ hubOps[r].do = "promote put"
    BY <1>6, <2>2 DEF Goes, At
  <2>6. HubMutex'
    BY <1>3, <2>3, <2>5, HubKeeps DEF Locked
  <2> QED BY <1>3, <1>4, <2>3, <2>4, <2>5, <2>6, HubOpOnly DEF At, HubInv, HubTypeOK
<1> QED BY <1>5, <1>6 DEF HubPutBlob

LEMMA HubDeleteInv ==
  ASSUME HubInv, ~hubOverlap', NEW r \in HubRequests, NEW id \in DOMAIN hubCommits,
         HubDelete(r, id)
  PROVE  HubInv'
<1>1. PICK rq : rq = [do |-> "delete", id |-> id, parent |-> hubCommits[id].parent]
  OBVIOUS
<1>2. /\ UNCHANGED <<hubCommits, hubRefs, hubBlobs, hubTorn, hubNow, hubMade, hubCut, hubLost>>
      /\ hubOps[r].do = "idle"
  BY DEF HubDelete, hubFiles, hubHistory, At
<1>3. TakesLock(r, hubNow) /\ hubOps' = [hubOps EXCEPT ![r] = rq]
  BY <1>1 DEF HubDelete, Goes
<1>4. rq \in HubOp /\ rq.do = "delete" /\ rq.id # 0
  BY <1>1 DEF HubOp, DeleteOp, HubInv, HubTypeOK, HubDocs
<1>5. HubMutex'
  BY <1>3, HubTakes DEF HubInv, HubTypeOK
<1>6. ReliesOn(rq)' /\ InStore' = InStore
  BY <1>2, <1>4 DEF ReliesOn, InStore
<1> QED BY <1>2, <1>3, <1>4, <1>5, <1>6, HubOpOnly DEF At, HubInv, HubTypeOK

LEMMA HubPromoteInv ==
  ASSUME HubInv, NEW r \in HubRequests, HubPromote(r)
  PROVE  HubInv'
<1>1. PICK rq : rq = [do |-> "copy", gen |-> hubNow, todo |-> SourceFiles]
  OBVIOUS
<1>2. /\ UNCHANGED <<hubCommits, hubRefs, hubBlobs, hubTorn, hubNow, hubMade, hubCut, hubLost>>
      /\ SameLock /\ hubOps[r].do = "idle"
  BY DEF HubPromote, hubFiles, hubHistory, At
<1>3. hubOps' = [hubOps EXCEPT ![r] = rq]
  BY <1>1 DEF HubPromote, Goes
<1>4. rq \in HubOp /\ rq.do = "copy" /\ rq.todo = SourceFiles
  BY <1>1, HubAssumption DEF HubOp, CopyOp, HubInv, HubTypeOK
<1>5. HubMutex'
  BY <1>2, <1>3, <1>4, HubKeeps DEF Locked
<1>6. ReliesOn(rq)' /\ InStore' = InStore
  BY <1>2, <1>4 DEF ReliesOn, InStore, Stored
<1> QED BY <1>2, <1>3, <1>4, <1>5, <1>6, HubOpOnly DEF At, HubInv, HubTypeOK

LEMMA HubCopyBlobInv ==
  ASSUME HubInv, ~hubOverlap', NEW r \in HubRequests, HubCopyBlob(r)
  PROVE  HubInv'
<1>1. hubOps[r].do = "copy" /\ hubOps[r] \in CopyOp /\ ReliesOn(hubOps[r])
  BY HubShape DEF HubCopyBlob, HubInv, HubTypeOK, HubRelies, At
<1>2. UNCHANGED <<hubCommits, hubRefs, hubBlobs, hubTorn, hubNow, hubMade, hubCut, hubLost>>
  BY DEF HubCopyBlob, hubFiles, hubHistory
<1>3. InStore' = InStore
  BY <1>2 DEF InStore
<1>4. PICK todo \in SUBSET File, gen \in Registries :
        /\ todo = hubOps[r].todo /\ gen = hubOps[r].gen /\ Stored(SourceFiles \ todo)
  BY <1>1 DEF CopyOp, ReliesOn
<1>5. CASE SameLock /\ \E f \in todo :
             /\ f.content \in hubBlobs \cup hubTorn
             /\ Goes(r, [hubOps[r] EXCEPT !.todo = @ \ {f}])
  <2>1. PICK f \in todo : /\ f.content \in hubBlobs \cup hubTorn
                          /\ Goes(r, [hubOps[r] EXCEPT !.todo = @ \ {f}])
    BY <1>5
  <2>2. PICK rq : rq = [hubOps[r] EXCEPT !.todo = @ \ {f}]
    OBVIOUS
  <2>3. rq \in CopyOp /\ rq.do = "copy" /\ rq.todo = todo \ {f}
    BY <1>1, <1>4, <2>2 DEF CopyOp
  <2>4. hubOps' = [hubOps EXCEPT ![r] = rq]
    BY <2>1, <2>2 DEF Goes
  <2>5. HubMutex'
    BY <1>5, <2>3, <2>4, HubKeeps DEF Locked
  <2>6. ReliesOn(rq)'
    BY <1>3, <1>4, <2>1, <2>3 DEF ReliesOn, Stored, InStore
  <2>7. rq \in HubOp
    BY <2>3 DEF HubOp
  <2> QED BY <1>1, <1>2, <1>3, <2>4, <2>5, <2>6, <2>7, HubOpOnly DEF At, HubInv, HubTypeOK
<1>6. CASE SameLock /\ \E f \in todo :
             Goes(r, [do |-> "promote open", gen |-> gen, todo |-> todo \ {f},
                      content |-> f.content])
  <2>1. PICK f \in todo : Goes(r, [do |-> "promote open", gen |-> gen, todo |-> todo \ {f},
                                   content |-> f.content])
    BY <1>6
  <2>2. PICK rq : rq = [do |-> "promote open", gen |-> gen, todo |-> todo \ {f},
                        content |-> f.content]
    OBVIOUS
  <2>3. rq \in PutOp /\ rq.do = "promote open" /\ rq.todo = todo \ {f} /\ rq.content = f.content
    BY <1>4, <2>2 DEF PutOp, File
  <2>4. hubOps' = [hubOps EXCEPT ![r] = rq]
    BY <2>1, <2>2 DEF Goes
  <2>5. HubMutex'
    BY <1>6, <2>3, <2>4, HubKeeps DEF Locked
  <2>6. ReliesOn(rq)'
    BY <1>3, <1>4, <2>3 DEF ReliesOn, Stored, StoredBut
  <2>7. rq \in HubOp
    BY <2>3 DEF HubOp
  <2> QED BY <1>1, <1>2, <1>3, <2>4, <2>5, <2>6, <2>7, HubOpOnly DEF At, HubInv, HubTypeOK
<1>7. CASE todo = {} /\ TakesLock(r, gen) /\ Goes(r, [do |-> "write"])
  <2>1. PICK rq : rq = [do |-> "write"]
    OBVIOUS
  <2>2. rq \in HubOp /\ rq.do = "write"
    BY <2>1 DEF HubOp, WriteOp
  <2>3. hubOps' = [hubOps EXCEPT ![r] = rq]
    BY <1>7, <2>1 DEF Goes
  <2>4. HubMutex'
    BY <1>7, <2>3, HubTakes
  <2>5. ReliesOn(rq)'
    BY <1>3, <1>4, <1>7, <2>2 DEF ReliesOn, Stored
  <2> QED BY <1>1, <1>2, <1>3, <2>2, <2>3, <2>4, <2>5, HubOpOnly DEF At, HubInv, HubTypeOK
<1>8. \/ SameLock /\ \E f \in todo :
            \/ /\ f.content \in hubBlobs \cup hubTorn
               /\ Goes(r, [hubOps[r] EXCEPT !.todo = @ \ {f}])
            \/ Goes(r, [do |-> "promote open", gen |-> gen, todo |-> todo \ {f},
                        content |-> f.content])
      \/ todo = {} /\ TakesLock(r, gen) /\ Goes(r, [do |-> "write"])
  <2>1. \A f : [hubOps[r] EXCEPT !.todo = @ \ {f}].todo = todo \ {f}
    BY <1>1, <1>4 DEF CopyOp
  <2> QED BY <1>4, <2>1 DEF HubCopyBlob
<1> QED BY <1>5, <1>6, <1>7, <1>8

LEMMA HubCollectInv ==
  ASSUME HubInv, NEW r \in HubRequests, HubCollect(r)
  PROVE  HubInv'
<1>1. PICK unread \in {{}, Readable} \cup {{id} : id \in Readable} :
        Goes(r, [do |-> "sweep", used |-> HubUsed(Readable \ unread), missed |-> Listed(unread)])
  BY DEF HubCollect
<1>2. unread \subseteq Readable
  OBVIOUS
<1>3. \A ids \in SUBSET Readable :
        Listed(ids) \subseteq Contents
        /\ \A id \in ids : \A f \in hubCommits[id].files : f.content \in Listed(ids)
  <2>1. \A id \in Readable : HubTree(id) = hubCommits[id].files /\ hubCommits[id].files \subseteq File
    BY DEF HubTree, Readable, HubInv, HubTypeOK, HubDocs
  <2> QED BY <2>1 DEF Listed, File
<1>4. PICK rq : rq = [do |-> "sweep", used |-> HubUsed(Readable \ unread), missed |-> Listed(unread)]
  OBVIOUS
<1>5. /\ UNCHANGED <<hubCommits, hubRefs, hubBlobs, hubTorn, hubNow, hubMade, hubCut, hubLost>>
      /\ SameLock /\ hubOps[r].do = "move" /\ hubOps[r].left = {}
  BY DEF HubCollect, hubFiles, hubHistory, At
<1>6. /\ rq \in HubOp /\ rq.do = "sweep"
      /\ \A id \in Readable : \A f \in hubCommits[id].files : f.content \in rq.used \cup rq.missed
  <2>1. HubUsed(Readable \ unread) \in SUBSET Contents /\ Listed(unread) \in SUBSET Contents
    BY <1>2, <1>3 DEF HubUsed
  <2>2. rq \in SweepOp /\ rq.do = "sweep"
        /\ rq.used = Listed(Readable \ unread) /\ rq.missed = Listed(unread)
    BY <1>4, <2>1 DEF SweepOp, HubUsed
  <2> QED BY <1>2, <1>3, <2>2 DEF HubOp
<1>7. hubOps' = [hubOps EXCEPT ![r] = rq]
  BY <1>1, <1>4 DEF Goes
<1>8. HubMutex'
  BY <1>5, <1>6, <1>7, HubKeeps DEF Locked
<1>9. Readable' = Readable /\ InStore' = InStore
  BY <1>5 DEF Readable, InStore
<1>10. ReliesOn(rq)'
  BY <1>5, <1>6, <1>9 DEF ReliesOn
<1>11. \A b \in Branches : hubRefs[b] = hubOps[r].id => hubOps[r].id \in hubCut'
  BY <1>5 DEF HubInv, HubRelies, ReliesOn
<1> QED BY <1>5, <1>6, <1>7, <1>8, <1>9, <1>10, <1>11, HubOpOnly DEF At, HubInv, HubTypeOK

\* A step of a request under a mutex: the others rely on the contents a promotion has
\* found there, at most.
LEMMA HubLockedStep ==
  ASSUME HubInv, NEW r \in HubRequests, hubOps[r].do \in Locked,
         NEW rq \in HubOp, hubOps' = [hubOps EXCEPT ![r] = rq], HubMutex',
         HubDocs', hubRefs' \in [Branches -> Ids], hubBlobs' \subseteq Contents,
         hubTorn' \subseteq Contents, hubMade' \in Nat, UNCHANGED hubNow,
         (\E q \in HubRequests : Promoting(q)) =>
           \A f \in SourceFiles : f.content \in InStore => f.content \in InStore',
         HubTornDocs', BranchesWhole', ContentsWhole', ReliesOn(rq)'
  PROVE  HubInv'
<1>1. hubOps'[r] = rq /\ \A q \in HubRequests \ {r} : hubOps'[q] = hubOps[q]
  BY DEF HubInv, HubTypeOK
<1>2. HubTypeOK'
  BY DEF HubInv, HubTypeOK
<1>3. \A q \in HubRequests \ {r} : ReliesOn(hubOps[q])'
  <2> SUFFICES ASSUME NEW q \in HubRequests \ {r}, NEW oq, oq = hubOps[q] PROVE ReliesOn(oq)'
    BY <1>1
  <2>1. ReliesOn(oq) /\ oq.do \in Unlocked
    BY HubAlone DEF HubInv, HubRelies
  <2>2. oq.do # "idle" => \A f \in SourceFiles : f.content \in InStore => f.content \in InStore'
    BY <2>1 DEF Promoting, Unlocked
  <2> QED BY <2>1, <2>2 DEF ReliesOn, Stored, StoredBut, Unlocked
<1> QED BY <1>1, <1>2, <1>3 DEF HubInv, HubRelies

\* A commit document is written by a request under the mutex, which goes on to the
\* branch it is for.
LEMMA HubAddCommit ==
  ASSUME HubInv, NEW r \in HubRequests, hubOps[r].do \in {"commit", "write"},
         NEW id \in Ids \ {0}, NEW rq \in HubOp,
         NEW doc \in [whole : BOOLEAN, files : SUBSET File, parent : Ids], Stored(doc.files),
         hubCommits' = WithDoc(id, doc), hubMade' \in Nat,
         rq.do = "idle" \/ (rq.do = "ref" /\ rq.id = id /\ doc.whole = TRUE),
         hubOps' = [hubOps EXCEPT ![r] = rq], HubMutex',
         UNCHANGED <<hubRefs, hubBlobs, hubTorn, hubLost, hubNow>>,
         \A c \in hubCut : c \in hubCut' \cup {id}, doc.whole = TRUE \/ id \in hubCut'
  PROVE  HubInv'
<1>1. /\ DOMAIN hubCommits' = DOMAIN hubCommits \cup {id}
      /\ hubCommits'[id] = doc /\ \A i \in DOMAIN hubCommits \ {id} : hubCommits'[i] = hubCommits[i]
  BY DEF WithDoc
<1>2. /\ Readable \ {id} = Readable' \ {id}
      /\ id \in Readable' <=> doc.whole = TRUE
  BY <1>1 DEF Readable
<1>3. InStore' = InStore
  BY DEF InStore
<1>4. HubDocs'
  BY <1>1 DEF HubInv, HubTypeOK, HubDocs
<1>5. HubTornDocs'
  BY <1>1, <1>2 DEF HubInv, HubTornDocs
<1>6. ContentsWhole'
  <2> SUFFICES ASSUME NEW i \in Readable' PROVE Stored(hubCommits'[i].files)
    BY <1>3 DEF ContentsWhole, Stored
  <2> QED BY <1>1, <1>2 DEF HubInv, ContentsWhole, Readable
<1>7. BranchesWhole'
  <2> SUFFICES ASSUME NEW b \in Branches
               PROVE  hubRefs[b] \in Readable' \cup {0} \cup hubCut'
    BY DEF BranchesWhole
  <2>1. hubRefs[b] \in Readable \cup {0} \cup hubCut
    BY HubAlone DEF HubInv, BranchesWhole, At, Unlocked, Locked
  <2> QED BY <1>2, <2>1
<1>8. ReliesOn(rq)'
  BY <1>2 DEF ReliesOn
<1> QED BY <1>3, <1>4, <1>5, <1>6, <1>7, <1>8, HubLockedStep DEF Locked, HubInv, HubTypeOK

LEMMA HubCommitInv ==
  ASSUME HubInv, NEW r \in HubRequests, HubCommit(r)
  PROVE  HubInv'
<1>1. hubOps[r].do = "commit" /\ hubOps[r] \in CommitOp /\ Stored(hubOps[r].files)
  BY HubShape DEF HubCommit, HubInv, HubTypeOK, HubRelies, ReliesOn, At
<1>2. PICK branch \in Branches, files \in SUBSET File :
        branch = hubOps[r].branch /\ files = hubOps[r].files
  BY <1>1 DEF CommitOp
<1>3. PICK id \in Ids \ {0} : id = hubMade + 1 /\ id \in Nat
  BY DEF HubInv, HubTypeOK, Ids
<1>4. PICK parent \in Ids :
        hubCommits' = WithDoc(id, [whole |-> TRUE, files |-> files, parent |-> parent])
  <2>1. Readable \subseteq Ids /\ 0 \in Ids
    BY DEF HubInv, HubTypeOK, HubDocs, Readable, Ids
  <2> QED BY <1>2, <1>3, <2>1 DEF HubCommit
<1>5. PICK doc : doc = [whole |-> TRUE, files |-> files, parent |-> parent]
  OBVIOUS
<1>6. doc \in [whole : BOOLEAN, files : SUBSET File, parent : Ids] /\ doc.whole = TRUE /\ Stored(doc.files)
  BY <1>1, <1>2, <1>5
<1>7. PICK rq : rq = [do |-> "ref", branch |-> branch, id |-> id]
  OBVIOUS
<1>8. rq \in HubOp /\ rq.do = "ref" /\ rq.id = id
  BY <1>7 DEF HubOp, RefOp
<1>9. /\ hubOps' = [hubOps EXCEPT ![r] = rq] /\ hubMade' = id /\ SameLock
      /\ UNCHANGED <<hubRefs, hubBlobs, hubTorn, hubLost, hubNow, hubCut>>
  BY <1>2, <1>3, <1>7 DEF HubCommit, Goes, hubHistory
<1>10. HubMutex'
  BY <1>1, <1>8, <1>9, HubKeeps DEF Locked
<1> QED BY <1>1, <1>3, <1>4, <1>5, <1>6, <1>8, <1>9, <1>10, HubAddCommit

LEMMA HubWritePromotedInv ==
  ASSUME HubInv, NEW r \in HubRequests, HubWritePromoted(r)
  PROVE  HubInv'
<1>1. hubOps[r].do = "write" /\ Stored(SourceFiles)
  BY DEF HubWritePromoted, HubInv, HubRelies, ReliesOn, At
<1>2. PICK doc : doc = [whole |-> TRUE, files |-> SourceFiles, parent |-> 0]
  OBVIOUS
<1>3. doc \in [whole : BOOLEAN, files : SUBSET File, parent : Ids] /\ doc.whole = TRUE /\ Stored(doc.files)
  BY <1>1, <1>2, HubAssumption DEF Ids
<1>4. PICK rq : rq = [do |-> "ref", branch |-> SourceBranch, id |-> Promoted]
  OBVIOUS
<1>5. rq \in HubOp /\ rq.do = "ref" /\ rq.id = Promoted /\ Promoted \in Ids \ {0}
  BY <1>4, HubAssumption DEF HubOp, RefOp, Ids, Promoted
<1>6. /\ hubOps' = [hubOps EXCEPT ![r] = rq] /\ hubMade' \in Nat /\ SameLock
      /\ UNCHANGED <<hubRefs, hubBlobs, hubTorn, hubLost, hubNow>>
      /\ hubCut' = hubCut \ {Promoted}
      /\ hubCommits' = WithDoc(Promoted, doc)
  BY <1>2, <1>4 DEF HubWritePromoted, Goes, HubInv, HubTypeOK
<1>7. HubMutex'
  BY <1>1, <1>5, <1>6, HubKeeps DEF Locked
<1> QED BY <1>1, <1>3, <1>5, <1>6, <1>7, HubAddCommit

LEMMA HubSetRefInv ==
  ASSUME HubInv, NEW r \in HubRequests, HubSetRef(r)
  PROVE  HubInv'
<1>1. hubOps[r].do = "ref" /\ hubOps[r] \in RefOp /\ hubOps[r].id \in Readable
  BY HubShape DEF HubSetRef, HubInv, HubTypeOK, HubRelies, ReliesOn, At
<1>2. PICK branch \in Branches, id \in Ids : branch = hubOps[r].branch /\ id = hubOps[r].id
  BY <1>1 DEF RefOp
<1>3. /\ UNCHANGED <<hubCommits, hubBlobs, hubTorn, hubNow, hubMade, hubCut, hubLost>>
      /\ hubRefs' = [hubRefs EXCEPT ![branch] = id]
      /\ HubDone(r)
  BY <1>2 DEF HubSetRef, hubHistory
<1>4. HubMutex' /\ hubOps' = [hubOps EXCEPT ![r] = HubIdle] /\ HubIdle \in HubOp
  BY <1>3, HubReleases
<1>5. Readable' = Readable /\ InStore' = InStore
  BY <1>3 DEF Readable, InStore
<1>6. HubDocs' /\ HubTornDocs' /\ ContentsWhole' /\ hubRefs' \in [Branches -> Ids]
  BY <1>3, <1>5 DEF HubInv, HubTypeOK, HubDocs, HubTornDocs, ContentsWhole, Stored
<1>7. BranchesWhole'
  <2> SUFFICES ASSUME NEW b \in Branches
               PROVE  hubRefs'[b] \in Readable' \cup {0} \cup hubCut'
    BY DEF BranchesWhole
  <2>1. hubRefs[b] \in Readable \cup {0} \cup hubCut
    BY <1>1, HubAlone DEF HubInv, BranchesWhole, At, Unlocked, Locked
  <2> QED BY <1>1, <1>2, <1>3, <1>5, <2>1 DEF HubInv, HubTypeOK
<1>9. HubIdle.do = "idle" /\ hubOps[r].do \in Locked
  BY <1>1 DEF HubIdle, Locked
<1>10. ReliesOn(HubIdle)'
  BY <1>9 DEF ReliesOn, HubIdle
<1> QED BY <1>3, <1>4, <1>5, <1>6, <1>7, <1>9, <1>10, HubLockedStep DEF HubInv, HubTypeOK

LEMMA HubDeleteCommitInv ==
  ASSUME HubInv, NEW r \in HubRequests, HubDeleteCommit(r)
  PROVE  HubInv'
<1>1. hubOps[r].do = "delete" /\ hubOps[r] \in DeleteOp
  BY HubShape DEF HubDeleteCommit, HubInv, HubTypeOK, At
<1>2. PICK id \in Ids : id = hubOps[r].id
  BY <1>1 DEF DeleteOp
<1>3. /\ hubCommits' = [i \in DOMAIN hubCommits \ {id} |-> hubCommits[i]] /\ SameLock
      /\ UNCHANGED <<hubRefs, hubBlobs, hubTorn, hubNow, hubMade, hubLost>>
  BY <1>2 DEF HubDeleteCommit
<1>4. Readable' = Readable \ {id} /\ InStore' = InStore
  BY <1>3 DEF Readable, InStore
<1>5. PICK parent \in (DOMAIN hubCommits \ {id}) \cup {0},
           left \in SUBSET Branches :
        /\ Goes(r, [do |-> "move", id |-> id, parent |-> parent, left |-> left])
        /\ \/ hubCut' = hubCut /\ left = {b \in Branches : hubRefs[b] # 0}
           \/ hubCut' = hubCut \cup {id}
  <2> DEFINE heads == {b \in Branches : hubRefs[b] # 0}
             there == {hubOps[r].parent} \cap (DOMAIN hubCommits \ {id})
  <2>1. \/ /\ \E parent \in there \cup {0} :
                 Goes(r, [do |-> "move", id |-> id, parent |-> parent, left |-> heads])
           /\ hubCut' = hubCut
        \/ /\ Goes(r, [do |-> "move", id |-> id, parent |-> 0, left |-> {}])
           /\ hubCut' = hubCut \cup {id}
    BY <1>2 DEF HubDeleteCommit
  <2>2. heads \in SUBSET Branches /\ there \subseteq DOMAIN hubCommits \ {id}
    OBVIOUS
  <2>3. CASE \E parent \in there \cup {0} :
               /\ Goes(r, [do |-> "move", id |-> id, parent |-> parent, left |-> heads])
               /\ hubCut' = hubCut
    <3>1. PICK parent \in there \cup {0} :
            /\ Goes(r, [do |-> "move", id |-> id, parent |-> parent, left |-> heads])
            /\ hubCut' = hubCut
      BY <2>3
    <3>2. parent \in (DOMAIN hubCommits \ {id}) \cup {0}
      BY <2>2, <3>1
    <3> QED BY <2>2, <3>1, <3>2
  <2>4. CASE /\ Goes(r, [do |-> "move", id |-> id, parent |-> 0, left |-> {}])
             /\ hubCut' = hubCut \cup {id}
    BY <2>4
  <2> HIDE DEF heads, there
  <2> QED BY <2>1, <2>3, <2>4
<1>6. PICK rq : rq = [do |-> "move", id |-> id, parent |-> parent, left |-> left]
  OBVIOUS
<1>7. rq \in HubOp /\ rq.do = "move" /\ rq.id = id /\ rq.parent = parent /\ rq.left = left
  BY <1>5, <1>6 DEF HubOp, MoveOp, HubInv, HubTypeOK, HubDocs, Ids
<1>8. hubOps' = [hubOps EXCEPT ![r] = rq]
  BY <1>5, <1>6 DEF Goes
<1>9. HubMutex'
  BY <1>1, <1>3, <1>7, <1>8, HubKeeps DEF Locked
<1>10. HubDocs' /\ ContentsWhole' /\ HubTornDocs'
  BY <1>3, <1>4, <1>5 DEF HubInv, HubTypeOK, HubDocs, ContentsWhole, HubTornDocs, Stored, Readable
<1>11. hubOps'[r] = rq
  BY <1>8 DEF HubInv, HubTypeOK
<1>12. BranchesWhole'
  <2> SUFFICES ASSUME NEW b \in Branches
               PROVE  hubRefs[b] \in Readable' \cup {0} \cup hubCut' \cup {id}
    BY <1>3, <1>7, <1>11 DEF BranchesWhole, At
  <2>1. hubRefs[b] \in Readable \cup {0} \cup hubCut
    BY <1>1, HubAlone DEF HubInv, BranchesWhole, At, Unlocked, Locked
  <2> QED BY <1>4, <1>5, <2>1
<1>13. ReliesOn(rq)'
  <2>1. parent \in {0} \cup Readable' \cup hubCut'
    BY <1>4, <1>5 DEF HubInv, HubTornDocs
  <2>2. id # parent \/ (id = 0 /\ parent = 0)
    BY <1>5
  <2>3. id # 0
    BY <1>1, <1>2 DEF HubInv, HubRelies, ReliesOn
  <2>4. \A b \in Branches \ left : hubRefs'[b] = id => id \in hubCut'
    BY <1>3, <1>5, <2>3
  <2> QED BY <1>7, <2>1, <2>2, <2>3, <2>4 DEF ReliesOn
<1> QED BY <1>1, <1>3, <1>4, <1>7, <1>8, <1>9, <1>10, <1>12, <1>13, HubLockedStep
        DEF Locked, HubInv, HubTypeOK

LEMMA HubMoveRefInv ==
  ASSUME HubInv, NEW r \in HubRequests, HubMoveRef(r)
  PROVE  HubInv'
<1>1. hubOps[r].do = "move" /\ hubOps[r] \in MoveOp /\ ReliesOn(hubOps[r])
  BY HubShape DEF HubMoveRef, HubInv, HubTypeOK, HubRelies, At
<1>2. PICK id \in Ids, parent \in Ids, left \in SUBSET Branches :
        id = hubOps[r].id /\ parent = hubOps[r].parent /\ left = hubOps[r].left
  BY <1>1 DEF MoveOp
<1>3. PICK b \in left :
        /\ \/ /\ hubRefs' = IF hubRefs[b] = id THEN [hubRefs EXCEPT ![b] = parent] ELSE hubRefs
              /\ hubCut' = hubCut
           \/ hubCut' = hubCut \cup {id} /\ hubRefs' = hubRefs
        /\ Goes(r, [hubOps[r] EXCEPT !.left = @ \ {b}])
  BY <1>2 DEF HubMoveRef
<1>4. /\ UNCHANGED <<hubCommits, hubBlobs, hubTorn, hubNow, hubMade, hubLost>> /\ SameLock
      /\ hubRefs' \in [Branches -> Ids]
  BY <1>2, <1>3 DEF HubMoveRef, HubInv, HubTypeOK
<1>5. PICK rq : rq = [hubOps[r] EXCEPT !.left = @ \ {b}]
  OBVIOUS
<1>6. /\ rq \in HubOp /\ rq.do = "move" /\ rq.id = id /\ rq.parent = parent
      /\ rq.left = left \ {b}
  BY <1>1, <1>2, <1>5 DEF MoveOp, HubOp
<1>7. hubOps' = [hubOps EXCEPT ![r] = rq] /\ hubOps'[r] = rq
  BY <1>3, <1>5 DEF Goes, HubInv, HubTypeOK
<1>8. HubMutex'
  BY <1>1, <1>4, <1>6, <1>7, HubKeeps DEF Locked
<1>9. Readable' = Readable /\ InStore' = InStore
  BY <1>4 DEF Readable, InStore
<1>10. HubDocs' /\ HubTornDocs' /\ ContentsWhole'
  BY <1>3, <1>4, <1>9 DEF HubInv, HubTypeOK, HubDocs, HubTornDocs, ContentsWhole, Stored
<1>11. parent \in {0} \cup Readable \cup hubCut /\ id # parent
  BY <1>1, <1>2 DEF ReliesOn
<1>12. BranchesWhole'
  <2> SUFFICES ASSUME NEW c \in Branches
               PROVE  hubRefs'[c] \in Readable \cup {0} \cup hubCut' \cup {id}
    BY <1>6, <1>7, <1>9 DEF BranchesWhole, At
  <2>1. hubRefs[c] \in Readable \cup {0} \cup hubCut \cup {id}
    BY <1>1, <1>2, HubAlone DEF HubInv, BranchesWhole, At, Unlocked, Locked
  <2>2. hubRefs'[c] \in {hubRefs[c], parent}
    BY <1>3 DEF HubInv, HubTypeOK
  <2> QED BY <1>3, <1>11, <2>1, <2>2
<1>13. ReliesOn(rq)'
  <2>1. \A c \in Branches \ left : hubRefs[c] = id => id \in hubCut
    BY <1>1, <1>2 DEF ReliesOn
  <2>2. \A c \in Branches \ (left \ {b}) : hubRefs'[c] = id => id \in hubCut'
    BY <1>3, <1>11, <2>1 DEF HubInv, HubTypeOK
  <2> QED BY <1>3, <1>6, <1>9, <1>11, <2>2 DEF ReliesOn
<1> QED BY <1>1, <1>4, <1>6, <1>7, <1>8, <1>9, <1>10, <1>12, <1>13, HubLockedStep
        DEF Locked, HubInv, HubTypeOK

LEMMA HubSweepInv ==
  ASSUME HubInv, NEW r \in HubRequests, HubSweep(r)
  PROVE  HubInv'
<1>1. hubOps[r].do = "sweep" /\ hubOps[r] \in SweepOp /\ ReliesOn(hubOps[r])
  BY HubShape DEF HubSweep, HubInv, HubTypeOK, HubRelies, At
<1>2. UNCHANGED <<hubCommits, hubRefs, hubNow, hubMade, hubCut>> /\ Readable' = Readable
  BY DEF HubSweep, Readable
<1>3. PICK used \in SUBSET Contents, missed \in SUBSET Contents :
        /\ used = hubOps[r].used /\ missed = hubOps[r].missed
        /\ \A id \in Readable : \A f \in hubCommits[id].files : f.content \in used \cup missed
  BY <1>1 DEF SweepOp, ReliesOn
<1>4. ASSUME NEW c \in (hubBlobs \cup hubTorn) \ used, SameLock, UNCHANGED hubOps,
             hubBlobs' = hubBlobs \ {c}, hubTorn' = hubTorn \ {c},
             hubLost' = hubLost \cup ({c} \cap (UnderPromotion \cup missed))
      PROVE  HubInv'
  <2>1. PICK rq \in HubOp : rq = hubOps[r]
    BY DEF HubInv, HubTypeOK
  <2>2. hubOps' = [hubOps EXCEPT ![r] = rq]
    BY <1>4, <2>1 DEF HubInv, HubTypeOK
  <2>3. HubMutex'
    BY <1>1, <2>1, <2>2, <1>4, HubKeeps DEF Locked
  <2>4. HubDocs' /\ HubTornDocs' /\ BranchesWhole'
    BY <1>2, <1>4 DEF HubInv, HubTypeOK, HubDocs, HubTornDocs, BranchesWhole, At
  <2>5. ContentsWhole'
    <3> SUFFICES ASSUME NEW id \in Readable, NEW f \in hubCommits[id].files
                 PROVE  f.content \in InStore'
      BY <1>2 DEF ContentsWhole, Stored
    <3>1. f.content \in InStore /\ f.content \in used \cup missed
      BY <1>3 DEF HubInv, ContentsWhole, Stored
    <3> QED BY <1>4, <3>1 DEF InStore
  <2>6. (\E q \in HubRequests : Promoting(q)) =>
           \A f \in SourceFiles : f.content \in InStore => f.content \in InStore'
    BY <1>4 DEF UnderPromotion, InStore
  <2>7. ReliesOn(rq)'
    BY <1>1, <1>2, <2>1 DEF ReliesOn
  <2> QED BY <1>1, <1>2, <1>4, <2>2, <2>3, <2>4, <2>5, <2>6, <2>7, HubLockedStep
          DEF Locked, HubInv, HubTypeOK
<1>5. ASSUME NEW c \in (hubBlobs \cup hubTorn) \ used, SameLock,
             Goes(r, [hubOps[r] EXCEPT !.used = @ \cup {c}]),
             UNCHANGED <<hubBlobs, hubTorn, hubLost>>
      PROVE  HubInv'
  <2>1. PICK rq : rq = [hubOps[r] EXCEPT !.used = @ \cup {c}]
    OBVIOUS
  <2>2. c \in Contents
    BY <1>5 DEF HubInv, HubTypeOK
  <2>3. /\ rq \in HubOp /\ rq.do = "sweep"
        /\ rq.used = used \cup {c} /\ rq.missed = missed
    BY <1>1, <1>3, <2>1, <2>2 DEF SweepOp, HubOp
  <2>4. hubOps' = [hubOps EXCEPT ![r] = rq]
    BY <1>5, <2>1 DEF Goes
  <2>5. HubMutex' /\ InStore' = InStore
    BY <1>1, <1>5, <2>3, <2>4, HubKeeps DEF Locked, InStore
  <2>6. ReliesOn(rq)'
    BY <1>2, <1>3, <2>3 DEF ReliesOn
  <2> QED BY <1>1, <1>2, <1>5, <2>3, <2>4, <2>5, <2>6, HubOpOnly DEF At, HubInv, HubTypeOK
<1>6. ASSUME HubDone(r), UNCHANGED <<hubBlobs, hubTorn, hubLost>>
      PROVE  HubInv'
  <2>1. PICK rq \in HubOp : rq = HubIdle
    BY HubReleases, <1>6
  <2>2. HubMutex' /\ hubOps' = [hubOps EXCEPT ![r] = rq] /\ InStore' = InStore
    BY <1>6, <2>1, HubReleases DEF InStore
  <2>3. ReliesOn(rq)'
    BY <2>1 DEF ReliesOn, HubIdle
  <2> QED BY <1>1, <1>2, <1>6, <2>1, <2>2, <2>3, HubOpOnly DEF At, HubInv, HubTypeOK
<1> QED BY <1>3, <1>4, <1>5, <1>6 DEF HubSweep

LEMMA HubFailInv ==
  ASSUME HubInv, NEW r \in HubRequests, HubFail(r)
  PROVE  HubInv'
<1>1. /\ UNCHANGED <<hubBlobs, hubTorn, hubNow, hubLost>> /\ InStore' = InStore
      /\ HubDone(r)
  BY DEF HubFail, InStore
<1>2. PICK rq \in HubOp : rq = HubIdle /\ rq.do = "idle"
  BY <1>1, HubReleases DEF HubIdle
<1>3. HubMutex' /\ hubOps' = [hubOps EXCEPT ![r] = rq] /\ hubOps'[r] = rq
  BY <1>1, <1>2, HubReleases DEF HubInv, HubTypeOK
<1>4. ReliesOn(rq)'
  BY <1>2 DEF ReliesOn
<1>5. PICK doc : doc = TornDoc
  OBVIOUS
<1>6. /\ doc \in [whole : BOOLEAN, files : SUBSET File, parent : Ids] /\ Stored(doc.files)
      /\ Promoted \in Ids \ {0}
  BY <1>5 DEF TornDoc, Ids, Stored, Promoted
<1>7. CASE /\ hubOps[r].do # "move" /\ UNCHANGED <<hubCommits, hubRefs, hubMade, hubCut>>
  BY <1>1, <1>2, <1>3, <1>4, <1>7, HubOpOnly DEF At, HubInv, HubTypeOK
<1>8. CASE /\ At(r, "commit") /\ hubCommits' = WithDoc(hubMade + 1, doc)
           /\ hubMade' = hubMade + 1 /\ hubCut' = hubCut \cup {hubMade + 1} /\ UNCHANGED hubRefs
  <2>1. PICK id \in Ids \ {0} : id = hubMade + 1 /\ id \in Nat
    BY DEF HubInv, HubTypeOK, Ids
  <2>2. hubOps[r].do = "commit" /\ hubMade' \in Nat /\ UNCHANGED hubRefs
        /\ hubCommits' = WithDoc(id, doc) /\ hubCut' = hubCut \cup {id}
    BY <1>8, <2>1 DEF At
  <2>3. (\A c \in hubCut : c \in hubCut' \cup {id}) /\ id \in hubCut'
    BY <2>2
  <2> QED BY <1>1, <1>2, <1>3, <1>6, <2>1, <2>2, <2>3, HubAddCommit
<1>9. CASE /\ At(r, "write") /\ hubCommits' = WithDoc(Promoted, doc)
           /\ hubCut' = hubCut \cup {Promoted} /\ UNCHANGED <<hubRefs, hubMade>>
  <2>1. hubOps[r].do = "write" /\ hubMade' \in Nat /\ UNCHANGED hubRefs
        /\ hubCommits' = WithDoc(Promoted, doc) /\ hubCut' = hubCut \cup {Promoted}
    BY <1>9 DEF At, HubInv, HubTypeOK
  <2>2. (\A c \in hubCut : c \in hubCut' \cup {Promoted}) /\ Promoted \in hubCut'
    BY <2>1
  <2> QED BY <1>1, <1>2, <1>3, <1>6, <2>1, <2>2, HubAddCommit
<1>10. CASE /\ At(r, "ref") \/ (At(r, "move") /\ hubCut' = hubCut \cup {hubOps[r].id})
            /\ At(r, "ref") => hubCut' = hubCut
            /\ \E b \in Branches : hubRefs' = hubRefs \/ hubRefs' = [hubRefs EXCEPT ![b] = 0]
            /\ UNCHANGED <<hubCommits, hubMade>>
  <2>1. Readable' = Readable /\ hubCut \subseteq hubCut'
    BY <1>10 DEF Readable, At
  <2>2. HubDocs' /\ HubTornDocs' /\ ContentsWhole' /\ hubRefs' \in [Branches -> Ids]
    BY <1>1, <1>10, <2>1 DEF HubInv, HubTypeOK, HubDocs, HubTornDocs, ContentsWhole, Stored, Ids
  <2>3. BranchesWhole'
    <3> SUFFICES ASSUME NEW c \in Branches
                 PROVE  hubRefs'[c] \in Readable \cup {0} \cup hubCut'
      BY <2>1 DEF BranchesWhole
    <3>1. hubRefs[c] \in Readable \cup {0} \cup hubCut'
      <4>1. CASE At(r, "ref")
        BY <4>1, <1>10, HubAlone DEF HubInv, BranchesWhole, At, Unlocked, Locked
      <4>2. CASE At(r, "move")
        <5>1. \A q \in HubRequests \ {r} : hubOps[q].do # "move"
          BY <4>2, HubAlone DEF At, Unlocked, Locked
        <5>2. hubRefs[c] \in Readable \cup {0} \cup hubCut \/ hubOps[r].id = hubRefs[c]
          BY <5>1 DEF HubInv, BranchesWhole, At
        <5>3. hubCut' = hubCut \cup {hubOps[r].id}
          BY <4>2, <1>10 DEF At
        <5> QED BY <5>2, <5>3
      <4> QED BY <4>1, <4>2, <1>10
    <3>2. hubRefs'[c] \in {hubRefs[c], 0}
      BY <1>10 DEF HubInv, HubTypeOK
    <3> QED BY <3>1, <3>2
  <2> QED BY <1>1, <1>2, <1>3, <1>4, <1>10, <2>2, <2>3, HubLockedStep
          DEF Locked, At, HubInv, HubTypeOK
<1>11. CASE /\ At(r, "ref") /\ hubRefs' = [hubRefs EXCEPT ![hubOps[r].branch] = 0]
            /\ UNCHANGED <<hubCommits, hubMade, hubCut>>
  <2>1. hubOps[r] \in HubOp /\ hubOps[r].do = "ref"
    BY <1>11 DEF At, HubInv, HubTypeOK
  <2>2. PICK b \in Branches : b = hubOps[r].branch
    BY <2>1, HubShape DEF RefOp
  <2>3. hubRefs' = [hubRefs EXCEPT ![b] = 0]
    BY <1>11, <2>2
  <2>4. /\ At(r, "ref") /\ hubCut' = hubCut /\ UNCHANGED <<hubCommits, hubMade>>
        /\ \E c \in Branches : hubRefs' = hubRefs \/ hubRefs' = [hubRefs EXCEPT ![c] = 0]
    BY <1>11, <2>3
  <2> QED BY <1>10, <2>4
<1>12. CASE /\ At(r, "move") /\ hubCut' = hubCut \cup {hubOps[r].id}
            /\ \E b \in hubOps[r].left :
                 \E head \in {hubRefs[b], 0} : hubRefs' = [hubRefs EXCEPT ![b] = head]
            /\ UNCHANGED <<hubCommits, hubMade>>
  <2> hubOps[r] \in HubOp /\ hubOps[r].do = "move"
    BY <1>12 DEF At, HubInv, HubTypeOK
  <2> hubOps[r].left \subseteq Branches
    BY HubShape DEF MoveOp
  <2>1. PICK b \in Branches :
          \E head \in {hubRefs[b], 0} : hubRefs' = [hubRefs EXCEPT ![b] = head]
    BY <1>12
  <2>2. [hubRefs EXCEPT ![b] = hubRefs[b]] = hubRefs
    BY DEF HubInv, HubTypeOK
  <2> QED BY <1>10, <1>12, <2>1, <2>2 DEF At
<1> QED BY <1>5, <1>7, <1>8, <1>9, <1>11, <1>12 DEF HubFail, At
-----------------------------------------------------------------------------
\* HubInv holds until two mutexes are held at once.
HubAlways == hubOverlap \/ HubInv

\* In every behaviour, with any number of requests that overlap, fail half way and are
\* promoted into: a branch names a commit that can be read and a commit's files have
\* their content files, up to what HubWhole excepts.
THEOREM HubWholeAlways == HubSpec => []HubWhole
<1>1. HubInit => HubAlways
  <2> SUFFICES ASSUME HubInit PROVE HubInv
    BY DEF HubAlways
  <2>1. HubIdle \in HubOp /\ HubIdle.do = "idle"
    BY DEF HubOp, HubIdle
  <2>2. DOMAIN hubCommits = {} /\ Readable = {}
    BY DEF HubInit, Readable
  <2>3. HubTypeOK /\ HubMutex
    BY <2>1, <2>2, HubAssumption DEF HubInit, HubTypeOK, HubDocs, HubMutex, Locked, Ids, Registries
  <2>4. HubTornDocs /\ BranchesWhole /\ ContentsWhole
    BY <2>2 DEF HubInit, HubTornDocs, BranchesWhole, ContentsWhole
  <2>5. ReliesOn(HubIdle)
    BY <2>1 DEF ReliesOn, HubIdle
  <2>6. HubRelies
    BY <2>5 DEF HubInit, HubRelies
  <2> QED BY <2>3, <2>4, <2>6 DEF HubInv
<1>2. HubAlways /\ [HubNext]_hubVars => HubAlways'
  <2> SUFFICES ASSUME HubAlways, [HubNext]_hubVars, ~hubOverlap' PROVE HubInv'
    BY DEF HubAlways
  <2>1. ~hubOverlap
    <3>1. CASE UNCHANGED hubVars
      BY <3>1 DEF hubVars
    <3>2. CASE HubNext
      <4> USE DEF TakesLock, SameLock, HubDone
      <4>1. CASE HubReload
        BY <4>1 DEF HubReload
      <4>2. CASE \E r \in HubRequests, branch \in Branches, path \in Paths :
                   \/ \E content \in Contents : HubUpload(r, branch, path, content)
                   \/ HubRemoveFile(r, branch, path)
        BY <4>2 DEF HubUpload, HubRemoveFile
      <4>3. CASE \E r \in HubRequests :
                   HubCheckBlob(r) \/ HubOpenBlob(r) \/ HubPutBlob(r) \/ HubCommit(r) \/ HubSetRef(r)
        BY <4>3 DEF HubCheckBlob, HubOpenBlob, HubPutBlob, HubCommit, HubSetRef
      <4>4. CASE \E r \in HubRequests :
                   \/ \E id \in DOMAIN hubCommits : HubDelete(r, id)
                   \/ HubDeleteCommit(r) \/ HubMoveRef(r) \/ HubCollect(r)
        BY <4>4 DEF HubDelete, HubDeleteCommit, HubMoveRef, HubCollect
      <4>5. CASE \E r \in HubRequests : HubSweep(r)
        BY <4>5 DEF HubSweep
      <4>6. CASE \E r \in HubRequests :
                   HubPromote(r) \/ HubCopyBlob(r) \/ HubWritePromoted(r) \/ HubFail(r)
        BY <4>6 DEF HubPromote, HubCopyBlob, HubWritePromoted, HubFail
      <4> QED BY <3>2, <4>1, <4>2, <4>3, <4>4, <4>5, <4>6 DEF HubNext
    <3> QED BY <3>1, <3>2
  <2>2. HubInv
    BY <2>1 DEF HubAlways
  <2>3. CASE UNCHANGED hubVars
    BY <2>2, <2>3, HubStill DEF hubVars, HubInv, HubTypeOK
  <2>4. CASE HubReload
    BY <2>2, <2>4, HubStill, HubAssumption
       DEF HubReload, hubFiles, hubHistory, HubInv, HubTypeOK, Registries
  <2>5. CASE HubNext /\ ~HubReload
    BY <2>2, <2>5, HubUploadInv, HubRemoveFileInv, HubCheckBlobInv, HubOpenBlobInv, HubPutBlobInv,
       HubCommitInv, HubSetRefInv, HubDeleteInv, HubDeleteCommitInv, HubMoveRefInv, HubCollectInv,
       HubSweepInv, HubPromoteInv, HubCopyBlobInv, HubWritePromotedInv, HubFailInv DEF HubNext
  <2> QED BY <2>3, <2>4, <2>5
<1>3. HubAlways => HubWhole
  BY DEF HubAlways, HubInv, HubWhole, BranchesWhole, ContentsWhole, Stored, InStore
<1> QED BY <1>1, <1>2, <1>3, PTL DEF HubSpec

-----------------------------------------------------------------------------
(***************************************************************************)
(* The second factor: the shape of its state, and the invariant.           *)
(***************************************************************************)
AuthCodes == [secret : Nat, period : Int]
RecoveryCodes == [set : Nat \ {0}, number : {1, 2}]
Rows == [secret : Nat, enabled : BOOLEAN, codes : SUBSET RecoveryCodes]
FactorOp == [do : {"idle", "enroll", "confirm", "regenerate", "verify", "verified", "burn", "touch"},
             row : Rows, current : BOOLEAN, code : AuthCodes, now : Nat]

FactorTypeOK ==
  /\ factorRow \in Rows
  /\ factorOps \in [FactorRequests -> FactorOp]
  /\ factorClock \in Nat
  /\ factorMade \in Nat
  /\ factorStale \in BOOLEAN
  /\ \A code \in DOMAIN factorReplay : factorReplay[code] \in Nat
  /\ DOMAIN factorUsed \subseteq AuthCodes \cup RecoveryCodes
  /\ \A code \in DOMAIN factorUsed : factorUsed[code] \in Nat

\* A code of the authenticator that has logged in did so once, or was burned too late
\* another time, and it is burned for as long as it verifies.
BurnInv ==
  \A code \in DOMAIN factorUsed : code \in AuthCodes =>
    /\ factorUsed[code] = 1 \/ code \in factorLate
    /\ \/ code \in DOMAIN factorReplay /\ factorReplay[code] >= Until(code)
       \/ factorClock >= Until(code)

\* What a request has read is the stored row, until the row is next written; and
\* it read what its step asks for. A code that a request is about to burn will stay
\* burned to the end of its window.
ReadInv ==
  \A r \in FactorRequests :
    LET rq == factorOps[r]
    IN rq.do # "idle" =>
         /\ rq.current => rq.row = factorRow
         /\ rq.do = "confirm" => ~rq.row.enabled /\ rq.row.secret # 0
         /\ rq.do \in {"verify", "verified", "burn", "touch", "regenerate"} => rq.row.enabled
         /\ rq.do = "verified" => Until(rq.code) <= factorClock + BurnedFor
         /\ rq.do = "burn" => rq.now <= factorClock /\ Until(rq.code) <= rq.now + BurnedFor

\* As long as no row was written over a newer one: a recovery code that has
\* logged in did so once and is struck from the row, and no code of the set a
\* pending enrolment is going to store has been seen.
StruckInv ==
  ~factorStale =>
    /\ factorRow.secret <= factorMade
    /\ \A code \in factorRow.codes : code.set <= factorMade
    /\ \A code \in DOMAIN factorUsed : code \in RecoveryCodes =>
         /\ factorUsed[code] = 1
         /\ code \notin factorRow.codes
         /\ code.set <= factorMade
         /\ ~factorRow.enabled => code.set # factorRow.secret

FactorInv == FactorTypeOK /\ BurnInv /\ ReadInv /\ StruckInv
-----------------------------------------------------------------------------
\* A code that verifies at a moment is still within its window, and the time it is
\* burned for reaches to the end of the window, whichever of the periods around
\* the moment it is of.
LEMMA Window ==
  ASSUME NEW t \in Nat, NEW p \in (t \div Period - Skew) .. (t \div Period + Skew)
  PROVE  /\ t < (p + Skew + 1) * Period
         /\ (p + Skew + 1) * Period <= t + BurnedFor
<1>1. PICK q \in Nat : q = t \div Period /\ q * Period <= t /\ t < (q + 1) * Period
  BY FactorAssumption
<1>2. p \in Int /\ q - Skew <= p /\ p <= q + Skew
  BY <1>1, FactorAssumption
<1>3. \A a, b \in Int : a <= b => a * Period <= b * Period
  BY FactorAssumption
<1>4. (q + 1) * Period <= (p + Skew + 1) * Period
  BY <1>2, <1>3, FactorAssumption
<1>5. (p + Skew + 1) * Period <= (q + (2 * Skew + 1)) * Period
  BY <1>2, <1>3, FactorAssumption
<1>6. (q + (2 * Skew + 1)) * Period = q * Period + Period * (2 * Skew + 1)
  BY FactorAssumption
<1>7. /\ q * Period \in Int /\ (q + 1) * Period \in Int /\ (p + Skew + 1) * Period \in Int
      /\ Period * (2 * Skew + 1) \in Int /\ (q + (2 * Skew + 1)) * Period \in Int
  BY <1>2, FactorAssumption
<1> QED BY <1>1, <1>4, <1>5, <1>6, <1>7 DEF BurnedFor

LEMMA RowTypes ==
  /\ NoRow \in Rows /\ NoRow.secret = 0 /\ ~NoRow.enabled /\ NoRow.codes = {}
  /\ FactorIdle \in FactorOp /\ FactorIdle.do = "idle"
  /\ \A n \in Nat \ {0} : RecoverySet(n) \subseteq RecoveryCodes /\ \A c \in RecoverySet(n) : c.set = n
BY DEF NoRow, Rows, NoCode, AuthCodes, FactorIdle, FactorOp, RecoverySet, RecoveryCodes

LEMMA CodeShapes ==
  /\ \A c \in AuthCodes : "set" \notin DOMAIN c
  /\ \A c \in RecoveryCodes : "set" \in DOMAIN c
BY DEF AuthCodes, RecoveryCodes

\* A row is written: what the other requests have read is outdated.
LEMMA SetEffect ==
  ASSUME FactorTypeOK, NEW r \in FactorRequests, NEW row \in Rows, FactorSet(r, row)
  PROVE  /\ factorRow' = row
         /\ factorOps' \in [FactorRequests -> FactorOp]
         /\ \A q \in FactorRequests : factorOps'[q].do # "idle" =>
              /\ q # r /\ ~factorOps'[q].current
              /\ factorOps'[q].do = factorOps[q].do /\ factorOps'[q].row = factorOps[q].row
              /\ factorOps'[q].code = factorOps[q].code /\ factorOps'[q].now = factorOps[q].now
         /\ factorStale' \in BOOLEAN
         /\ ~factorStale' => ~factorStale /\ factorOps[r].current
<1> DEFINE ops == [factorOps EXCEPT ![r] = FactorIdle]
<1>1. ops \in [FactorRequests -> FactorOp] /\ ops[r].do = "idle"
      /\ \A q \in FactorRequests \ {r} : ops[q] = factorOps[q]
  BY RowTypes DEF FactorTypeOK
<1>2. factorOps' = [q \in FactorRequests |-> [ops[q] EXCEPT !.current = ops[q].do = "idle"]]
  BY DEF FactorSet, Outdated
<1> HIDE DEF ops
<1>3. \A q \in FactorRequests :
        /\ [ops[q] EXCEPT !.current = ops[q].do = "idle"] \in FactorOp
        /\ [ops[q] EXCEPT !.current = ops[q].do = "idle"].do = ops[q].do
        /\ [ops[q] EXCEPT !.current = ops[q].do = "idle"].row = ops[q].row
        /\ [ops[q] EXCEPT !.current = ops[q].do = "idle"].code = ops[q].code
        /\ [ops[q] EXCEPT !.current = ops[q].do = "idle"].now = ops[q].now
        /\ ops[q].do # "idle" => ~[ops[q] EXCEPT !.current = ops[q].do = "idle"].current
  BY <1>1 DEF FactorOp
<1>4. /\ factorOps' \in [FactorRequests -> FactorOp]
      /\ \A q \in FactorRequests : factorOps'[q].do # "idle" =>
              /\ q # r /\ ~factorOps'[q].current
              /\ factorOps'[q].do = factorOps[q].do /\ factorOps'[q].row = factorOps[q].row
              /\ factorOps'[q].code = factorOps[q].code /\ factorOps'[q].now = factorOps[q].now
  BY <1>1, <1>2, <1>3
<1>5. factorStale' \in BOOLEAN /\ (~factorStale' => ~factorStale /\ factorOps[r].current)
  BY DEF FactorSet
<1> QED BY <1>4, <1>5 DEF FactorSet

\* After a row was written.
LEMMA SetRead ==
  ASSUME FactorTypeOK, ReadInv, NEW r \in FactorRequests, NEW row \in Rows, FactorSet(r, row),
         UNCHANGED factorClock
  PROVE  ReadInv'
BY SetEffect DEF ReadInv, Until

\* A request changes its own state alone: it reads the row, goes on or ends.
LEMMA OpOnly ==
  ASSUME FactorInv, NEW r \in FactorRequests, NEW rq \in FactorOp,
         factorOps' = [factorOps EXCEPT ![r] = rq],
         UNCHANGED <<factorRow, factorReplay, factorClock, factorMade, factorUsed, factorLate,
                   factorStale>>,
         rq.do # "idle" => /\ rq.current => rq.row = factorRow
                           /\ rq.do = "confirm" => ~rq.row.enabled /\ rq.row.secret # 0
                           /\ rq.do \in {"verify", "verified", "burn", "touch", "regenerate"} =>
                                rq.row.enabled
                           /\ rq.do = "verified" => Until(rq.code) <= factorClock + BurnedFor
                           /\ rq.do = "burn" => /\ rq.now <= factorClock
                                               /\ Until(rq.code) <= rq.now + BurnedFor
  PROVE  FactorInv'
<1> USE DEF FactorInv
<1>1. /\ factorOps'[r] = rq /\ \A q \in FactorRequests \ {r} : factorOps'[q] = factorOps[q]
      /\ factorOps' \in [FactorRequests -> FactorOp]
  BY DEF FactorTypeOK
<1>2. FactorTypeOK'
  BY <1>1 DEF FactorTypeOK
<1>3. BurnInv' /\ StruckInv'
  BY DEF BurnInv, StruckInv, Until
<1>4. ReadInv'
  BY <1>1 DEF ReadInv, Until
<1> QED BY <1>2, <1>3, <1>4

LEMMA GetInv ==
  ASSUME FactorInv, NEW r \in FactorRequests, NEW do \in {"enroll", "confirm", "regenerate", "verify"},
         FactorGet(r, do),
         UNCHANGED <<factorRow, factorReplay, factorClock, factorMade, factorUsed, factorLate,
                   factorStale>>,
         do = "confirm" => ~factorRow.enabled /\ factorRow.secret # 0,
         do \in {"verify", "regenerate"} => factorRow.enabled
  PROVE  FactorInv'
<1> DEFINE rq == [FactorIdle EXCEPT !.do = do, !.row = factorRow]
<1>1. rq \in FactorOp /\ rq.do = do /\ rq.row = factorRow
  BY RowTypes DEF FactorInv, FactorTypeOK, FactorOp, FactorIdle
<1>2. factorOps' = [factorOps EXCEPT ![r] = rq]
  BY DEF FactorGet
<1> HIDE DEF rq
<1> QED BY <1>1, <1>2, OpOnly

LEMMA EndInv ==
  ASSUME FactorInv, NEW r \in FactorRequests, FactorEnd(r),
         UNCHANGED <<factorRow, factorReplay, factorClock, factorMade, factorUsed, factorLate,
                   factorStale>>
  PROVE  FactorInv'
BY RowTypes, OpOnly DEF FactorEnd

\* Enrolment and new recovery codes: a set of codes that were never seen.
LEMMA FreshSet ==
  ASSUME FactorInv, NEW r \in FactorRequests, NEW row \in Rows, FactorSet(r, row),
         factorMade' = factorMade + 1, UNCHANGED <<factorReplay, factorClock, factorUsed, factorLate>>,
         ~factorStale' => /\ row.secret <= factorMade + 1
                          /\ ~row.enabled => row.secret = factorMade + 1,
         \A code \in row.codes : code.set = factorMade + 1
  PROVE  FactorInv'
<1> USE DEF FactorInv
<1>1. factorMade \in Nat /\ factorMade' \in Nat
  BY DEF FactorTypeOK
<1>2. FactorTypeOK'
  BY <1>1, SetEffect DEF FactorTypeOK
<1>3. BurnInv'
  BY DEF BurnInv, Until
<1>4. StruckInv'
  <2> SUFFICES ASSUME ~factorStale' PROVE StruckInv'
    BY DEF StruckInv
  <2>1. ~factorStale /\ factorRow' = row
    BY SetEffect
  <2>2. \A code \in DOMAIN factorUsed : code \in RecoveryCodes =>
          /\ factorUsed[code] = 1 /\ code.set \in Nat /\ code.set <= factorMade
    BY <2>1 DEF StruckInv, RecoveryCodes
  <2> QED BY <1>1, <2>1, <2>2 DEF StruckInv
<1> QED BY <1>2, <1>3, <1>4, SetRead

LEMMA BeginEnrollInv ==
  ASSUME FactorInv, NEW r \in FactorRequests, BeginEnroll(r)
  PROVE  FactorInv'
<1>1. factorMade \in Nat
  BY DEF FactorInv, FactorTypeOK
<1> DEFINE row == [NoRow EXCEPT !.secret = factorMade + 1]
<1>2. row \in Rows /\ row.secret = factorMade + 1 /\ row.codes = {}
  BY <1>1, RowTypes DEF Rows
<1>3. FactorSet(r, row) /\ factorMade' = factorMade + 1
      /\ UNCHANGED <<factorReplay, factorClock, factorUsed, factorLate>>
  BY DEF BeginEnroll
<1> HIDE DEF row
<1> QED BY <1>1, <1>2, <1>3, FreshSet

LEMMA RegenerateInv ==
  ASSUME FactorInv, NEW r \in FactorRequests, RegenerateRecoveryCodes(r)
  PROVE  FactorInv'
<1>1. factorMade \in Nat /\ factorOps[r].do = "regenerate" /\ factorOps[r].row \in Rows
  BY DEF FactorInv, FactorTypeOK, FactorOp, RegenerateRecoveryCodes
<1> DEFINE row == [factorOps[r].row EXCEPT !.codes = RecoverySet(factorMade + 1)]
<1>r. RecoverySet(factorMade + 1) \subseteq RecoveryCodes
  BY <1>1, RowTypes
<1>2. /\ row \in Rows /\ row.secret = factorOps[r].row.secret
      /\ row.enabled = factorOps[r].row.enabled
      /\ row.codes = RecoverySet(factorMade + 1)
  BY <1>1, <1>r DEF Rows
<1>3. FactorSet(r, row) /\ factorMade' = factorMade + 1
      /\ UNCHANGED <<factorReplay, factorClock, factorUsed, factorLate>>
  BY DEF RegenerateRecoveryCodes
<1> HIDE DEF row
<1>4. \A code \in row.codes : code.set = factorMade + 1
  BY <1>1, <1>2, RowTypes
<1>5. row.enabled
  BY <1>1, <1>2 DEF FactorInv, ReadInv
<1>6. ~factorStale' => row.secret <= factorMade + 1
  <2> SUFFICES ASSUME ~factorStale' PROVE row.secret <= factorMade + 1
    OBVIOUS
  <2>1. ~factorStale /\ factorOps[r].current
    BY <1>2, <1>3, SetEffect DEF FactorInv
  <2>2. factorOps[r].row = factorRow /\ factorRow.secret <= factorMade /\ factorRow.secret \in Nat
    BY <1>1, <2>1 DEF FactorInv, FactorTypeOK, ReadInv, StruckInv, Rows
  <2> QED BY <1>1, <1>2, <2>2
<1> QED BY <1>2, <1>3, <1>4, <1>5, <1>6, FreshSet

LEMMA FinishEnrollInv ==
  ASSUME FactorInv, NEW r \in FactorRequests, FinishEnroll(r)
  PROVE  FactorInv'
<1> USE DEF FactorInv
<1>1. factorMade \in Nat /\ factorOps[r].do = "confirm" /\ factorOps[r].row \in Rows
  BY DEF FactorTypeOK, FactorOp, FinishEnroll
<1> DEFINE old == factorOps[r].row
           row == [old EXCEPT !.enabled = TRUE, !.codes = RecoverySet(old.secret)]
<1>r. old.secret \in Nat \ {0} /\ RecoverySet(old.secret) \subseteq RecoveryCodes
  BY <1>1, RowTypes DEF Rows, ReadInv
<1>2. row \in Rows /\ row.secret = old.secret /\ row.enabled /\ row.codes = RecoverySet(old.secret)
  BY <1>1, <1>r DEF Rows
<1>3. FactorSet(r, row) /\ UNCHANGED <<factorReplay, factorClock, factorMade, factorUsed, factorLate>>
  BY DEF FinishEnroll
<1> HIDE DEF row
<1>4. FactorTypeOK'
  BY <1>2, <1>3, SetEffect DEF FactorTypeOK
<1>5. BurnInv'
  BY <1>3 DEF BurnInv, Until
<1>6. StruckInv'
  <2> SUFFICES ASSUME ~factorStale' PROVE StruckInv'
    BY DEF StruckInv
  <2>1. ~factorStale /\ factorOps[r].current /\ factorRow' = row
    BY <1>2, <1>3, SetEffect
  <2>2. old = factorRow /\ ~factorRow.enabled
    BY <1>1, <1>2, <2>1 DEF ReadInv
  <2>3. \A code \in row.codes : code.set = factorRow.secret
    BY <1>r, <1>2, <2>2, RowTypes DEF Rows
  <2> QED BY <1>2, <1>3, <2>1, <2>2, <2>3 DEF StruckInv
<1> QED BY <1>2, <1>3, <1>4, <1>5, <1>6, SetRead

LEMMA FactorDeleteInv ==
  ASSUME FactorInv, FactorDelete
  PROVE  FactorInv'
<1> USE DEF FactorInv
<1>1. /\ factorOps \in [FactorRequests -> FactorOp] /\ factorMade \in Nat
      /\ factorOps' = [q \in FactorRequests |->
           [factorOps[q] EXCEPT !.current = factorOps[q].do = "idle"]]
      /\ factorRow' = NoRow
      /\ UNCHANGED <<factorReplay, factorClock, factorMade, factorUsed, factorLate,
                   factorStale>>
  BY DEF FactorDelete, Outdated, FactorTypeOK
<1>2. \A q \in FactorRequests :
        /\ factorOps'[q] \in FactorOp /\ factorOps'[q].do = factorOps[q].do
        /\ factorOps'[q].row = factorOps[q].row
        /\ factorOps'[q].code = factorOps[q].code /\ factorOps'[q].now = factorOps[q].now
        /\ factorOps[q].do # "idle" => ~factorOps'[q].current
  BY <1>1 DEF FactorOp
<1>3. FactorTypeOK'
  BY <1>1, <1>2, RowTypes DEF FactorTypeOK
<1>4. BurnInv' /\ ReadInv'
  BY <1>1, <1>2 DEF BurnInv, Until, ReadInv
<1>5. StruckInv'
  <2>1. ~factorStale => \A code \in DOMAIN factorUsed : code \in RecoveryCodes =>
          factorUsed[code] = 1 /\ code.set <= factorMade
    BY DEF StruckInv
  <2>2. \A code \in RecoveryCodes : code.set # 0
    BY DEF RecoveryCodes
  <2> QED BY <1>1, <2>1, <2>2, RowTypes DEF StruckInv
<1> QED BY <1>3, <1>4, <1>5

\* The counters of a code that logs in, and of the others.
LEMMA LogInEffect ==
  ASSUME FactorTypeOK, NEW code \in AuthCodes \cup RecoveryCodes, LogIn(code)
  PROVE  /\ DOMAIN factorUsed' = DOMAIN factorUsed \cup {code}
         /\ \A c \in DOMAIN factorUsed \ {code} : factorUsed'[c] = factorUsed[c]
         /\ factorUsed'[code] \in Nat
         /\ code \notin DOMAIN factorUsed => factorUsed'[code] = 1
<1>1. factorUsed'[code] = CountOf(code) + 1
  BY DEF LogIn
<1>2. CountOf(code) \in Nat /\ (code \notin DOMAIN factorUsed => CountOf(code) = 0)
  BY DEF CountOf, FactorTypeOK
<1> QED BY <1>1, <1>2 DEF LogIn

LEMMA VerifyCodeInv ==
  ASSUME FactorInv, NEW r \in FactorRequests, NEW code \in Verifies(factorOps[r].row.secret),
         VerifyCode(r, code)
  PROVE  FactorInv'
<1> DEFINE rq == [factorOps[r] EXCEPT !.do = "verified", !.code = code]
<1>1. /\ factorOps[r] \in FactorOp /\ factorOps[r].do = "verify" /\ factorClock \in Nat
      /\ factorOps[r].row.secret \in Nat
  BY DEF FactorInv, FactorTypeOK, FactorOp, Rows, VerifyCode
<1>2. PICK p \in (factorClock \div Period - Skew) .. (factorClock \div Period + Skew) :
        code = AuthCode(factorOps[r].row.secret, p)
  BY DEF Verifies
<1>3. p \in Int
  BY <1>1, FactorAssumption
<1>4. code \in AuthCodes /\ code.period = p
  BY <1>1, <1>2, <1>3 DEF AuthCode, AuthCodes
<1>5. Until(code) <= factorClock + BurnedFor
  BY <1>1, <1>2, <1>4, Window DEF Until
<1>6. rq \in FactorOp /\ rq.do = "verified" /\ rq.code = code
      /\ rq.row = factorOps[r].row /\ rq.current = factorOps[r].current
  BY <1>1, <1>4 DEF FactorOp
<1>7. factorOps' = [factorOps EXCEPT ![r] = rq]
      /\ UNCHANGED <<factorRow, factorReplay, factorClock, factorMade, factorUsed, factorLate,
                     factorStale>>
  BY DEF VerifyCode
<1>8. (rq.current => rq.row = factorRow) /\ rq.row.enabled
  BY <1>1, <1>6 DEF FactorInv, ReadInv
<1> HIDE DEF rq
<1> QED BY <1>5, <1>6, <1>7, <1>8, OpOnly

LEMMA ReadClockInv ==
  ASSUME FactorInv, NEW r \in FactorRequests, ReadClock(r)
  PROVE  FactorInv'
<1> DEFINE rq == [factorOps[r] EXCEPT !.do = "burn", !.now = factorClock]
<1>1. factorOps[r] \in FactorOp /\ factorOps[r].do = "verified" /\ factorClock \in Nat
  BY DEF FactorInv, FactorTypeOK, ReadClock
<1>2. rq \in FactorOp /\ rq.do = "burn" /\ rq.code = factorOps[r].code /\ rq.now = factorClock
      /\ rq.row = factorOps[r].row /\ rq.current = factorOps[r].current
  BY <1>1 DEF FactorOp
<1>3. factorOps' = [factorOps EXCEPT ![r] = rq]
      /\ UNCHANGED <<factorRow, factorReplay, factorClock, factorMade, factorUsed, factorLate,
                     factorStale>>
  BY DEF ReadClock
<1>4. /\ (rq.current => rq.row = factorRow) /\ rq.row.enabled
      /\ rq.now <= factorClock /\ Until(rq.code) <= rq.now + BurnedFor
  BY <1>1, <1>2 DEF FactorInv, ReadInv
<1> HIDE DEF rq
<1> QED BY <1>2, <1>3, <1>4, OpOnly

\* A code that is burned again has been burned before only if its window is over.
LEMMA MarkReplayInv ==
  ASSUME FactorInv, NEW r \in FactorRequests, MarkReplay(r)
  PROVE  FactorInv'
<1> USE DEF FactorInv
<1>0. PICK code \in AuthCodes, now \in Nat :
        code = factorOps[r].code /\ now = factorOps[r].now
  BY DEF FactorTypeOK, FactorOp
<1>1. CASE Burned(code, now)
  <2>1. FactorEnd(r) /\ UNCHANGED <<factorRow, factorReplay, factorClock, factorMade, factorUsed,
                                    factorLate, factorStale>>
    BY <1>0, <1>1 DEF MarkReplay
  <2> QED BY <2>1, EndInv
<1>2. CASE ~Burned(code, now)
  <2>1. /\ factorReplay' = [c \in DOMAIN factorReplay \cup {code} |->
                             IF c = code THEN now + BurnedFor ELSE factorReplay[c]]
        /\ LogIn(code) /\ factorOps[r].do = "burn"
        /\ factorLate' = IF factorClock >= Until(code) THEN factorLate \cup {code} ELSE factorLate
        /\ factorOps' = [factorOps EXCEPT ![r].do = "touch", ![r].code = NoCode, ![r].now = 0]
        /\ UNCHANGED <<factorRow, factorClock, factorMade, factorStale>>
    BY <1>0, <1>2 DEF MarkReplay
  <2>2. factorClock \in Nat /\ factorOps \in [FactorRequests -> FactorOp]
    BY DEF FactorTypeOK
  <2>3. now <= factorClock /\ Until(code) <= now + BurnedFor
    BY <1>0, <2>1 DEF ReadInv
  <2>4. Until(code) \in Int /\ BurnedFor \in Nat
    BY FactorAssumption DEF Until, BurnedFor, AuthCodes
  <2>5. code \in DOMAIN factorUsed => factorClock >= Until(code)
    <3> SUFFICES ASSUME code \in DOMAIN factorUsed, factorClock < Until(code) PROVE FALSE
      BY <2>2, <2>4
    <3>1. code \in DOMAIN factorReplay /\ factorReplay[code] >= Until(code)
      BY <2>2, <2>4 DEF BurnInv
    <3>2. factorReplay[code] \in Nat
      BY <3>1 DEF FactorTypeOK
    <3> QED BY <1>2, <2>2, <2>3, <2>4, <3>1, <3>2 DEF Burned
  <2>6. /\ DOMAIN factorUsed' = DOMAIN factorUsed \cup {code}
        /\ factorUsed'[code] \in Nat
        /\ code \notin DOMAIN factorUsed => factorUsed'[code] = 1
        /\ \A c \in DOMAIN factorUsed \ {code} : factorUsed'[c] = factorUsed[c]
    BY <2>1, LogInEffect
  <2>7. factorUsed'[code] = 1 \/ code \in factorLate'
    BY <2>1, <2>5, <2>6
  <2>8. factorLate \subseteq factorLate'
    BY <2>1
  <2>9. /\ DOMAIN factorReplay' = DOMAIN factorReplay \cup {code}
        /\ factorReplay'[code] = now + BurnedFor
        /\ \A c \in DOMAIN factorReplay \ {code} : factorReplay'[c] = factorReplay[c]
    BY <2>1
  <2>10. NoCode \in AuthCodes
    BY DEF NoCode, AuthCodes
  <2>11. /\ factorOps' \in [FactorRequests -> FactorOp]
         /\ \A q \in FactorRequests \ {r} : factorOps'[q] = factorOps[q]
         /\ factorOps'[r].do = "touch" /\ factorOps'[r].row = factorOps[r].row
         /\ factorOps'[r].current = factorOps[r].current
    <3> DEFINE rq == [factorOps[r] EXCEPT !.do = "touch", !.code = NoCode, !.now = 0]
    <3>1. rq \in FactorOp /\ rq.do = "touch" /\ rq.row = factorOps[r].row
          /\ rq.current = factorOps[r].current
      BY <2>2, <2>10 DEF FactorOp
    <3>2. factorOps' = [factorOps EXCEPT ![r] = rq]
      BY <2>1, <2>2
    <3> HIDE DEF rq
    <3> QED BY <2>2, <3>1, <3>2
  <2>12. FactorTypeOK'
    BY <2>1, <2>2, <2>4, <2>6, <2>9, <2>11 DEF FactorTypeOK
  <2>13. BurnInv'
    BY <2>1, <2>3, <2>6, <2>7, <2>8, <2>9 DEF BurnInv, Until
  <2>14. ReadInv'
    BY <2>1, <2>11 DEF ReadInv, Until
  <2>15. code \notin RecoveryCodes
    BY CodeShapes
  <2>16. StruckInv'
    BY <2>1, <2>6, <2>15 DEF StruckInv
  <2> QED BY <2>12, <2>13, <2>14, <2>16
<1> QED BY <1>1, <1>2

LEMMA TouchRowInv ==
  ASSUME FactorInv, NEW r \in FactorRequests, TouchRow(r)
  PROVE  FactorInv'
<1> USE DEF FactorInv
<1>1. /\ factorOps[r].row \in Rows /\ factorOps[r].do = "touch"
      /\ FactorSet(r, factorOps[r].row)
      /\ UNCHANGED <<factorReplay, factorClock, factorMade, factorUsed, factorLate>>
  BY DEF TouchRow, FactorTypeOK, FactorOp
<1>2. FactorTypeOK'
  BY <1>1, SetEffect DEF FactorTypeOK
<1>3. BurnInv'
  BY <1>1 DEF BurnInv, Until
<1>4. ReadInv'
  BY <1>1, SetRead
<1>5. ~factorStale' => ~factorStale /\ factorRow' = factorRow
  BY <1>1, SetEffect DEF ReadInv
<1>6. StruckInv'
  BY <1>1, <1>5 DEF StruckInv
<1> QED BY <1>2, <1>3, <1>4, <1>6

LEMMA BurnRecoveryInv ==
  ASSUME FactorInv, NEW r \in FactorRequests, NEW code \in factorOps[r].row.codes,
         BurnRecovery(r, code)
  PROVE  FactorInv'
<1> USE DEF FactorInv
<1> DEFINE old == factorOps[r].row
           row == [old EXCEPT !.codes = @ \ {code}]
<1>1. old \in Rows /\ factorOps[r].do = "verify" /\ code \in RecoveryCodes
  BY DEF BurnRecovery, FactorTypeOK, FactorOp, Rows
<1>2. /\ row \in Rows /\ row.secret = old.secret /\ row.enabled = old.enabled
      /\ row.codes = old.codes \ {code}
  BY <1>1 DEF Rows
<1>3. /\ FactorSet(r, row) /\ LogIn(code)
      /\ UNCHANGED <<factorReplay, factorClock, factorMade, factorLate>>
  BY DEF BurnRecovery
<1> HIDE DEF row
<1>4. /\ DOMAIN factorUsed' = DOMAIN factorUsed \cup {code}
      /\ \A c \in DOMAIN factorUsed \ {code} : factorUsed'[c] = factorUsed[c]
      /\ factorUsed'[code] \in Nat /\ (code \notin DOMAIN factorUsed => factorUsed'[code] = 1)
  BY <1>1, <1>3, LogInEffect
<1>5. FactorTypeOK'
  BY <1>1, <1>2, <1>3, <1>4, SetEffect DEF FactorTypeOK
<1>6. BurnInv'
  <2>1. code \notin AuthCodes
    BY <1>1, CodeShapes
  <2> QED BY <1>3, <1>4, <2>1 DEF BurnInv, Until
<1>7. ReadInv'
  BY <1>2, <1>3, SetRead
<1>8. StruckInv'
  <2> SUFFICES ASSUME ~factorStale' PROVE StruckInv'
    BY DEF StruckInv
  <2>1. ~factorStale /\ factorOps[r].current /\ factorRow' = row
    BY <1>2, <1>3, SetEffect
  <2>2. old = factorRow /\ factorRow.enabled
    BY <1>1, <2>1 DEF ReadInv
  <2>3. code \notin DOMAIN factorUsed /\ code.set <= factorMade
    BY <1>1, <2>1, <2>2 DEF StruckInv
  <2> QED BY <1>1, <1>2, <1>3, <1>4, <2>1, <2>2, <2>3 DEF StruckInv
<1> QED BY <1>5, <1>6, <1>7, <1>8

\* The steps of time: the clock only makes codes expire, the sweep drops only codes
\* whose window is over, a restart forgets the codes it stops burning.
LEMMA TimeInv ==
  ASSUME FactorInv, FactorTick \/ FactorGc \/ FactorRestart
  PROVE  FactorInv'
<1> USE DEF FactorInv
<1>1. /\ \A code \in AuthCodes : Until(code) \in Int
      /\ factorClock \in Nat
  BY FactorAssumption DEF AuthCodes, Until, FactorTypeOK
<1>2. CASE FactorTick
  <2>1. FactorTypeOK' /\ StruckInv'
    BY <1>2 DEF FactorTick, FactorTypeOK, StruckInv
  <2>3. ReadInv'
    <3>1. \A code \in AuthCodes : Until(code) <= factorClock + BurnedFor =>
                                  Until(code) <= factorClock + 1 + BurnedFor
      BY <1>1, FactorAssumption DEF BurnedFor
    <3>2. \A r \in FactorRequests : factorOps[r].code \in AuthCodes /\ factorOps[r].now \in Nat
      BY DEF FactorTypeOK, FactorOp
    <3>3. /\ factorClock' = factorClock + 1 /\ UNCHANGED <<factorOps, factorRow>>
          /\ \A r \in FactorRequests : factorOps[r].now <= factorClock => factorOps[r].now <= factorClock + 1
      BY <1>1, <1>2, <3>2 DEF FactorTick
    <3> QED BY <3>1, <3>2, <3>3 DEF ReadInv, Until
  <2>2. BurnInv'
    BY <1>1, <1>2 DEF FactorTick, BurnInv, Until
  <2> QED BY <2>1, <2>2, <2>3
<1>3. CASE FactorGc
  <2>1. /\ DOMAIN factorReplay' = {d \in DOMAIN factorReplay : Burned(d, factorClock)}
        /\ \A c \in DOMAIN factorReplay' : factorReplay'[c] = factorReplay[c]
        /\ UNCHANGED <<factorRow, factorOps, factorClock, factorMade, factorUsed, factorLate,
                   factorStale>>
    BY <1>3 DEF FactorGc
  <2>2. FactorTypeOK' /\ ReadInv' /\ StruckInv'
    BY <2>1 DEF FactorTypeOK, ReadInv, StruckInv, Until
  <2>3. BurnInv'
    <3> SUFFICES ASSUME NEW code \in DOMAIN factorUsed, code \in AuthCodes
                 PROVE  /\ factorUsed[code] = 1 \/ code \in factorLate
                        /\ \/ code \in DOMAIN factorReplay' /\ factorReplay'[code] >= Until(code)
                           \/ factorClock >= Until(code)
      BY <2>1 DEF BurnInv, Until
    <3>1. CASE code \in DOMAIN factorReplay /\ ~Burned(code, factorClock)
      <4>1. factorReplay[code] \in Nat /\ ~(factorReplay[code] > factorClock)
        BY <3>1 DEF FactorTypeOK, Burned
      <4> QED BY <1>1, <4>1 DEF BurnInv
    <3> QED BY <2>1, <3>1 DEF BurnInv
  <2> QED BY <2>2, <2>3
<1>4. CASE FactorRestart
  <2>1. /\ DOMAIN factorUsed' = {d \in DOMAIN factorUsed : "set" \in DOMAIN d}
        /\ \A c \in DOMAIN factorUsed' : factorUsed'[c] = factorUsed[c]
        /\ DOMAIN factorReplay' = {}
        /\ \A r \in FactorRequests : factorOps'[r] = FactorIdle
        /\ factorOps' = [r \in FactorRequests |-> FactorIdle]
        /\ UNCHANGED <<factorRow, factorClock, factorMade, factorStale>>
    BY <1>4 DEF FactorRestart
  <2>2. FactorTypeOK' /\ ReadInv'
    BY <2>1, RowTypes DEF FactorTypeOK, ReadInv
  <2>3. BurnInv'
    BY <2>1, CodeShapes DEF BurnInv
  <2>4. StruckInv'
    BY <2>1 DEF StruckInv
  <2> QED BY <2>2, <2>3, <2>4
<1> QED BY <1>2, <1>3, <1>4

\* The step-up sessions themselves change nothing the codes depend on.
LEMMA PendingInv ==
  ASSUME FactorInv,
         UNCHANGED <<factorRow, factorReplay, factorOps, factorClock, factorMade, factorUsed,
                     factorLate, factorStale>>
  PROVE  FactorInv'
BY DEF FactorInv, FactorTypeOK, BurnInv, Until, ReadInv, StruckInv

LEMMA FactorStep == FactorInv /\ [FactorNext]_factorVars => FactorInv'
<1> SUFFICES ASSUME FactorInv, [FactorNext]_factorVars PROVE FactorInv'
  OBVIOUS
<1>1. CASE UNCHANGED factorVars
  BY <1>1, PendingInv DEF factorVars
<1>2. ASSUME NEW r \in FactorRequests, NEW do \in {"enroll", "confirm", "regenerate"},
             FactorRead(r, do)
      PROVE  FactorInv'
  BY <1>2, GetInv DEF FactorRead
<1>3. ASSUME NEW r \in FactorRequests, NEW login \in factorPending, HandleFinish(r, login)
      PROVE  FactorInv'
  <2>1. CASE factorRow.enabled
    BY <1>3, <2>1, GetInv DEF HandleFinish
  <2>2. CASE ~factorRow.enabled
    BY <1>3, <2>2, PendingInv DEF HandleFinish
  <2> QED BY <2>1, <2>2
<1>4. ASSUME NEW r \in FactorRequests, FactorFail(r) PROVE FactorInv'
  BY <1>4, EndInv DEF FactorFail
<1>5. CASE HandleBegin \/ \E login \in factorPending : PendingExpire(login)
  BY <1>5, PendingInv DEF HandleBegin, PendingExpire
<1> QED BY <1>1, <1>2, <1>3, <1>4, <1>5, BeginEnrollInv, FinishEnrollInv, RegenerateInv,
        VerifyCodeInv, ReadClockInv, MarkReplayInv, TouchRowInv, BurnRecoveryInv, FactorDeleteInv, TimeInv DEF FactorNext
-----------------------------------------------------------------------------
\* Whatever the order in which requests overlap, and for every period and skew, a
\* code of the authenticator logs in once while the process runs unless a request
\* burns it after its window, and a recovery code logs in once unless a row read
\* earlier was written over a newer one.
THEOREM CodeOnceAlways == FactorSpec => []CodeOnce
<1>1. FactorInit => FactorInv
  <2> SUFFICES ASSUME FactorInit PROVE FactorInv
    OBVIOUS
  <2>1. DOMAIN factorUsed = {} /\ DOMAIN factorReplay = {}
    BY DEF FactorInit
  <2>2. FactorTypeOK
    <3>1. factorOps \in [FactorRequests -> FactorOp] /\ factorRow \in Rows
      BY RowTypes DEF FactorInit
    <3>2. factorStale \in BOOLEAN
      BY Zenon DEF FactorInit
    <3> QED BY <2>1, <3>1, <3>2 DEF FactorInit, FactorTypeOK
  <2>3. BurnInv /\ ReadInv /\ StruckInv
    BY <2>1, RowTypes DEF FactorInit, BurnInv, ReadInv, StruckInv
  <2> QED BY <2>2, <2>3 DEF FactorInv
<1>2. FactorInv => CodeOnce
  BY CodeShapes DEF FactorInv, FactorTypeOK, BurnInv, StruckInv, CodeOnce
<1> QED BY <1>1, <1>2, FactorStep, PTL DEF FactorSpec

(***************************************************************************)
(* The file servers: the shape of the state.                               *)
(***************************************************************************)
ServeBindings == {Binding(id, e) : id \in Servers, e \in KeyedEntries}
ListenerBindings == {Binding(0, e) : e \in Endpoints}
PassOp ==
  [do : {"reconcile"}, at : {"next", "read", "write", "listen"}, config : Configs, next : Nat \ {0},
   bindings : Seq(ServeBindings), key : 0..MaxHostKeys, back : Configs]
ServeOp == [do : {"idle", "load"}] \cup [do : {"loaded"}, config : Configs] \cup PassOp

ServeTypeOK ==
  /\ serveStored \in Configs /\ serveInstances \in Configs
  /\ serveBinds \in [Servers -> {"no", "pending", "failed"}] /\ serveKeys \in 0..MaxHostKeys
  /\ serveOps \in [ServeRequests -> ServeOp]
  /\ serveHosts \in [registry : Seq(ListenerBindings), serve : Seq(ServeBindings)]
  /\ serveGroups \in [ServePorts -> [open : BOOLEAN, tls : BOOLEAN, routes : SUBSET (Servers \cup {0})]]
  /\ servePorts \in [ServePorts -> Servers \cup {0, Http, Other}]
  /\ serveSettled \in 0..2

(***************************************************************************)
(* The invariant.                                                          *)
(***************************************************************************)
\* One reconciliation at a time.
Reconciling(r) == serveOps[r].do = "reconcile"
MutexInv == \A q, r \in ServeRequests : Reconciling(q) /\ Reconciling(r) => q = r

\* Who listens on a port: a server that was started there, unless its goroutine is
\* still to open the listener or could not, or the virtual hosts with the shared
\* listener of the port.
Own(e) == e.protocol \in {"ftp", "sftp"}
PortInv ==
  \A p \in ServePorts :
    /\ \A id \in Servers :
         servePorts[p] = id <=>
           Own(serveInstances[id]) /\ serveInstances[id].port = p /\ serveBinds[id] = "no"
    /\ servePorts[p] = Http <=> serveGroups[p].open

\* Only an FTP or TFTP server has a goroutine that opens its listener.
BindInv == \A id \in Servers : serveBinds[id] # "no" => serveInstances[id].protocol = "ftp"

\* A shared listener has the routes of the bindings, or is closed.
GroupInv ==
  \A p \in ServePorts :
    /\ serveGroups[p].open <=> serveGroups[p].routes # {}
    /\ serveGroups[p].routes \in {{}, Routes(DesiredAt(serveHosts, p))}

\* A list of bindings is that of the HTTP entries, complete for some of the servers.
Publishes(list, config, ids) ==
  /\ \A k \in DOMAIN list : \E id \in Servers :
       config[id].protocol = "http" /\ list[k] = Binding(id, config[id])
  /\ \A id \in ids : config[id].protocol = "http" =>
       \E k \in DOMAIN list : list[k] = Binding(id, config[id])

\* A server runs with an entry, but for its host key, or not at all.
Runs(inst, e) == inst = NoEntry \/ (inst.protocol = e.protocol /\ inst.port = e.port)

\* What a reconciliation has done so far. An SFTP server is down while its host key
\* is stored.
Done(rq) == {id \in Servers : id < rq.next}
PassOf(rq) ==
  /\ \A id \in Done(rq) : Runs(serveInstances[id], rq.config[id])
  /\ \A id \in Servers : rq.config[id].protocol = "none" => serveInstances[id] = NoEntry
  /\ Publishes(rq.bindings, rq.config, Done(rq))
  /\ rq.at # "next" =>
       rq.next \in Servers /\ serveInstances[rq.next] = NoEntry /\ rq.config[rq.next].protocol = "sftp"
PassInv == \A r \in ServeRequests : Reconciling(r) => PassOf(serveOps[r])

\* The stored settings were applied once, and no others are being applied: servers
\* run with their stored entries or not at all, and the bindings are the stored
\* ones. A second pass gives every server the port that it alone claims, or passes
\* its check; a pass after it takes the port from an SFTP server until it is back.
Applied ==
  serveSettled > 0 /\ \A r \in ServeRequests : Reconciling(r) => serveOps[r].config = serveStored
Listening(ids) ==
  \A p \in ServePorts : \A id \in ids :
    Claims(p) = {id} => servePorts[p] = id \/ serveBinds[id] # "no"
Restarting ==
  {serveOps[r].next : r \in {q \in ServeRequests : Reconciling(q) /\ serveOps[q].at # "next"}}
Routed ==
  \A p \in ServePorts :
    Claims(p) = {Http} => serveGroups[p].routes = Routes(DesiredAt(serveHosts, p))
Kept == \A id \in Servers : Runs(serveInstances[id], serveStored[id])
AppliedInv ==
  Applied =>
    /\ Kept
    /\ Publishes(serveHosts.serve, serveStored, Servers)
    /\ \A r \in ServeRequests : Reconciling(r) => Listening(Done(serveOps[r]))
    /\ serveSettled = 2 => Listening(Servers \ Restarting) /\ Routed

ServeInv == ServeTypeOK /\ MutexInv /\ PortInv /\ BindInv /\ GroupInv /\ PassInv /\ AppliedInv
-----------------------------------------------------------------------------
\* The ids are numbered, and no id stands for the virtual hosts or another program.
LEMMA ServerIds ==
  /\ \A id \in Servers : id \in Nat /\ id > 0 /\ id # Http /\ id # Other
  /\ \A id \in Servers, n \in Nat \ {0} : n \notin Servers => id < n
  /\ 0 \notin Servers /\ Http # 0 /\ Other # 0 /\ Http # Other
<1>1. \A id \in Servers : id \in Nat \ {0}
  BY ServeAssumption, Zenon DEF ServeAssumption
<1>2. \A id \in Servers : \A n \in 1..id : n \in Servers
  BY ServeAssumption, Zenon DEF ServeAssumption
<1>3. ASSUME NEW id \in Servers PROVE id \in Nat /\ id > 0
  <2>1. id \in Nat \ {0}
    BY <1>1
  <2> QED BY <2>1
<1>4. ASSUME NEW id \in Servers, NEW n \in Nat \ {0}, n \notin Servers PROVE id < n
  <2>1. n \notin 1..id
    BY <1>2, <1>4
  <2> QED BY <1>3, <2>1
<1> QED BY <1>3, <1>4 DEF Http, Other

LEMMA NoneShape ==
  /\ NoEntry.protocol = "none" /\ NoEntry.protocol # "ftp" /\ NoEntry.protocol # "http" /\ ~Own(NoEntry)
  /\ \A e : Runs(NoEntry, e)
BY DEF NoEntry, Own, Runs

\* A host key leaves the rest of an entry as it is.
LEMMA KeyedShape ==
  ASSUME NEW e \in KeyedEntries
  PROVE  /\ e.protocol \in {"ftp", "sftp", "http"} /\ e.port \in ServePorts /\ e.key \in 0..MaxHostKeys
         /\ e # NoEntry
         /\ \A k \in 0..MaxHostKeys : /\ WithKey(e, k) \in KeyedEntries
                                      /\ WithKey(e, k).protocol = e.protocol
                                      /\ WithKey(e, k).port = e.port
<1>1. PICK f \in Entries, n \in 0..MaxHostKeys : e = WithKey(f, n)
  BY DEF KeyedEntries
<1>2. /\ f.protocol \in {"ftp", "sftp", "http"} /\ f.port \in ServePorts
      /\ f = [protocol |-> f.protocol, port |-> f.port, host |-> f.host, tls |-> f.tls, key |-> 0]
  BY ServeAssumption, Zenon DEF ServeAssumption
<1> DEFINE R(k) == [protocol |-> f.protocol, port |-> f.port, host |-> f.host, tls |-> f.tls, key |-> k]
<1>0. \A j, k : [R(j) EXCEPT !.key = k] = R(k)
  OBVIOUS
<1>3. \A k \in 0..MaxHostKeys : /\ WithKey(f, k) = R(k) /\ WithKey(e, k) = WithKey(f, k)
                               /\ R(k).protocol = f.protocol /\ R(k).port = f.port /\ R(k).key = k
  <2>1. f = R(0)
    BY <1>2
  <2>2. \A k : WithKey(f, k) = [R(0) EXCEPT !.key = k]
    BY <2>1, Zenon DEF WithKey
  <2>3. \A k : WithKey(f, k) = R(k)
    BY <1>0, <2>2
  <2>4. e = R(n)
    BY <1>1, <2>3
  <2>5. \A k : WithKey(e, k) = [R(n) EXCEPT !.key = k]
    BY <2>4, Zenon DEF WithKey
  <2> QED BY <1>0, <2>3, <2>5
<1> HIDE DEF R
<1>4. ASSUME NEW k \in 0..MaxHostKeys
      PROVE  /\ WithKey(e, k) \in KeyedEntries
             /\ WithKey(e, k).protocol = f.protocol /\ WithKey(e, k).port = f.port
  BY <1>3 DEF KeyedEntries
<1>5. e.protocol = f.protocol /\ e.port = f.port /\ e.key = n
  BY <1>1, <1>3
<1>6. e # NoEntry
  BY <1>2, <1>5, NoneShape
<1> QED BY <1>2, <1>4, <1>5, <1>6

LEMMA EntryShape ==
  ASSUME NEW config \in Configs, NEW id \in Servers
  PROVE  /\ config[id].protocol \in {"ftp", "sftp", "http", "none"}
         /\ config[id].protocol = "none" <=> config[id] = NoEntry
         /\ config[id].protocol # "none" => config[id] \in KeyedEntries /\ config[id].port \in ServePorts
<1>1. \A e \in KeyedEntries : e.protocol \in {"ftp", "sftp", "http"} /\ e.port \in ServePorts
  BY KeyedShape
<1>2. config[id] \in KeyedEntries \cup {NoEntry}
  BY DEF Configs
<1>3. NoEntry.protocol = "none"
  BY DEF NoEntry
<1>4. CASE config[id] = NoEntry
  BY <1>3, <1>4, Zenon
<1>5. CASE config[id] \in KeyedEntries
  BY <1>1, <1>3, <1>5
<1> QED BY <1>2, <1>4, <1>5

\* A request that reconciles, and one that has loaded the settings.
LEMMA OpShape ==
  ASSUME NEW rq \in ServeOp
  PROVE  /\ rq.do \in {"idle", "load", "loaded", "reconcile"}
         /\ rq.do = "loaded" => rq.config \in Configs
         /\ rq.do = "reconcile" =>
              /\ rq \in PassOp
              /\ rq.config \in Configs /\ rq.next \in Nat \ {0} /\ rq.bindings \in Seq(ServeBindings)
              /\ rq.key \in 0..MaxHostKeys /\ rq.back \in Configs
              /\ rq.at \in {"next", "read", "write", "listen"}
BY DEF ServeOp, PassOp
-----------------------------------------------------------------------------
(***************************************************************************)
(* The bindings of a port.                                                 *)
(***************************************************************************)
LEMMA Concatenated ==
  ASSUME NEW s \in Seq(ListenerBindings), NEW t \in Seq(ServeBindings)
  PROVE  /\ \A n \in DOMAIN (s \o t) :
              (\E k \in DOMAIN s : (s \o t)[n] = s[k]) \/ (\E k \in DOMAIN t : (s \o t)[n] = t[k])
         /\ \A k \in DOMAIN s : \E n \in DOMAIN (s \o t) : (s \o t)[n] = s[k]
         /\ \A k \in DOMAIN t : \E n \in DOMAIN (s \o t) : (s \o t)[n] = t[k]
<1>1. /\ Len(s) \in Nat /\ Len(t) \in Nat /\ DOMAIN s = 1..Len(s) /\ DOMAIN t = 1..Len(t)
      /\ DOMAIN (s \o t) = 1..(Len(s) + Len(t))
  OBVIOUS
<1>2. \A n \in 1..(Len(s) + Len(t)) : (s \o t)[n] = IF n <= Len(s) THEN s[n] ELSE t[n - Len(s)]
  OBVIOUS
<1>3. ASSUME NEW n \in DOMAIN (s \o t)
      PROVE  (\E k \in DOMAIN s : (s \o t)[n] = s[k]) \/ (\E k \in DOMAIN t : (s \o t)[n] = t[k])
  <2>1. CASE n <= Len(s)
    <3>1. n \in DOMAIN s /\ (s \o t)[n] = s[n]
      BY <1>1, <1>2, <2>1
    <3> QED BY <3>1
  <2>2. CASE ~(n <= Len(s))
    <3>1. n - Len(s) \in DOMAIN t /\ (s \o t)[n] = t[n - Len(s)]
      BY <1>1, <1>2, <2>2
    <3> QED BY <3>1
  <2> QED BY <2>1, <2>2
<1>4. ASSUME NEW k \in DOMAIN s PROVE \E n \in DOMAIN (s \o t) : (s \o t)[n] = s[k]
  <2>1. k \in DOMAIN (s \o t) /\ (s \o t)[k] = s[k]
    BY <1>1, <1>2
  <2> QED BY <2>1
<1>5. ASSUME NEW k \in DOMAIN t PROVE \E n \in DOMAIN (s \o t) : (s \o t)[n] = t[k]
  <2>1. k + Len(s) \in DOMAIN (s \o t) /\ (s \o t)[k + Len(s)] = t[k]
    BY <1>1, <1>2
  <2> QED BY <2>1
<1> QED BY <1>3, <1>4, <1>5

Hosts == [registry : Seq(ListenerBindings), serve : Seq(ServeBindings)]
BoundAt(list, p) == \E k \in DOMAIN list : list[k].port = p

\* A port has bindings when one of the owners has one there.
LEMMA DesiredWhen ==
  ASSUME NEW hosts \in Hosts, NEW p
  PROVE  DOMAIN DesiredAt(hosts, p) # {} <=> BoundAt(hosts.registry, p) \/ BoundAt(hosts.serve, p)
<1> DEFINE all == hosts.registry \o hosts.serve
<1>0. hosts.registry \in Seq(ListenerBindings) /\ hosts.serve \in Seq(ServeBindings)
  BY DEF Hosts
<1>1. DOMAIN DesiredAt(hosts, p) = {m \in DOMAIN all : all[m].port = p}
  BY DEF DesiredAt
<1>2. DOMAIN DesiredAt(hosts, p) # {} <=> \E m \in DOMAIN all : all[m].port = p
  BY <1>1
<1>3. /\ \A n \in DOMAIN all : \/ \E k \in DOMAIN hosts.registry : all[n] = hosts.registry[k]
                               \/ \E k \in DOMAIN hosts.serve : all[n] = hosts.serve[k]
      /\ \A k \in DOMAIN hosts.registry : \E n \in DOMAIN all : all[n] = hosts.registry[k]
      /\ \A k \in DOMAIN hosts.serve : \E n \in DOMAIN all : all[n] = hosts.serve[k]
  BY <1>0, Concatenated, Zenon
<1> HIDE DEF all
<1>4. ASSUME NEW n \in DOMAIN all, all[n].port = p
      PROVE  BoundAt(hosts.registry, p) \/ BoundAt(hosts.serve, p)
  BY <1>3, <1>4, Zenon DEF BoundAt
<1>5. ASSUME BoundAt(hosts.registry, p) \/ BoundAt(hosts.serve, p)
      PROVE  \E n \in DOMAIN all : all[n].port = p
  BY <1>3, <1>5, ZenonT(30) DEF BoundAt
<1> QED BY <1>2, <1>4, <1>5, Zenon

\* A route is of a registry listener, or of a server with a binding on the port.
LEMMA RouteOf ==
  ASSUME NEW hosts \in Hosts, NEW p, NEW id \in Routes(DesiredAt(hosts, p))
  PROVE  /\ id = 0 \/ \E k \in DOMAIN hosts.serve : hosts.serve[k].id = id /\ hosts.serve[k].port = p
         /\ id \in Servers \cup {0}
<1> DEFINE all == hosts.registry \o hosts.serve
<1>0. hosts.registry \in Seq(ListenerBindings) /\ hosts.serve \in Seq(ServeBindings)
  BY DEF Hosts
<1>1. PICK n \in DOMAIN DesiredAt(hosts, p) : id = DesiredAt(hosts, p)[n].id
  BY DEF Routes
<1>2. n \in DOMAIN all /\ all[n].port = p /\ all[n].id = id
  BY <1>1 DEF DesiredAt
<1> HIDE DEF all
<1>3. \/ \E k \in DOMAIN hosts.registry : all[n] = hosts.registry[k]
      \/ \E k \in DOMAIN hosts.serve : all[n] = hosts.serve[k]
  BY <1>0, <1>2, Concatenated, Zenon DEF all
<1>4. ASSUME NEW k \in DOMAIN hosts.registry, all[n] = hosts.registry[k] PROVE id = 0
  <2>1. all[n] \in ListenerBindings
    BY <1>0, <1>4
  <2> QED BY <1>2, <2>1 DEF ListenerBindings, Binding
<1>5. ASSUME NEW k \in DOMAIN hosts.serve, all[n] = hosts.serve[k]
      PROVE  id \in Servers
  <2>1. all[n] \in ServeBindings
    BY <1>0, <1>5
  <2> QED BY <1>2, <2>1 DEF ServeBindings, Binding
<1> QED BY <1>2, <1>3, <1>4, <1>5

\* Without a binding there is no route.
LEMMA NoRoute ==
  ASSUME NEW bindings, Routes(bindings) # {}
  PROVE  DOMAIN bindings # {}
BY DEF Routes
-----------------------------------------------------------------------------
(***************************************************************************)
(* Who claims a port.                                                      *)
(***************************************************************************)
Wanted(p) == DOMAIN DesiredAt(serveHosts, p) # {}

LEMMA ClaimsAre ==
  ASSUME NEW p \in ServePorts
  PROVE  /\ \A id \in Servers : id \in Claims(p) <=> Own(serveStored[id]) /\ serveStored[id].port = p
         /\ Http \in Claims(p) <=> Wanted(p)
         /\ Other \in Claims(p) <=> servePorts[p] = Other
         /\ \A c \in Claims(p) : c \in Servers \cup {Http, Other}
BY ServerIds DEF Claims, Wanted, Own

LEMMA ClaimsSame ==
  ASSUME NEW p \in ServePorts, UNCHANGED serveStored, Wanted(p)' <=> Wanted(p),
         servePorts'[p] = Other <=> servePorts[p] = Other
  PROVE  Claims(p)' = Claims(p)
BY DEF Claims, Wanted

\* Once the stored settings are applied, a port is held by one who claims it.
LEMMA HeldByClaim ==
  ASSUME ServeTypeOK, PortInv, GroupInv, Kept, NEW p \in ServePorts
  PROVE  servePorts[p] \in Claims(p) \cup {0}
<1>1. servePorts[p] \in Servers \cup {0, Http, Other}
  BY DEF ServeTypeOK
<1>2. ASSUME servePorts[p] \in Servers PROVE servePorts[p] \in Claims(p)
  <2> DEFINE id == servePorts[p]
  <2>1. Own(serveInstances[id]) /\ serveInstances[id].port = p
    BY <1>2 DEF PortInv
  <2>2. Runs(serveInstances[id], serveStored[id])
    BY <1>2 DEF Kept
  <2>3. Own(serveStored[id]) /\ serveStored[id].port = p
    BY <2>1, <2>2, NoneShape DEF Runs, Own
  <2> QED BY <1>2, <2>3, ClaimsAre
<1>3. ASSUME servePorts[p] = Http PROVE Http \in Claims(p)
  <2>1. Routes(DesiredAt(serveHosts, p)) # {}
    BY <1>3 DEF PortInv, GroupInv
  <2> QED BY <2>1, NoRoute, ClaimsAre DEF Wanted
<1> QED BY <1>1, <1>2, <1>3, ClaimsAre
-----------------------------------------------------------------------------
(***************************************************************************)
(* Steps that leave the servers alone: the settings are stored and loaded. *)
(***************************************************************************)
LEMMA CalmKeeps ==
  ASSUME ServeInv, ServeTypeOK', UNCHANGED <<serverVars, serveHosts, serveGroups, servePorts>>,
         \A q \in ServeRequests : Reconciling(q)' <=> Reconciling(q),
         \A q \in ServeRequests : Reconciling(q) =>
           /\ serveOps'[q].config = serveOps[q].config /\ serveOps'[q].next = serveOps[q].next
           /\ serveOps'[q].bindings = serveOps[q].bindings
           /\ serveOps'[q].at # "next" <=> serveOps[q].at # "next",
         serveSettled' = 0 \/ UNCHANGED <<serveSettled, serveStored>>
  PROVE  ServeInv'
<1>0. UNCHANGED <<serveInstances, serveBinds>>
  BY DEF serverVars
<1>1. MutexInv' /\ PortInv' /\ BindInv' /\ GroupInv'
  BY <1>0 DEF ServeInv, MutexInv, PortInv, BindInv, GroupInv
<1>2. ASSUME NEW q \in ServeRequests PROVE Done(serveOps[q])' = Done(serveOps'[q])
  BY DEF Done
<1>3. ASSUME NEW q \in ServeRequests, Reconciling(q)
      PROVE  /\ Done(serveOps'[q]) = Done(serveOps[q])
             /\ PassOf(serveOps[q])'
  <2>1. Done(serveOps'[q]) = Done(serveOps[q])
    BY <1>3 DEF Done
  <2>2. PassOf(serveOps[q])
    BY <1>3 DEF ServeInv, PassInv
  <2>3. Publishes(serveOps[q].bindings, serveOps[q].config, Done(serveOps[q]))'
    BY <1>3, <2>1, <2>2 DEF PassOf, Publishes, Done
  <2> QED BY <1>0, <1>2, <1>3, <2>1, <2>2, <2>3 DEF PassOf
<1>4. PassInv'
  BY <1>3 DEF PassInv
<1>5. ASSUME serveSettled' = 0 PROVE AppliedInv'
  BY <1>5 DEF AppliedInv, Applied
<1>6. ASSUME UNCHANGED <<serveSettled, serveStored>> PROVE AppliedInv'
  <2>1. \A p \in ServePorts : Claims(p)' = Claims(p)
    BY <1>6 DEF Claims
  <2>2. Applied' <=> Applied
    BY <1>6 DEF Applied
  <2>3. ASSUME AppliedInv, Applied PROVE AppliedInv'
    <3>1. Kept' /\ Publishes(serveHosts.serve, serveStored, Servers)'
      BY <1>0, <1>6, <2>3 DEF AppliedInv, Kept, Publishes
    <3>2. ASSUME NEW q \in ServeRequests, Reconciling(q)' PROVE Listening(Done(serveOps[q]))'
      <4>1. Listening(Done(serveOps[q])) /\ Done(serveOps'[q]) = Done(serveOps[q])
        BY <1>3, <2>3, <3>2 DEF AppliedInv
      <4> QED BY <1>0, <1>2, <2>1, <4>1 DEF Listening
    <3>3. Restarting' = Restarting
      BY DEF Restarting
    <3>4. serveSettled = 2 => Listening(Servers \ Restarting)' /\ Routed'
      BY <1>0, <2>1, <2>3, <3>3 DEF AppliedInv, Listening, Routed
    <3> QED BY <1>6, <3>1, <3>2, <3>4 DEF AppliedInv
  <2>4. ASSUME ~Applied PROVE AppliedInv'
    BY <2>2, <2>4 DEF AppliedInv
  <2> QED BY <2>3, <2>4 DEF ServeInv
<1> QED BY <1>1, <1>4, <1>5, <1>6 DEF ServeInv

\* A request that does not reconcile, before the step or after it.
LEMMA RequestKeeps ==
  ASSUME ServeInv, NEW r \in ServeRequests, ~Reconciling(r), NEW rq \in ServeOp, rq.do # "reconcile",
         serveOps' = [serveOps EXCEPT ![r] = rq], serveStored' \in Configs, serveSettled' \in 0..2,
         UNCHANGED <<serverVars, serveHosts, serveGroups, servePorts, serveKeys>>,
         serveSettled' = 0 \/ UNCHANGED <<serveSettled, serveStored>>
  PROVE  ServeInv'
<1>1. serveOps \in [ServeRequests -> ServeOp]
  BY DEF ServeInv, ServeTypeOK
<1>2. ServeTypeOK'
  BY <1>1 DEF ServeInv, ServeTypeOK, serverVars
<1>3. \A q \in ServeRequests : (Reconciling(q)' <=> Reconciling(q))
                            /\ (Reconciling(q) => serveOps'[q] = serveOps[q])
  BY <1>1 DEF Reconciling
<1> QED BY <1>2, <1>3, CalmKeeps

LEMMA UpdateKeeps ==
  ASSUME ServeInv, NEW r \in ServeRequests, NEW config \in Configs, UpdateServeSettings(r, config)
  PROVE  ServeInv'
<1>1. /\ ~Reconciling(r) /\ serveOps' = [serveOps EXCEPT ![r] = [do |-> "load"]]
      /\ serveStored' = config
      /\ UNCHANGED <<serverVars, serveHosts, serveGroups, servePorts, serveKeys>>
      /\ serveSettled' = IF config = serveStored THEN serveSettled ELSE 0
  BY DEF UpdateServeSettings, Reconciling
<1>2. [do |-> "load"] \in ServeOp /\ serveSettled \in 0..2
  BY DEF ServeInv, ServeTypeOK, ServeOp
<1>3. serveSettled' \in 0..2 /\ (serveSettled' = 0 \/ UNCHANGED <<serveSettled, serveStored>>)
  BY <1>1, <1>2
<1> QED BY <1>1, <1>2, <1>3, RequestKeeps

LEMMA MountKeeps ==
  ASSUME ServeInv, NEW r \in ServeRequests, RawMountChanged(r)
  PROVE  ServeInv'
<1>1. /\ ~Reconciling(r) /\ serveOps' = [serveOps EXCEPT ![r] = [do |-> "load"]]
      /\ UNCHANGED <<serveStored, serverVars, serveHosts, serveGroups, servePorts, serveKeys,
                     serveSettled>>
  BY DEF RawMountChanged, Reconciling
<1>2. [do |-> "load"] \in ServeOp /\ serveSettled \in 0..2 /\ serveStored \in Configs
  BY DEF ServeInv, ServeTypeOK, ServeOp
<1> QED BY <1>1, <1>2, RequestKeeps

LEMMA LoadKeeps ==
  ASSUME ServeInv, NEW r \in ServeRequests, LoadServeSettings(r)
  PROVE  ServeInv'
<1>1. PICK rq \in {[do |-> "loaded", config |-> serveStored], ServeIdle} :
        serveOps' = [serveOps EXCEPT ![r] = rq]
  BY DEF LoadServeSettings
<1>2. /\ ~Reconciling(r)
      /\ UNCHANGED <<serveStored, serverVars, serveHosts, serveGroups, servePorts, serveKeys,
                     serveSettled>>
  BY DEF LoadServeSettings, Reconciling
<1>3. serveSettled \in 0..2 /\ serveStored \in Configs
  BY DEF ServeInv, ServeTypeOK
<1>4. rq \in ServeOp /\ rq.do # "reconcile"
  BY <1>1, <1>3 DEF ServeOp, ServeIdle
<1> QED BY <1>1, <1>2, <1>3, <1>4, RequestKeeps

\* The host key is stored: the pass itself goes on as it was.
LEMMA HostKeyKeeps ==
  ASSUME ServeInv, NEW r \in ServeRequests, HostKeyRead(r) \/ HostKeyWrite(r)
  PROVE  ServeInv'
<1>1. /\ Reconciling(r) /\ serveOps[r].at \in {"read", "write"} /\ serveOps[r].next \in Servers
      /\ UNCHANGED <<serverVars, serveHosts, serveGroups, servePorts, serveKeys>>
  BY DEF HostKeyRead, HostKeyWrite, AtTurn, Reconciling
<1>2. /\ serveOps \in [ServeRequests -> ServeOp] /\ serveOps[r] \in PassOp
      /\ serveOps[r].back \in Configs /\ serveOps[r].key \in 0..MaxHostKeys
      /\ serveStored \in Configs /\ serveSettled \in 0..2
  BY <1>1, OpShape DEF ServeInv, ServeTypeOK, Reconciling
<1>3. PICK at \in {"write", "listen"}, back \in Configs :
        serveOps' = [serveOps EXCEPT ![r] = [@ EXCEPT !.at = at, !.back = back]]
  <2>1. ASSUME HostKeyRead(r), serveOps' = [serveOps EXCEPT ![r].at = "write", ![r].back = serveStored]
        PROVE  \E at \in {"write", "listen"}, back \in Configs :
                 serveOps' = [serveOps EXCEPT ![r] = [@ EXCEPT !.at = at, !.back = back]]
    <3>1. serveOps' = [serveOps EXCEPT ![r] = [@ EXCEPT !.at = "write", !.back = serveStored]]
      BY <1>2, <2>1 DEF PassOp
    <3>2. "write" \in {"write", "listen"} /\ serveStored \in Configs
      BY <1>2
    <3> QED BY <3>1, <3>2, Zenon
  <2>2. ASSUME serveOps' = [serveOps EXCEPT ![r].at = "listen"]
        PROVE  \E at \in {"write", "listen"}, back \in Configs :
                 serveOps' = [serveOps EXCEPT ![r] = [@ EXCEPT !.at = at, !.back = back]]
    <3>1. serveOps' = [serveOps EXCEPT ![r] = [@ EXCEPT !.at = "listen", !.back = serveOps[r].back]]
      BY <1>2, <2>2 DEF PassOp
    <3>2. "listen" \in {"write", "listen"} /\ serveOps[r].back \in Configs
      BY <1>2
    <3> QED BY <3>1, <3>2, Zenon
  <2>3. \/ HostKeyRead(r) /\ serveOps' = [serveOps EXCEPT ![r].at = "write", ![r].back = serveStored]
        \/ serveOps' = [serveOps EXCEPT ![r].at = "listen"]
    BY DEF HostKeyRead, HostKeyWrite
  <2> QED BY <2>1, <2>2, <2>3, Zenon
<1>4. /\ serveOps' \in [ServeRequests -> ServeOp]
      /\ \A q \in ServeRequests \ {r} : serveOps'[q] = serveOps[q]
      /\ serveOps'[r].do = "reconcile" /\ serveOps'[r].config = serveOps[r].config
      /\ serveOps'[r].next = serveOps[r].next /\ serveOps'[r].bindings = serveOps[r].bindings
      /\ serveOps'[r].at # "next"
  <2>1. serveOps'[r] = [serveOps[r] EXCEPT !.at = at, !.back = back]
    BY <1>2, <1>3
  <2>2. serveOps'[r] \in PassOp
    BY <1>2, <2>1 DEF PassOp
  <2> QED BY <1>2, <1>3, <2>1, <2>2 DEF ServeOp, PassOp
<1>5. serveStored' \in Configs /\ serveSettled' \in 0..2
      /\ (serveSettled' = 0 \/ UNCHANGED <<serveSettled, serveStored>>)
  <2>1. CASE HostKeyRead(r)
    BY <1>2, <2>1 DEF HostKeyRead
  <2>2. CASE HostKeyWrite(r)
    <3> DEFINE id == serveOps[r].next
               config == serveOps[r].back
               entry == IF config[id].protocol = "none" THEN config[id]
                        ELSE WithKey(config[id], serveOps[r].key)
               new == [config EXCEPT ![id] = entry]
    <3>1. /\ serveStored' = serveStored \/ serveStored' = new
          /\ serveSettled' = IF serveStored' = serveStored THEN serveSettled ELSE 0
      BY <2>2 DEF HostKeyWrite
    <3>2. entry \in KeyedEntries \cup {NoEntry}
      <4>1. CASE config[id].protocol = "none"
        BY <1>1, <1>2, <4>1 DEF Configs
      <4>2. CASE config[id].protocol # "none"
        <5>1. config[id] \in KeyedEntries
          BY <1>1, <1>2, <4>2, EntryShape
        <5> QED BY <1>2, <4>2, <5>1, KeyedShape
      <4> QED BY <4>1, <4>2
    <3>3. new \in Configs
      BY <1>1, <1>2, <3>2 DEF Configs
    <3> QED BY <1>2, <3>1, <3>3
  <2> QED BY <2>1, <2>2
<1>6. ServeTypeOK'
  BY <1>1, <1>4, <1>5 DEF ServeInv, ServeTypeOK, serverVars
<1>7. \A q \in ServeRequests : (Reconciling(q)' <=> Reconciling(q))
  BY <1>1, <1>4 DEF Reconciling
<1>8. \A q \in ServeRequests : Reconciling(q) =>
        /\ serveOps'[q].config = serveOps[q].config /\ serveOps'[q].next = serveOps[q].next
        /\ serveOps'[q].bindings = serveOps[q].bindings
        /\ serveOps'[q].at # "next" <=> serveOps[q].at # "next"
  BY <1>1, <1>4
<1> QED BY <1>1, <1>5, <1>6, <1>7, <1>8, CalmKeeps
-----------------------------------------------------------------------------
(***************************************************************************)
(* SetBindings: the listener of a port is opened where the port is free,   *)
(* kept or closed, and takes no port from a server.                        *)
(***************************************************************************)
LEMMA GroupAfter ==
  ASSUME ServeTypeOK, PortInv, NEW hosts \in Hosts, SetBindings(hosts, servePorts), NEW p \in ServePorts
  PROVE  /\ serveHosts' = hosts
         /\ serveGroups' \in [ServePorts -> [open : BOOLEAN, tls : BOOLEAN, routes : SUBSET (Servers \cup {0})]]
         /\ serveGroups'[p].open <=> serveGroups'[p].routes # {}
         /\ serveGroups'[p].routes \in {{}, Routes(DesiredAt(hosts, p))}
         /\ servePorts[p] \in {0, Http} => serveGroups'[p].routes = Routes(DesiredAt(hosts, p))
         /\ serveGroups'[p].open => servePorts[p] \in {0, Http}
         /\ servePorts' = [q \in ServePorts |->
              IF serveGroups'[q].open THEN Http ELSE IF servePorts[q] = Http THEN 0 ELSE servePorts[q]]
<1>1. /\ serveHosts' = hosts
      /\ serveGroups' = [q \in ServePorts |-> ReconcileGroup(hosts, servePorts, q)]
      /\ servePorts' = [q \in ServePorts |->
           IF serveGroups'[q].open THEN Http ELSE IF servePorts[q] = Http THEN 0 ELSE servePorts[q]]
  BY DEF SetBindings
<1>2. \A q \in ServePorts : servePorts[q] = Http <=> serveGroups[q].open
  BY DEF PortInv
<1>3. \A q \in ServePorts : UseTLS(DesiredAt(hosts, q)) \in BOOLEAN
  BY DEF UseTLS
<1>4. ASSUME NEW q \in ServePorts
      PROVE  Routes(DesiredAt(hosts, q)) \in SUBSET (Servers \cup {0})
  BY RouteOf
<1> DEFINE next(q) == [open |-> TRUE, tls |-> UseTLS(DesiredAt(hosts, q)), routes |-> Routes(DesiredAt(hosts, q))]
<1>5. ASSUME NEW q \in ServePorts
      PROVE  /\ ReconcileGroup(hosts, servePorts, q) \in {next(q), NoGroup}
             /\ ReconcileGroup(hosts, servePorts, q) = next(q) =>
                  Routes(DesiredAt(hosts, q)) # {} /\ servePorts[q] \in {0, Http}
             /\ ReconcileGroup(hosts, servePorts, q) = NoGroup /\ servePorts[q] \in {0, Http} =>
                  Routes(DesiredAt(hosts, q)) = {}
  <2>1. next(q) # NoGroup
    BY DEF NoGroup
  <2>2. /\ next(q).routes = Routes(DesiredAt(hosts, q))
    OBVIOUS
  <2>3. CASE Routes(DesiredAt(hosts, q)) # {} /\ servePorts[q] \in {0, Http}
    BY <1>2, <2>1, <2>2, <2>3 DEF ReconcileGroup
  <2>4. CASE Routes(DesiredAt(hosts, q)) = {}
    BY <2>1, <2>2, <2>4 DEF ReconcileGroup
  <2>5. CASE servePorts[q] \notin {0, Http}
    BY <1>2, <2>1, <2>2, <2>5 DEF ReconcileGroup
  <2> QED BY <2>3, <2>4, <2>5
<1>6. /\ NoGroup \in [open : BOOLEAN, tls : BOOLEAN, routes : SUBSET (Servers \cup {0})]
      /\ NoGroup.open = FALSE /\ NoGroup.routes = {}
  BY DEF NoGroup
<1>7. \A q \in ServePorts :
        /\ next(q) \in [open : BOOLEAN, tls : BOOLEAN, routes : SUBSET (Servers \cup {0})]
        /\ next(q).open = TRUE /\ next(q).routes = Routes(DesiredAt(hosts, q))
  BY <1>3, <1>4
<1> HIDE DEF next
<1>8. \A q \in ServePorts : serveGroups'[q] = ReconcileGroup(hosts, servePorts, q)
  BY <1>1
<1>9. serveGroups' \in [ServePorts -> [open : BOOLEAN, tls : BOOLEAN, routes : SUBSET (Servers \cup {0})]]
  BY <1>1, <1>5, <1>6, <1>7
<1>10. CASE serveGroups'[p] = NoGroup
  BY <1>1, <1>5, <1>6, <1>8, <1>9, <1>10
<1>11. CASE serveGroups'[p] = next(p)
  BY <1>1, <1>5, <1>7, <1>8, <1>9, <1>11
<1> QED BY <1>5, <1>8, <1>10, <1>11

LEMMA BindingsKeep ==
  ASSUME ServeTypeOK, PortInv, NEW hosts \in Hosts, SetBindings(hosts, servePorts), UNCHANGED serverVars
  PROVE  /\ PortInv' /\ GroupInv' /\ serveHosts' \in Hosts
         /\ serveGroups' \in [ServePorts -> [open : BOOLEAN, tls : BOOLEAN, routes : SUBSET (Servers \cup {0})]]
         /\ servePorts' \in [ServePorts -> Servers \cup {0, Http, Other}]
         /\ \A p \in ServePorts : servePorts'[p] = Other <=> servePorts[p] = Other
<1>1. servePorts \in [ServePorts -> Servers \cup {0, Http, Other}]
  BY DEF ServeTypeOK
<1>2. ASSUME NEW p \in ServePorts
      PROVE  servePorts'[p] =
               IF serveGroups'[p].open THEN Http ELSE IF servePorts[p] = Http THEN 0 ELSE servePorts[p]
  BY GroupAfter, <1>2
<1>3. ASSUME NEW p \in ServePorts
      PROVE  /\ \A x \in Servers \cup {Other} : servePorts'[p] = x <=> servePorts[p] = x
             /\ servePorts'[p] = Http <=> serveGroups'[p].open
             /\ servePorts'[p] \in Servers \cup {0, Http, Other}
  <2>1. serveGroups'[p].open => servePorts[p] \in {0, Http}
    BY GroupAfter
  <2> QED BY <1>1, <1>2, <2>1, ServerIds
<1>4. PortInv'
  BY <1>3 DEF PortInv, serverVars
<1>5. ASSUME NEW p \in ServePorts
      PROVE  /\ serveGroups'[p].open <=> serveGroups'[p].routes # {}
             /\ serveGroups'[p].routes \in {{}, Routes(DesiredAt(serveHosts', p))}
  BY GroupAfter
<1>6. GroupInv'
  BY <1>5 DEF GroupInv
<1>7. /\ serveHosts' \in Hosts
      /\ servePorts' = [q \in ServePorts |->
           IF serveGroups'[q].open THEN Http ELSE IF servePorts[q] = Http THEN 0 ELSE servePorts[q]]
      /\ serveGroups' = [q \in ServePorts |-> ReconcileGroup(hosts, servePorts, q)]
  BY DEF SetBindings
<1>8. serveGroups' \in [ServePorts -> [open : BOOLEAN, tls : BOOLEAN, routes : SUBSET (Servers \cup {0})]]
  <2>1. CASE ServePorts = {}
    BY <1>7, <2>1
  <2>2. CASE ServePorts # {}
    BY <2>2, GroupAfter
  <2> QED BY <2>1, <2>2
<1> QED BY <1>3, <1>4, <1>6, <1>7, <1>8

LEMMA ListenersKeep ==
  ASSUME ServeInv, NEW list \in Lists, SaveListeners(list)
  PROVE  ServeInv'
<1> DEFINE hosts == [serveHosts EXCEPT !.registry = [n \in DOMAIN list |-> Binding(0, list[n])]]
<1>1. /\ SetBindings(hosts, servePorts)
      /\ serveSettled' = 0 /\ UNCHANGED <<serveStored, serverVars, serveOps, serveKeys>>
  BY DEF SaveListeners
<1>2. list \in Seq(Endpoints)
  <2>1. ASSUME list = <<>> PROVE list \in Seq(Endpoints)
    BY <2>1
  <2>2. ASSUME list \in {<<e>> : e \in Endpoints} PROVE list \in Seq(Endpoints)
    <3>1. PICK e \in Endpoints : list = <<e>>
      BY <2>2, Zenon
    <3> QED BY <3>1
  <2>3. ASSUME list \in Endpoints \X Endpoints PROVE list \in Seq(Endpoints)
    <3>1. PICK e \in Endpoints, f \in Endpoints : list = <<e, f>>
      BY <2>3
    <3> QED BY <3>1
  <2> QED BY <2>1, <2>2, <2>3, Zenon DEF Lists
<1>3. [n \in DOMAIN list |-> Binding(0, list[n])] \in Seq(ListenerBindings)
  <2>1. Len(list) \in Nat /\ DOMAIN list = 1..Len(list)
    BY <1>2
  <2>2. \A n \in 1..Len(list) : Binding(0, list[n]) \in ListenerBindings
    BY <1>2 DEF ListenerBindings
  <2>3. [n \in 1..Len(list) |-> Binding(0, list[n])] \in [1..Len(list) -> ListenerBindings]
    BY <2>2
  <2> QED BY <2>1, <2>3
<1>4. hosts \in Hosts
  BY <1>3 DEF ServeInv, ServeTypeOK, Hosts
<1> HIDE DEF hosts
<1>5. PortInv' /\ GroupInv' /\ ServeTypeOK'
  BY <1>1, <1>4, BindingsKeep DEF ServeInv, ServeTypeOK, Hosts, serverVars
<1>6. MutexInv' /\ PassInv' /\ BindInv'
  BY <1>1 DEF ServeInv, MutexInv, PassInv, BindInv, PassOf, Reconciling, Done, serverVars
<1>7. AppliedInv'
  BY <1>1 DEF AppliedInv, Applied
<1> QED BY <1>5, <1>6, <1>7 DEF ServeInv

LEMMA OtherKeeps ==
  ASSUME ServeInv, NEW p \in ServePorts, OtherProgram(p)
  PROVE  ServeInv'
<1>1. /\ servePorts[p] \in {0, Other}
      /\ servePorts' = [servePorts EXCEPT ![p] = IF @ = 0 THEN Other ELSE 0]
      /\ serveSettled' = 0
      /\ UNCHANGED <<serveStored, serveInstances, serveBinds, serveOps, serveHosts, serveGroups, serveKeys>>
  BY DEF OtherProgram, serverVars
<1>2. servePorts \in [ServePorts -> Servers \cup {0, Http, Other}]
  BY DEF ServeInv, ServeTypeOK
<1>3. \A q \in ServePorts : \A x \in Servers \cup {Http} : servePorts'[q] = x <=> servePorts[q] = x
  BY <1>1, <1>2, ServerIds
<1>4. ServeTypeOK'
  BY <1>1, <1>2 DEF ServeInv, ServeTypeOK
<1>5. PortInv' /\ GroupInv'
  BY <1>1, <1>3 DEF ServeInv, PortInv, GroupInv
<1>6. MutexInv' /\ PassInv' /\ BindInv'
  BY <1>1 DEF ServeInv, MutexInv, PassInv, BindInv, PassOf, Reconciling, Done
<1>7. AppliedInv'
  BY <1>1 DEF AppliedInv, Applied
<1> QED BY <1>4, <1>5, <1>6, <1>7 DEF ServeInv

\* The goroutine of a server opens its listener, or finds the port taken.
LEMMA ListenKeeps ==
  ASSUME ServeInv, NEW id \in Servers, ListenAndServe(id)
  PROVE  ServeInv'
<1> DEFINE port == serveInstances[id].port
<1>1. /\ serveBinds[id] = "pending"
      /\ servePorts' = [servePorts EXCEPT ![port] = IF @ = 0 THEN id ELSE @]
      /\ serveBinds' = [serveBinds EXCEPT ![id] = IF servePorts[port] = 0 THEN "no" ELSE "failed"]
      /\ UNCHANGED <<serveStored, serveInstances, serveOps, serveHosts, serveGroups, serveKeys,
                     serveSettled>>
  BY DEF ListenAndServe
<1>2. /\ servePorts \in [ServePorts -> Servers \cup {0, Http, Other}]
      /\ serveBinds \in [Servers -> {"no", "pending", "failed"}] /\ serveInstances \in Configs
  BY DEF ServeInv, ServeTypeOK
<1>3. serveInstances[id].protocol = "ftp" /\ port \in ServePorts
  BY <1>1, <1>2, EntryShape DEF ServeInv, BindInv
<1>4. /\ servePorts'[port] = IF servePorts[port] = 0 THEN id ELSE servePorts[port]
      /\ \A p \in ServePorts : p # port => servePorts'[p] = servePorts[p]
      /\ serveBinds'[id] = IF servePorts[port] = 0 THEN "no" ELSE "failed"
      /\ \A x \in Servers : x # id => serveBinds'[x] = serveBinds[x]
  BY <1>1, <1>2, <1>3
<1>5. \A p \in ServePorts : servePorts[p] # id
  BY <1>1 DEF ServeInv, PortInv
<1>6. ServeTypeOK'
  BY <1>1, <1>2, <1>3 DEF ServeInv, ServeTypeOK
<1>7. PortInv'
  <2>1. ASSUME NEW p \in ServePorts, NEW x \in Servers
        PROVE  servePorts'[p] = x <=>
                 Own(serveInstances[x]) /\ serveInstances[x].port = p /\ serveBinds'[x] = "no"
    <3>0. servePorts[p] = x <=>
            Own(serveInstances[x]) /\ serveInstances[x].port = p /\ serveBinds[x] = "no"
      BY DEF ServeInv, PortInv
    <3>1. CASE x # id
      <4>1. servePorts'[p] = x <=> servePorts[p] = x
        BY <1>4, <3>1, ServerIds
      <4> QED BY <1>4, <3>0, <3>1, <4>1
    <3>2. CASE x = id
      BY <1>3, <1>4, <1>5, <3>2 DEF Own
    <3> QED BY <3>1, <3>2
  <2>2. ASSUME NEW p \in ServePorts PROVE servePorts'[p] = Http <=> serveGroups'[p].open
    <3>1. servePorts'[p] = Http <=> servePorts[p] = Http
      BY <1>4, ServerIds
    <3>2. servePorts[p] = Http <=> serveGroups[p].open
      BY DEF ServeInv, PortInv
    <3> QED BY <1>1, <3>1, <3>2
  <2> QED BY <1>1, <2>1, <2>2 DEF PortInv
<1>8. BindInv'
  BY <1>1, <1>3, <1>4 DEF ServeInv, BindInv
<1>9. MutexInv' /\ GroupInv' /\ PassInv'
  BY <1>1 DEF ServeInv, MutexInv, GroupInv, PassInv, PassOf, Publishes, Reconciling, Done
<1>10. ASSUME Applied' PROVE AppliedInv'
  <2>1. Applied /\ AppliedInv
    BY <1>1, <1>10 DEF Applied, Reconciling, ServeInv
  <2>2. Kept' /\ Publishes(serveHosts.serve, serveStored, Servers)'
    BY <1>1, <2>1 DEF AppliedInv, Kept, Publishes
  <2>3. ASSUME NEW p \in ServePorts PROVE Claims(p)' = Claims(p)
    <3>1. servePorts'[p] = Other <=> servePorts[p] = Other
      BY <1>4, ServerIds
    <3> QED BY <1>1, <3>1, ClaimsSame DEF Wanted
  <2>4. ASSUME NEW ids \in SUBSET Servers, Listening(ids), NEW p \in ServePorts, NEW x \in ids,
               Claims(p) = {x}
        PROVE  servePorts'[p] = x \/ serveBinds'[x] # "no"
    <3>0. servePorts[p] = x \/ serveBinds[x] # "no"
      BY <2>4 DEF Listening
    <3>1. CASE x # id
      BY <1>4, <3>0, <3>1, ServerIds
    <3>2. CASE x = id
      <4>1. Own(serveStored[x]) /\ serveStored[x].port = p
        BY <2>4, ClaimsAre
      <4>2. serveStored[x].port = port
        BY <1>3, <2>1, <3>2, NoneShape DEF AppliedInv, Kept, Runs
      <4> QED BY <1>4, <3>2, <4>1, <4>2
    <3> QED BY <3>1, <3>2
  <2>5. ASSUME NEW r \in ServeRequests, Reconciling(r)' PROVE Listening(Done(serveOps[r]))'
    <3>1. /\ Listening(Done(serveOps[r])) /\ Done(serveOps[r])' = Done(serveOps[r])
          /\ Done(serveOps[r]) \in SUBSET Servers
      BY <1>1, <2>1, <2>5 DEF AppliedInv, Reconciling, Done
    <3> QED BY <2>3, <2>4, <3>1 DEF Listening
  <2>6. ASSUME serveSettled = 2 PROVE Listening(Servers \ Restarting)' /\ Routed'
    <3>1. Listening(Servers \ Restarting) /\ Routed /\ Restarting' = Restarting
      BY <1>1, <2>1, <2>6 DEF AppliedInv, Restarting, Reconciling
    <3>2. Listening(Servers \ Restarting)'
      BY <2>3, <2>4, <3>1 DEF Listening
    <3> QED BY <1>1, <2>3, <3>1, <3>2 DEF Routed
  <2> QED BY <1>1, <2>2, <2>5, <2>6 DEF AppliedInv
<1>11. AppliedInv'
  BY <1>10 DEF AppliedInv
<1> QED BY <1>6, <1>7, <1>8, <1>9, <1>11 DEF ServeInv
-----------------------------------------------------------------------------
(***************************************************************************)
(* A reconciliation begins: the servers that are no longer configured stop. *)
(***************************************************************************)
LEMMA ReconcileKeeps ==
  ASSUME ServeInv, NEW r \in ServeRequests, Reconcile(r)
  PROVE  ServeInv'
<1> DEFINE config == serveOps[r].config
           gone == {id \in Servers : config[id].protocol = "none"}
           new == [do |-> "reconcile", at |-> "next", config |-> config, next |-> 1, bindings |-> <<>>,
                   key |-> 0, back |-> config]
<1>1. /\ serveOps[r].do = "loaded" /\ \A q \in ServeRequests : ~Reconciling(q)
      /\ serveInstances' = [id \in Servers |-> IF id \in gone THEN NoEntry ELSE serveInstances[id]]
      /\ serveBinds' = [id \in Servers |-> IF id \in gone THEN "no" ELSE serveBinds[id]]
      /\ servePorts' = Released(servePorts, gone)
      /\ serveOps' = [serveOps EXCEPT ![r] = new]
      /\ UNCHANGED <<serveStored, serveHosts, serveGroups, serveSettled, serveKeys>>
  BY DEF Reconcile, Reconciling
<1>2. serveOps \in [ServeRequests -> ServeOp] /\ config \in Configs
  BY <1>1, OpShape DEF ServeInv, ServeTypeOK
<1>3. new \in PassOp
  <2>1. 0 \in 0..MaxHostKeys
    <3>1. MaxHostKeys \in Nat
      BY ServeAssumption, Zenon DEF ServeAssumption
    <3> QED BY <3>1
  <2> QED BY <1>2, <2>1 DEF PassOp
<1>4. /\ new \in ServeOp /\ new.do = "reconcile" /\ new.config = config /\ new.next = 1
      /\ new.bindings = <<>> /\ new.at = "next"
  BY <1>3 DEF ServeOp
<1> HIDE DEF config, new
<1>5. /\ serveOps' \in [ServeRequests -> ServeOp] /\ serveOps'[r] = new
      /\ \A q \in ServeRequests : Reconciling(q)' => q = r
  BY <1>1, <1>2, <1>4 DEF Reconciling
<1>6. /\ \A id \in Servers : id \in gone => serveInstances'[id] = NoEntry
      /\ \A id \in Servers : id \notin gone => serveInstances'[id] = serveInstances[id]
      /\ \A id \in Servers : serveBinds'[id] = IF id \in gone THEN "no" ELSE serveBinds[id]
  BY <1>1
<1>7. servePorts \in [ServePorts -> Servers \cup {0, Http, Other}]
  BY DEF ServeInv, ServeTypeOK
<1>8. \A p \in ServePorts : servePorts'[p] = IF servePorts[p] \in gone THEN 0 ELSE servePorts[p]
  BY <1>1 DEF Released
<1>9. /\ \A p \in ServePorts : \A id \in gone : servePorts'[p] # id
      /\ \A p \in ServePorts : \A x \in (Servers \ gone) \cup {Http, Other} :
           servePorts'[p] = x <=> servePorts[p] = x
  BY <1>8, ServerIds
<1>10. ServeTypeOK'
  <2>1. servePorts' \in [ServePorts -> Servers \cup {0, Http, Other}]
    BY <1>1, <1>7 DEF Released
  <2>2. serveInstances' \in Configs
    BY <1>1 DEF ServeInv, ServeTypeOK, Configs
  <2>3. serveBinds' \in [Servers -> {"no", "pending", "failed"}]
    BY <1>1 DEF ServeInv, ServeTypeOK
  <2> QED BY <1>1, <1>5, <2>1, <2>2, <2>3 DEF ServeInv, ServeTypeOK
<1>11. MutexInv'
  BY <1>5 DEF MutexInv
<1>12. PortInv'
  <2>1. ASSUME NEW p \in ServePorts, NEW id \in Servers
        PROVE  servePorts'[p] = id <=>
                 Own(serveInstances'[id]) /\ serveInstances'[id].port = p /\ serveBinds'[id] = "no"
    <3>1. CASE id \in gone
      BY <1>6, <1>9, <3>1, NoneShape
    <3>2. CASE id \notin gone
      BY <1>6, <1>9, <3>2 DEF ServeInv, PortInv
    <3> QED BY <3>1, <3>2
  <2>2. \A p \in ServePorts : servePorts'[p] = Http <=> serveGroups'[p].open
    <3>1. \A p \in ServePorts : servePorts'[p] = Http <=> servePorts[p] = Http
      BY <1>9
    <3>2. \A p \in ServePorts : servePorts[p] = Http <=> serveGroups[p].open
      BY DEF ServeInv, PortInv
    <3> QED BY <1>1, <3>1, <3>2
  <2> QED BY <2>1, <2>2 DEF PortInv
<1>13. GroupInv' /\ BindInv'
  BY <1>1, <1>6 DEF ServeInv, GroupInv, BindInv
<1>14. Done(new) = {}
  BY <1>4, ServerIds DEF Done
<1>15. PassInv'
  <2>1. Publishes(new.bindings, new.config, Done(new))
    BY <1>4, <1>14 DEF Publishes
  <2>2. PassOf(serveOps[r])'
    BY <1>4, <1>5, <1>6, <1>14, <2>1 DEF PassOf, Done, Publishes
  <2> QED BY <1>5, <2>2 DEF PassInv
<1>16. ASSUME Applied' PROVE AppliedInv'
  <2>1. Applied /\ config = serveStored
    BY <1>1, <1>4, <1>5, <1>16 DEF Applied, Reconciling
  <2>2. AppliedInv
    BY DEF ServeInv
  <2>3. Kept'
    BY <1>1, <1>6, <2>1, <2>2, NoneShape DEF AppliedInv, Kept
  <2>4. Publishes(serveHosts.serve, serveStored, Servers)'
    BY <1>1, <2>1, <2>2 DEF AppliedInv, Publishes
  <2>5. ASSUME NEW p \in ServePorts PROVE Claims(p)' = Claims(p)
    BY <1>1, <1>9, ClaimsSame DEF Wanted
  <2>6. Listening(Done(serveOps[r]))'
    BY <1>5, <1>14 DEF Listening, Done
  <2>7. ASSUME serveSettled = 2 PROVE Listening(Servers \ Restarting)' /\ Routed'
    <3>0. Restarting = {}
      BY <1>1 DEF Restarting
    <3>1. Listening(Servers) /\ Routed
      BY <2>1, <2>2, <2>7, <3>0 DEF AppliedInv, Listening
    <3>2. ASSUME NEW p \in ServePorts, NEW id \in Servers, Claims(p) = {id}
          PROVE  servePorts'[p] = id \/ serveBinds'[id] # "no"
      <4>1. id \notin gone
        BY <2>1, <3>2, ClaimsAre DEF Own
      <4> QED BY <1>6, <1>9, <3>1, <3>2, <4>1 DEF Listening
    <3> QED BY <1>1, <2>5, <3>1, <3>2 DEF Listening, Routed
  <2> QED BY <1>1, <1>5, <2>3, <2>4, <2>6, <2>7 DEF AppliedInv
<1>17. AppliedInv'
  BY <1>16 DEF AppliedInv
<1> QED BY <1>10, <1>11, <1>12, <1>13, <1>15, <1>17 DEF ServeInv
-----------------------------------------------------------------------------
(***************************************************************************)
(* A server's turn.  Whatever becomes of it, the servers on other ports,   *)
(* the virtual hosts and other programs keep theirs; and a server that     *)
(* alone claims its port has it afterwards, or has passed the check of it. *)
(***************************************************************************)
TurnPorts(id, config, inst, bind) ==
  /\ inst \in KeyedEntries \cup {NoEntry} /\ Runs(inst, config[id])
  /\ bind \in {"no", "pending", "failed"} /\ (bind # "no" => inst.protocol = "ftp")
  /\ serveInstances' = [serveInstances EXCEPT ![id] = inst]
  /\ serveBinds' = [serveBinds EXCEPT ![id] = bind]
  /\ servePorts' \in [ServePorts -> Servers \cup {0, Http, Other}]
  /\ \A p \in ServePorts : \A x \in (Servers \ {id}) \cup {Http, Other} :
       servePorts'[p] = x <=> servePorts[p] = x
  /\ \A p \in ServePorts : servePorts'[p] = id <=> Own(inst) /\ inst.port = p /\ bind = "no"

TurnOf(r, id, config, inst, bind, list) ==
  /\ Reconciling(r) /\ id = serveOps[r].next /\ config = serveOps[r].config
  /\ serveOps' \in [ServeRequests -> ServeOp]
  /\ \A q \in ServeRequests \ {r} : serveOps'[q] = serveOps[q]
  /\ serveOps'[r].do = "reconcile" /\ serveOps'[r].config = config /\ serveOps'[r].at = "next"
  /\ serveOps'[r].next = id + 1 /\ serveOps'[r].bindings = list
  /\ Publishes(list, config, Done(serveOps[r]) \cup {id})
  /\ TurnPorts(id, config, inst, bind)
  /\ \A p \in ServePorts :
       Kept /\ serveStored = config /\ Claims(p) = {id} => servePorts'[p] = id \/ bind # "no"
  /\ UNCHANGED <<serveStored, serveHosts, serveGroups, serveSettled, serveKeys>>

LEMMA TurnKeeps ==
  ASSUME ServeInv, NEW r \in ServeRequests, NEW id \in Servers, NEW config \in Configs, NEW inst,
         NEW bind, NEW list, TurnOf(r, id, config, inst, bind, list)
  PROVE  ServeInv'
<1> USE DEF TurnOf, TurnPorts
<1>1. \A q \in ServeRequests : Reconciling(q)' <=> q = r
  BY DEF Reconciling, ServeInv, MutexInv
<1>2. /\ serveInstances \in Configs /\ serveInstances'[id] = inst
      /\ \A x \in Servers \ {id} : serveInstances'[x] = serveInstances[x]
      /\ serveBinds \in [Servers -> {"no", "pending", "failed"}] /\ serveBinds'[id] = bind
      /\ \A x \in Servers \ {id} : serveBinds'[x] = serveBinds[x]
  BY DEF ServeInv, ServeTypeOK, Configs
<1>3. ServeTypeOK'
  <2>1. serveInstances' \in Configs
    BY <1>2 DEF Configs
  <2>2. serveBinds' \in [Servers -> {"no", "pending", "failed"}]
    BY <1>2
  <2> QED BY <2>1, <2>2 DEF ServeInv, ServeTypeOK
<1>4. MutexInv'
  BY <1>1 DEF MutexInv
<1>5. PortInv'
  <2>1. ASSUME NEW p \in ServePorts, NEW x \in Servers
        PROVE  servePorts'[p] = x <=>
                 Own(serveInstances'[x]) /\ serveInstances'[x].port = p /\ serveBinds'[x] = "no"
    <3>1. CASE x = id
      BY <1>2, <3>1
    <3>2. CASE x # id
      <4>1. servePorts'[p] = x <=> servePorts[p] = x
        BY <3>2
      <4>2. servePorts[p] = x <=>
              Own(serveInstances[x]) /\ serveInstances[x].port = p /\ serveBinds[x] = "no"
        BY DEF ServeInv, PortInv
      <4> QED BY <1>2, <3>2, <4>1, <4>2
    <3> QED BY <3>1, <3>2
  <2>2. ASSUME NEW p \in ServePorts PROVE servePorts'[p] = Http <=> serveGroups'[p].open
    <3>1. servePorts'[p] = Http <=> servePorts[p] = Http
      OBVIOUS
    <3>2. servePorts[p] = Http <=> serveGroups[p].open
      BY DEF ServeInv, PortInv
    <3> QED BY <3>1, <3>2
  <2> QED BY <2>1, <2>2 DEF PortInv
<1>6. GroupInv' /\ BindInv'
  BY <1>2 DEF ServeInv, GroupInv, BindInv
<1>7. Done(serveOps'[r]) = Done(serveOps[r]) \cup {id}
  <2>1. \A x \in Servers : x < id + 1 <=> x < id \/ x = id
    BY ServerIds
  <2> QED BY <2>1 DEF Done
<1>8. PassInv'
  <2>1. PassOf(serveOps[r])
    BY DEF ServeInv, PassInv
  <2>2. \A x \in Done(serveOps'[r]) : Runs(serveInstances'[x], config[x])
    <3>1. \A x \in Done(serveOps[r]) : Runs(serveInstances[x], config[x]) /\ x \in Servers
      BY <2>1 DEF PassOf, Done
    <3> QED BY <1>2, <1>7, <3>1
  <2>3. \A x \in Servers : config[x].protocol = "none" => serveInstances'[x] = NoEntry
    <3>1. \A x \in Servers : config[x].protocol = "none" => serveInstances[x] = NoEntry
      BY <2>1 DEF PassOf
    <3>2. config[id].protocol = "none" => inst = NoEntry
      BY KeyedShape DEF Runs
    <3> QED BY <1>2, <3>1, <3>2
  <2>4. Publishes(serveOps'[r].bindings, config, Done(serveOps'[r]))
    BY <1>7
  <2>5. PassOf(serveOps[r])'
    BY <2>2, <2>3, <2>4 DEF PassOf, Done, Publishes
  <2> QED BY <1>1, <2>5 DEF PassInv
<1>9. ASSUME Applied' PROVE AppliedInv'
  <2>1. config = serveStored /\ serveSettled > 0
    BY <1>1, <1>9 DEF Applied
  <2>2. Applied
    BY <2>1 DEF Applied, ServeInv, MutexInv
  <2>3. AppliedInv /\ Kept
    BY <2>2 DEF AppliedInv, ServeInv
  <2>4. Kept'
    BY <1>2, <2>1, <2>3 DEF Kept
  <2>5. Publishes(serveHosts.serve, serveStored, Servers)'
    BY <2>2, <2>3 DEF AppliedInv, Publishes
  <2>6. ASSUME NEW p \in ServePorts PROVE Claims(p)' = Claims(p)
    <3>1. servePorts'[p] = Other <=> servePorts[p] = Other
      OBVIOUS
    <3>2. Wanted(p)' <=> Wanted(p)
      BY DEF Wanted
    <3> QED BY <3>1, <3>2, ClaimsSame
  <2>7. ASSUME NEW p \in ServePorts, NEW x \in Servers, Claims(p) = {x},
               x # id => servePorts[p] = x \/ serveBinds[x] # "no"
        PROVE  servePorts'[p] = x \/ serveBinds'[x] # "no"
    <3>1. CASE x = id
      BY <1>2, <2>1, <2>3, <2>7, <3>1
    <3>2. CASE x # id
      BY <1>2, <2>7, <3>2
    <3> QED BY <3>1, <3>2
  <2>8. Listening(Done(serveOps[r]))'
    <3>1. Listening(Done(serveOps[r]))
      BY <2>2, <2>3 DEF AppliedInv
    <3>2. ASSUME NEW p \in ServePorts, NEW x \in Done(serveOps[r]) \cup {id}, Claims(p) = {x}
          PROVE  servePorts'[p] = x \/ serveBinds'[x] # "no"
      BY <2>7, <3>1, <3>2 DEF Listening, Done
    <3>3. ASSUME NEW p \in ServePorts, NEW x \in Done(serveOps'[r]), Claims(p)' = {x}
          PROVE  servePorts'[p] = x \/ serveBinds'[x] # "no"
      BY <1>7, <2>6, <3>2, <3>3
    <3> QED BY <3>3 DEF Listening
  <2>9. ASSUME serveSettled = 2 PROVE Listening(Servers \ Restarting)' /\ Routed'
    <3>1. Listening(Servers \ {id}) /\ Routed
      <4>1. Restarting \subseteq {id}
        BY DEF Restarting, ServeInv, MutexInv
      <4> QED BY <2>2, <2>3, <2>9, <4>1 DEF AppliedInv, Listening
    <3>2. Listening(Servers)'
      BY <2>6, <2>7, <3>1 DEF Listening
    <3>3. Listening(Servers \ Restarting)'
      BY <3>2 DEF Listening
    <3> QED BY <2>6, <3>1, <3>3 DEF Routed
  <2> QED BY <1>1, <2>4, <2>5, <2>8, <2>9 DEF AppliedInv
<1>10. AppliedInv'
  BY <1>9 DEF AppliedInv
<1> QED BY <1>3, <1>4, <1>5, <1>6, <1>8, <1>10 DEF ServeInv

\* What a request is after a turn.
LEMMA TurnOps ==
  ASSUME ServeTypeOK, NEW r \in ServeRequests, Reconciling(r), NEW more \in Seq(ServeBindings),
         NextTurn(r, more)
  PROVE  /\ serveOps' \in [ServeRequests -> ServeOp]
         /\ \A q \in ServeRequests \ {r} : serveOps'[q] = serveOps[q]
         /\ serveOps'[r].do = "reconcile" /\ serveOps'[r].config = serveOps[r].config
         /\ serveOps'[r].at = "next" /\ serveOps'[r].next = serveOps[r].next + 1
         /\ serveOps'[r].bindings = serveOps[r].bindings \o more
<1>1. /\ serveOps \in [ServeRequests -> ServeOp] /\ serveOps[r] \in PassOp
      /\ serveOps[r].config \in Configs /\ serveOps[r].next \in Nat
      /\ serveOps[r].bindings \in Seq(ServeBindings)
  BY OpShape DEF ServeTypeOK, Reconciling
<1>2. 0 \in 0..MaxHostKeys
  <2>1. MaxHostKeys \in Nat
    BY ServeAssumption, Zenon DEF ServeAssumption
  <2> QED BY <2>1
<1> DEFINE new == [serveOps[r] EXCEPT !.next = @ + 1, !.at = "next", !.key = 0,
                                      !.back = serveOps[r].config, !.bindings = @ \o more]
<1>3. serveOps' = [serveOps EXCEPT ![r] = new]
  BY <1>1 DEF NextTurn, PassOp
<1>4. PICK both \in Seq(ServeBindings) : both = serveOps[r].bindings \o more
  <2>1. PICK s \in Seq(ServeBindings) : s = serveOps[r].bindings
    BY <1>1
  <2>2. s \o more \in Seq(ServeBindings)
    OBVIOUS
  <2> QED BY <2>1, <2>2, Zenon
<1>5. /\ new \in PassOp /\ new.do = "reconcile" /\ new.config = serveOps[r].config
      /\ new.at = "next" /\ new.next = serveOps[r].next + 1
      /\ new.bindings = serveOps[r].bindings \o more
  <2>1. new = [serveOps[r] EXCEPT !.next = @ + 1, !.at = "next", !.key = 0,
                                  !.back = serveOps[r].config, !.bindings = both]
    BY <1>1, <1>4 DEF PassOp
  <2> HIDE DEF new
  <2>2. new = [do |-> "reconcile", at |-> "next", config |-> serveOps[r].config,
               next |-> serveOps[r].next + 1, bindings |-> both, key |-> 0,
               back |-> serveOps[r].config]
    BY <1>1, <2>1 DEF PassOp
  <2>3. new \in PassOp
    BY <1>1, <1>2, <2>2 DEF PassOp
  <2> QED BY <1>4, <2>2, <2>3
<1> HIDE DEF new
<1> QED BY <1>1, <1>3, <1>5 DEF ServeOp

\* The ports without a server's own.
LEMMA ReleasedPorts ==
  ASSUME ServeTypeOK, NEW id \in Servers
  PROVE  /\ Released(servePorts, {id}) \in [ServePorts -> Servers \cup {0, Http, Other}]
         /\ \A p \in ServePorts : Released(servePorts, {id})[p] # id
         /\ \A p \in ServePorts : \A x \in (Servers \ {id}) \cup {Http, Other} :
              Released(servePorts, {id})[p] = x <=> servePorts[p] = x
         /\ \A p \in ServePorts : Released(servePorts, {id})[p] = 0 <=> servePorts[p] \in {0, id}
<1>1. servePorts \in [ServePorts -> Servers \cup {0, Http, Other}]
  BY DEF ServeTypeOK
<1>2. /\ Released(servePorts, {id}) \in [ServePorts -> Servers \cup {0, Http, Other}]
      /\ \A p \in ServePorts : Released(servePorts, {id})[p] = IF servePorts[p] = id THEN 0 ELSE servePorts[p]
  BY <1>1 DEF Released
<1> QED BY <1>2, ServerIds

\* A server that is kept.
LEMMA KeptTurn ==
  ASSUME ServeTypeOK, PortInv, BindInv, GroupInv, NEW r \in ServeRequests, NEW id \in Servers,
         NEW config \in Configs, config[id] = EntryOf(r), KeepInstance(r, id)
  PROVE  /\ NextTurn(r, <<>>) /\ TurnPorts(id, config, config[id], serveBinds[id])
         /\ config[id].protocol # "http"
         /\ \A p \in ServePorts :
              Kept /\ serveStored = config /\ Claims(p) = {id} =>
                servePorts'[p] = id \/ serveBinds[id] # "no"
<1>1. /\ config[id].protocol \in {"ftp", "sftp", "none"} /\ serveInstances[id] = config[id]
      /\ NextTurn(r, <<>>) /\ UNCHANGED <<serveInstances, serveBinds, servePorts>>
  BY DEF KeepInstance, serverVars
<1>2. /\ serveInstances \in [Servers -> KeyedEntries \cup {NoEntry}]
      /\ serveBinds \in [Servers -> {"no", "pending", "failed"}]
      /\ servePorts \in [ServePorts -> Servers \cup {0, Http, Other}]
      /\ config[id] \in KeyedEntries \cup {NoEntry}
  BY DEF ServeTypeOK, Configs
<1>3. /\ serveInstances' = [serveInstances EXCEPT ![id] = config[id]]
      /\ serveBinds' = [serveBinds EXCEPT ![id] = serveBinds[id]]
  BY <1>1, <1>2
<1>4. \A p \in ServePorts :
        servePorts'[p] = id <=> Own(config[id]) /\ config[id].port = p /\ serveBinds[id] = "no"
  BY <1>1 DEF PortInv
<1>5. TurnPorts(id, config, config[id], serveBinds[id])
  BY <1>1, <1>2, <1>3, <1>4 DEF TurnPorts, Runs, BindInv
<1>6. ASSUME NEW p \in ServePorts, serveStored = config, Claims(p) = {id}, serveBinds[id] = "no"
      PROVE  servePorts'[p] = id
  BY <1>4, <1>6, ClaimsAre
<1> QED BY <1>1, <1>5, <1>6

\* An FTP or TFTP server is started, or its port is taken.
LEMMA FTPTurn ==
  ASSUME ServeTypeOK, PortInv, GroupInv, NEW r \in ServeRequests, NEW id \in Servers,
         NEW config \in Configs, config[id] = EntryOf(r), StartFTP(r, id)
  PROVE  /\ NextTurn(r, <<>>) /\ config[id].protocol # "http"
         /\ \E inst \in KeyedEntries \cup {NoEntry}, bind \in {"no", "pending"} :
              /\ TurnPorts(id, config, inst, bind)
              /\ \A p \in ServePorts :
                   Kept /\ serveStored = config /\ Claims(p) = {id} => servePorts'[p] = id \/ bind # "no"
<1> DEFINE entry == config[id]
           ports == Released(servePorts, {id})
           bind == IF ports[entry.port] = 0 THEN "pending" ELSE "no"
           inst == Started(ports, id, entry)
<1>1. /\ entry.protocol = "ftp" /\ NextTurn(r, <<>>) /\ servePorts' = ports
      /\ serveInstances' = [serveInstances EXCEPT ![id] = inst]
      /\ serveBinds' = [serveBinds EXCEPT ![id] = bind]
  BY DEF StartFTP
<1>2. entry \in KeyedEntries
  BY <1>1, EntryShape
<1>3. /\ ports \in [ServePorts -> Servers \cup {0, Http, Other}]
      /\ \A p \in ServePorts : ports[p] # id
      /\ \A p \in ServePorts : \A x \in (Servers \ {id}) \cup {Http, Other} :
           ports[p] = x <=> servePorts[p] = x
      /\ \A p \in ServePorts : ports[p] = 0 <=> servePorts[p] \in {0, id}
  BY ReleasedPorts
<1>4. /\ bind \in {"no", "pending"} /\ inst \in {entry, NoEntry} /\ Runs(inst, entry)
      /\ bind # "no" => inst = entry
      /\ bind = "no" => inst = NoEntry /\ ports[entry.port] # 0
  BY NoneShape DEF Started, Runs
<1> HIDE DEF ports, inst, bind
<1>5. \A p \in ServePorts : ~(Own(inst) /\ inst.port = p /\ bind = "no")
  BY <1>4, NoneShape
<1>6. TurnPorts(id, config, inst, bind)
  BY <1>1, <1>2, <1>3, <1>4, <1>5 DEF TurnPorts
<1>7. ASSUME NEW p \in ServePorts, Kept, serveStored = config, Claims(p) = {id} PROVE bind # "no"
  <2>1. entry.port = p /\ servePorts[p] \in {0, id}
    BY <1>7, ClaimsAre, HeldByClaim
  <2> QED BY <1>3, <1>4, <2>1
<1> QED BY <1>1, <1>2, <1>4, <1>6, <1>7

\* An SFTP server opens its listener, or its port is taken.
LEMMA SFTPTurn ==
  ASSUME ServeTypeOK, PortInv, BindInv, GroupInv, NEW r \in ServeRequests, NEW id \in Servers,
         NEW config \in Configs, config[id] = EntryOf(r), ListenSFTP(r, id),
         serveInstances[id] = NoEntry, config[id].protocol = "sftp", serveOps[r].key \in 0..MaxHostKeys
  PROVE  /\ NextTurn(r, <<>>)
         /\ \E inst \in KeyedEntries \cup {NoEntry} :
              /\ TurnPorts(id, config, inst, "no")
              /\ \A p \in ServePorts :
                   Kept /\ serveStored = config /\ Claims(p) = {id} => servePorts'[p] = id
<1> DEFINE entry == WithKey(config[id], serveOps[r].key)
           inst == Started(servePorts, id, entry)
<1>1. /\ NextTurn(r, <<>>) /\ UNCHANGED serveBinds
      /\ serveInstances' = [serveInstances EXCEPT ![id] = inst]
      /\ servePorts' = [servePorts EXCEPT ![entry.port] = IF @ = 0 THEN id ELSE @]
  BY DEF ListenSFTP
<1>2. config[id] \in KeyedEntries
  BY EntryShape
<1>3. /\ entry \in KeyedEntries /\ entry.protocol = "sftp" /\ entry.port = config[id].port
      /\ entry.port \in ServePorts
  BY <1>2, KeyedShape
<1> HIDE DEF entry
<1>4. /\ servePorts \in [ServePorts -> Servers \cup {0, Http, Other}]
      /\ serveBinds \in [Servers -> {"no", "pending", "failed"}]
      /\ serveBinds[id] = "no" /\ \A p \in ServePorts : servePorts[p] # id
  BY NoneShape DEF ServeTypeOK, BindInv, PortInv
<1>5. serveBinds' = [serveBinds EXCEPT ![id] = "no"]
  BY <1>1, <1>4
<1>6. ASSUME NEW p \in ServePorts, Kept, serveStored = config, Claims(p) = {id}
      PROVE  entry.port = p /\ servePorts[p] = 0
  BY <1>3, <1>4, <1>6, ClaimsAre, HeldByClaim
<1>7. /\ servePorts' \in [ServePorts -> Servers \cup {0, Http, Other}]
      /\ servePorts'[entry.port] = IF servePorts[entry.port] = 0 THEN id ELSE servePorts[entry.port]
      /\ \A p \in ServePorts : p # entry.port => servePorts'[p] = servePorts[p]
  BY <1>1, <1>3, <1>4
<1>8. \A p \in ServePorts : \A x \in (Servers \ {id}) \cup {Http, Other} :
        servePorts'[p] = x <=> servePorts[p] = x
  BY <1>4, <1>7, ServerIds
<1>9. inst = IF servePorts[entry.port] = 0 THEN entry ELSE NoEntry
  BY DEF Started
<1> HIDE DEF inst
<1>10. \A p \in ServePorts : servePorts'[p] = id <=> Own(inst) /\ inst.port = p
  BY <1>3, <1>4, <1>7, <1>9, NoneShape DEF Own
<1>11. inst \in KeyedEntries \cup {NoEntry} /\ Runs(inst, config[id])
  BY <1>3, <1>9 DEF Runs
<1>12. TurnPorts(id, config, inst, "no")
  BY <1>1, <1>5, <1>7, <1>8, <1>10, <1>11 DEF TurnPorts
<1> QED BY <1>1, <1>6, <1>7, <1>11, <1>12

\* An SFTP server is stopped, and its turn goes on.
LEMMA StopKeeps ==
  ASSUME ServeInv, NEW r \in ServeRequests, NEW id \in Servers, AtTurn(r, "next"),
         id = serveOps[r].next, StartSFTP(r, id),
         UNCHANGED <<serveStored, serveHosts, serveGroups, serveSettled>>
  PROVE  ServeInv'
<1> DEFINE rq == serveOps[r]
           config == rq.config
<1>1. /\ Reconciling(r) /\ rq \in PassOp /\ config \in Configs /\ rq.at = "next"
      /\ serveOps \in [ServeRequests -> ServeOp]
      /\ serveInstances \in Configs /\ serveBinds \in [Servers -> {"no", "pending", "failed"}]
      /\ serveKeys \in 0..MaxHostKeys /\ MaxHostKeys \in Nat
  <2>1. MaxHostKeys \in Nat
    BY ServeAssumption, Zenon DEF ServeAssumption
  <2> QED BY <2>1, OpShape DEF AtTurn, Reconciling, ServeInv, ServeTypeOK
<1>2. /\ config[id].protocol = "sftp"
      /\ servePorts' = Released(servePorts, {id}) /\ serveBinds' = [serveBinds EXCEPT ![id] = "no"]
      /\ serveInstances' = [serveInstances EXCEPT ![id] = NoEntry]
  BY DEF StartSFTP, Stops, EntryOf
<1>3. PICK at \in {"listen", "read"}, key \in 0..MaxHostKeys :
        /\ serveOps' = [serveOps EXCEPT ![r].at = at, ![r].key = key]
        /\ serveKeys' \in 0..MaxHostKeys
  <2>1. config[id].key \in 0..MaxHostKeys
    BY <1>1, <1>2, EntryShape, KeyedShape
  <2>2. CASE serveOps' = [serveOps EXCEPT ![r].at = "listen", ![r].key = config[id].key] /\ UNCHANGED serveKeys
    <3>1. "listen" \in {"listen", "read"} /\ config[id].key \in 0..MaxHostKeys /\ serveKeys' \in 0..MaxHostKeys
      BY <1>1, <2>1, <2>2
    <3> QED BY <2>2, <3>1, Zenon
  <2>3. CASE /\ serveKeys < MaxHostKeys /\ serveKeys' = serveKeys + 1
             /\ serveOps' = [serveOps EXCEPT ![r].at = "read", ![r].key = serveKeys + 1]
    <3>1. serveKeys + 1 \in 0..MaxHostKeys
      BY <1>1, <2>3
    <3>2. "read" \in {"listen", "read"} /\ serveKeys' \in 0..MaxHostKeys
      BY <2>3, <3>1
    <3> QED BY <2>3, <3>1, <3>2, Zenon
  <2> QED BY <2>2, <2>3 DEF StartSFTP, EntryOf
<1>4. /\ serveOps' \in [ServeRequests -> ServeOp]
      /\ \A q \in ServeRequests \ {r} : serveOps'[q] = serveOps[q]
      /\ serveOps'[r].do = "reconcile" /\ serveOps'[r].config = config
      /\ serveOps'[r].next = id /\ serveOps'[r].bindings = rq.bindings
      /\ serveOps'[r].at # "next"
  <2> DEFINE new == [rq EXCEPT !.at = at, !.key = key]
  <2>1. serveOps' = [serveOps EXCEPT ![r] = new]
    BY <1>1, <1>3 DEF PassOp
  <2>2. /\ new \in PassOp /\ new.do = "reconcile" /\ new.config = config /\ new.next = id
        /\ new.bindings = rq.bindings /\ new.at # "next"
    BY <1>1, <1>3 DEF PassOp
  <2> HIDE DEF new
  <2> QED BY <1>1, <2>1, <2>2 DEF ServeOp
<1>5. /\ serveInstances'[id] = NoEntry /\ serveBinds'[id] = "no"
      /\ \A x \in Servers \ {id} :
           serveInstances'[x] = serveInstances[x] /\ serveBinds'[x] = serveBinds[x]
  BY <1>1, <1>2 DEF Configs
<1>6. /\ servePorts' \in [ServePorts -> Servers \cup {0, Http, Other}]
      /\ \A p \in ServePorts : servePorts'[p] # id
      /\ \A p \in ServePorts : \A x \in (Servers \ {id}) \cup {Http, Other} :
           servePorts'[p] = x <=> servePorts[p] = x
  BY <1>2, ReleasedPorts DEF ServeInv
<1>7. \A q \in ServeRequests : Reconciling(q)' <=> q = r
  BY <1>1, <1>4 DEF Reconciling, ServeInv, MutexInv
<1>8. ServeTypeOK'
  <2>1. serveInstances' \in Configs /\ serveBinds' \in [Servers -> {"no", "pending", "failed"}]
    BY <1>1, <1>2 DEF Configs
  <2> QED BY <1>3, <1>4, <1>6, <2>1 DEF ServeInv, ServeTypeOK
<1>9. MutexInv' /\ GroupInv' /\ BindInv'
  BY <1>5, <1>7 DEF MutexInv, ServeInv, GroupInv, BindInv
<1>10. PortInv'
  <2>1. ASSUME NEW p \in ServePorts, NEW x \in Servers
        PROVE  servePorts'[p] = x <=>
                 Own(serveInstances'[x]) /\ serveInstances'[x].port = p /\ serveBinds'[x] = "no"
    <3>1. CASE x = id
      BY <1>5, <1>6, <3>1, NoneShape
    <3>2. CASE x # id
      BY <1>5, <1>6, <3>2 DEF ServeInv, PortInv
    <3> QED BY <3>1, <3>2
  <2>2. ASSUME NEW p \in ServePorts PROVE servePorts'[p] = Http <=> serveGroups'[p].open
    <3>1. servePorts'[p] = Http <=> servePorts[p] = Http
      BY <1>6
    <3>2. servePorts[p] = Http <=> serveGroups[p].open
      BY DEF ServeInv, PortInv
    <3> QED BY <3>1, <3>2
  <2> QED BY <2>1, <2>2 DEF PortInv
<1>11. Done(serveOps'[r]) = Done(rq) /\ id \notin Done(rq)
  BY <1>4, ServerIds DEF Done
<1>12. PassInv'
  <2>1. PassOf(rq)
    BY <1>1 DEF ServeInv, PassInv
  <2>2. \A x \in Done(serveOps'[r]) : Runs(serveInstances'[x], config[x])
    BY <1>5, <1>11, <2>1 DEF PassOf, Done
  <2>3. \A x \in Servers : config[x].protocol = "none" => serveInstances'[x] = NoEntry
    BY <1>5, <2>1 DEF PassOf
  <2>4. Publishes(serveOps'[r].bindings, config, Done(serveOps'[r]))
    BY <1>4, <1>11, <2>1 DEF PassOf
  <2>5. PassOf(serveOps[r])'
    BY <1>2, <1>4, <1>5, <2>2, <2>3, <2>4 DEF PassOf, Done, Publishes
  <2> QED BY <1>7, <2>5 DEF PassInv
<1>13. ASSUME Applied' PROVE AppliedInv'
  <2>1. config = serveStored /\ serveSettled > 0
    BY <1>4, <1>7, <1>13 DEF Applied
  <2>2. Applied
    BY <1>1, <2>1 DEF Applied, ServeInv, MutexInv
  <2>3. AppliedInv /\ Kept
    BY <2>2 DEF AppliedInv, ServeInv
  <2>4. Kept' /\ Publishes(serveHosts.serve, serveStored, Servers)'
    BY <1>5, <2>2, <2>3, NoneShape DEF AppliedInv, Kept, Publishes
  <2>5. ASSUME NEW p \in ServePorts PROVE Claims(p)' = Claims(p)
    <3>1. (servePorts'[p] = Other <=> servePorts[p] = Other) /\ (Wanted(p)' <=> Wanted(p))
      BY <1>6 DEF Wanted
    <3> QED BY <3>1, ClaimsSame
  <2>6. ASSUME NEW ids \in SUBSET (Servers \ {id}), Listening(ids) PROVE Listening(ids)'
    BY <1>5, <1>6, <2>5, <2>6 DEF Listening
  <2>7. Listening(Done(serveOps[r]))'
    <3>1. Done(rq) \in SUBSET (Servers \ {id}) /\ Listening(Done(rq)) /\ Done(serveOps[r])' = Done(rq)
      BY <1>1, <1>11, <2>2, <2>3 DEF AppliedInv, Done
    <3>2. Listening(Done(rq)) => \A p \in ServePorts : \A x \in Done(rq) :
            Claims(p)' = {x} => servePorts'[p] = x \/ serveBinds'[x] # "no"
      BY <1>5, <1>6, <2>5, <3>1 DEF Listening
    <3> QED BY <3>1, <3>2 DEF Listening
  <2>8. ASSUME serveSettled = 2 PROVE Listening(Servers \ Restarting)' /\ Routed'
    <3>1. Restarting = {} /\ Restarting' = {id}
      BY <1>1, <1>4, <1>7 DEF Restarting, ServeInv, MutexInv
    <3>2. Listening(Servers \ {id}) /\ Routed
      BY <2>2, <2>3, <2>8, <3>1 DEF AppliedInv, Listening
    <3>3. Listening(Servers \ Restarting)'
      BY <1>5, <1>6, <2>5, <3>1, <3>2 DEF Listening
    <3> QED BY <2>5, <3>2, <3>3 DEF Routed
  <2> QED BY <1>7, <2>4, <2>7, <2>8 DEF AppliedInv
<1>14. AppliedInv'
  BY <1>13 DEF AppliedInv
<1> QED BY <1>8, <1>9, <1>10, <1>12, <1>14 DEF ServeInv

LEMMA NextKeeps ==
  ASSUME ServeInv, NEW r \in ServeRequests, ReconcileNext(r)
  PROVE  ServeInv'
<1>0. ServeTypeOK /\ PortInv /\ BindInv /\ GroupInv /\ PassOf(serveOps[r]) /\ Reconciling(r)
  BY DEF ServeInv, PassInv, ReconcileNext, AtTurn, Reconciling
<1>1. PICK id \in Servers : id = serveOps[r].next
  BY DEF ReconcileNext, AtTurn
<1>2. PICK config \in Configs : config = serveOps[r].config
  BY <1>0, OpShape DEF ServeTypeOK, Reconciling
<1>3. PICK list \in Seq(ServeBindings) : list = serveOps[r].bindings
  BY <1>0, OpShape DEF ServeTypeOK, Reconciling
<1>4. /\ \/ AtTurn(r, "next") /\ KeepInstance(r, id)
         \/ AtTurn(r, "next") /\ StartFTP(r, id)
         \/ AtTurn(r, "next") /\ StartSFTP(r, id)
         \/ AtTurn(r, "next") /\ ReconcileVhostInstance(r, id)
         \/ AtTurn(r, "listen") /\ ListenSFTP(r, id)
      /\ UNCHANGED <<serveStored, serveHosts, serveGroups, serveSettled>>
  BY <1>1 DEF ReconcileNext
<1>5. config[id] = EntryOf(r)
  BY <1>1, <1>2 DEF EntryOf
<1>6. ASSUME config[id].protocol # "http" PROVE Publishes(list, config, Done(serveOps[r]) \cup {id})
  BY <1>0, <1>2, <1>3, <1>6 DEF PassOf, Publishes
\* The turn of a server without a binding.
<1>7. ASSUME NEW inst, NEW bind, NextTurn(r, <<>>), TurnPorts(id, config, inst, bind),
             config[id].protocol # "http", UNCHANGED serveKeys,
             \A p \in ServePorts :
               Kept /\ serveStored = config /\ Claims(p) = {id} => servePorts'[p] = id \/ bind # "no"
      PROVE  ServeInv'
  <2>1. <<>> \in Seq(ServeBindings) /\ list \o <<>> = list
    OBVIOUS
  <2>2. /\ serveOps' \in [ServeRequests -> ServeOp]
        /\ \A q \in ServeRequests \ {r} : serveOps'[q] = serveOps[q]
        /\ serveOps'[r].do = "reconcile" /\ serveOps'[r].config = config /\ serveOps'[r].at = "next"
        /\ serveOps'[r].next = id + 1 /\ serveOps'[r].bindings = list
    BY <1>0, <1>1, <1>2, <1>3, <1>7, <2>1, TurnOps
  <2>3. TurnOf(r, id, config, inst, bind, list)
    BY <1>0, <1>1, <1>2, <1>4, <1>6, <1>7, <2>2 DEF TurnOf
  <2> QED BY <2>3, TurnKeeps
<1>8. CASE KeepInstance(r, id)
  <2>1. UNCHANGED serveKeys
    BY <1>8 DEF KeepInstance
  <2> QED BY <1>0, <1>5, <1>7, <1>8, <2>1, KeptTurn
<1>9. CASE StartFTP(r, id)
  <2>1. UNCHANGED serveKeys
    BY <1>9 DEF StartFTP
  <2>2. /\ NextTurn(r, <<>>) /\ config[id].protocol # "http"
        /\ \E inst \in KeyedEntries \cup {NoEntry}, bind \in {"no", "pending"} :
              /\ TurnPorts(id, config, inst, bind)
              /\ \A p \in ServePorts :
                   Kept /\ serveStored = config /\ Claims(p) = {id} => servePorts'[p] = id \/ bind # "no"
    BY <1>0, <1>5, <1>9, FTPTurn
  <2>3. PICK inst \in KeyedEntries \cup {NoEntry}, bind \in {"no", "pending"} :
              /\ TurnPorts(id, config, inst, bind)
              /\ \A p \in ServePorts :
                   Kept /\ serveStored = config /\ Claims(p) = {id} => servePorts'[p] = id \/ bind # "no"
    BY <2>2, Zenon
  <2> QED BY <1>7, <2>1, <2>2, <2>3
<1>10. CASE AtTurn(r, "listen") /\ ListenSFTP(r, id)
  <2>1. UNCHANGED serveKeys
    BY <1>10 DEF ListenSFTP
  <2>2. serveInstances[id] = NoEntry /\ config[id].protocol = "sftp"
    BY <1>0, <1>1, <1>2, <1>10 DEF PassOf, AtTurn
  <2>3. serveOps[r].key \in 0..MaxHostKeys
    BY <1>0, OpShape DEF ServeTypeOK, Reconciling
  <2>4. /\ NextTurn(r, <<>>)
        /\ \E inst \in KeyedEntries \cup {NoEntry} :
              /\ TurnPorts(id, config, inst, "no")
              /\ \A p \in ServePorts :
                   Kept /\ serveStored = config /\ Claims(p) = {id} => servePorts'[p] = id
    BY <1>0, <1>5, <1>10, <2>2, <2>3, SFTPTurn
  <2>5. PICK inst \in KeyedEntries \cup {NoEntry} :
              /\ TurnPorts(id, config, inst, "no")
              /\ \A p \in ServePorts :
                   Kept /\ serveStored = config /\ Claims(p) = {id} => servePorts'[p] = id
    BY <2>4, Zenon
  <2> QED BY <1>7, <2>1, <2>2, <2>4, <2>5
<1>11. CASE AtTurn(r, "next") /\ StartSFTP(r, id)
  BY <1>1, <1>4, <1>11, StopKeeps
<1>12. CASE ReconcileVhostInstance(r, id)
  <2> DEFINE longer == list \o <<Binding(id, config[id])>>
  <2>1. /\ config[id].protocol = "http"
        /\ serveInstances' = [serveInstances EXCEPT ![id] = config[id]]
        /\ servePorts' = Released(servePorts, {id})
        /\ serveBinds' = [serveBinds EXCEPT ![id] = "no"]
        /\ NextTurn(r, <<Binding(id, config[id])>>) /\ UNCHANGED serveKeys
    BY <1>5, <1>12 DEF ReconcileVhostInstance, Stops
  <2>2. config[id] \in KeyedEntries
    BY <2>1, EntryShape
  <2>3. /\ Binding(id, config[id]) \in ServeBindings
        /\ <<Binding(id, config[id])>> \in Seq(ServeBindings) /\ longer \in Seq(ServeBindings)
    BY <2>2 DEF ServeBindings
  <2>4. Publishes(longer, config, Done(serveOps[r]) \cup {id})
    <3>1. Publishes(list, config, Done(serveOps[r]))
      BY <1>0, <1>2, <1>3 DEF PassOf
    <3>2. /\ Len(list) \in Nat /\ DOMAIN list = 1..Len(list) /\ DOMAIN longer = 1..(Len(list) + 1)
          /\ \A k \in 1..Len(list) : longer[k] = list[k]
          /\ longer[Len(list) + 1] = Binding(id, config[id])
      BY <2>3
    <3> HIDE DEF longer
    <3>3. /\ \A k \in DOMAIN longer : k \in DOMAIN list \/ k = Len(list) + 1
          /\ \A k \in DOMAIN list : k \in DOMAIN longer /\ longer[k] = list[k]
          /\ Len(list) + 1 \in DOMAIN longer
      BY <3>2
    <3>4. ASSUME NEW k \in DOMAIN longer
          PROVE  \E x \in Servers : config[x].protocol = "http" /\ longer[k] = Binding(x, config[x])
      BY <2>1, <3>1, <3>2, <3>3 DEF Publishes
    <3>5. ASSUME NEW x \in Done(serveOps[r]) \cup {id}, config[x].protocol = "http"
          PROVE  \E k \in DOMAIN longer : longer[k] = Binding(x, config[x])
      <4>1. CASE x = id
        BY <3>2, <3>3, <4>1
      <4>2. CASE x \in Done(serveOps[r])
        <5>1. PICK k \in DOMAIN list : list[k] = Binding(x, config[x])
          BY <3>1, <3>5, <4>2 DEF Publishes
        <5> QED BY <3>3, <5>1
      <4> QED BY <4>1, <4>2
    <3> QED BY <3>4, <3>5 DEF Publishes
  <2>5. /\ serveOps' \in [ServeRequests -> ServeOp]
        /\ \A q \in ServeRequests \ {r} : serveOps'[q] = serveOps[q]
        /\ serveOps'[r].do = "reconcile" /\ serveOps'[r].config = config /\ serveOps'[r].at = "next"
        /\ serveOps'[r].next = id + 1 /\ serveOps'[r].bindings = longer
    BY <1>0, <1>1, <1>2, <1>3, <2>1, <2>3, TurnOps
  <2> HIDE DEF longer
  <2>6. /\ servePorts' \in [ServePorts -> Servers \cup {0, Http, Other}]
        /\ \A p \in ServePorts : \A x \in (Servers \ {id}) \cup {Http, Other} :
             servePorts'[p] = x <=> servePorts[p] = x
        /\ \A p \in ServePorts : servePorts'[p] # id
    BY <1>0, <2>1, ReleasedPorts
  <2>7. ~Own(config[id]) /\ Runs(config[id], config[id])
    BY <2>1 DEF Own, Runs
  <2>8. TurnPorts(id, config, config[id], "no")
    BY <2>1, <2>2, <2>6, <2>7 DEF TurnPorts
  <2>9. \A p \in ServePorts : ~(serveStored = config /\ Claims(p) = {id})
    BY <2>7, ClaimsAre
  <2>10. TurnOf(r, id, config, config[id], "no", longer)
    BY <1>0, <1>1, <1>2, <1>4, <2>1, <2>4, <2>5, <2>8, <2>9 DEF TurnOf
  <2> QED BY <2>10, TurnKeeps
<1> QED BY <1>4, <1>8, <1>9, <1>10, <1>11, <1>12, Zenon
-----------------------------------------------------------------------------
(***************************************************************************)
(* A reconciliation ends with its bindings published.                      *)
(***************************************************************************)
\* The bindings of the stored HTTP entries decide where the virtual hosts are wanted.
LEMMA PublishedPorts ==
  ASSUME NEW list, NEW config, NEW p, Publishes(list, config, Servers)
  PROVE  BoundAt(list, p) <=> \E id \in Servers : config[id].protocol = "http" /\ config[id].port = p
<1>1. \A id \in Servers : Binding(id, config[id]).port = config[id].port
  BY DEF Binding
<1>2. ASSUME NEW k \in DOMAIN list, list[k].port = p
      PROVE  \E id \in Servers : config[id].protocol = "http" /\ config[id].port = p
  <2>1. PICK id \in Servers : config[id].protocol = "http" /\ list[k] = Binding(id, config[id])
    BY DEF Publishes
  <2> QED BY <1>1, <1>2, <2>1
<1>3. ASSUME NEW id \in Servers, config[id].protocol = "http", config[id].port = p
      PROVE  BoundAt(list, p)
  <2>1. PICK k \in DOMAIN list : list[k] = Binding(id, config[id])
    BY <1>3 DEF Publishes
  <2> QED BY <1>1, <1>3, <2>1 DEF BoundAt
<1> QED BY <1>2, <1>3 DEF BoundAt

LEMMA PublishKeeps ==
  ASSUME ServeInv, NEW r \in ServeRequests, Publish(r)
  PROVE  ServeInv'
<1>0. ServeTypeOK /\ PortInv /\ GroupInv /\ PassOf(serveOps[r]) /\ Reconciling(r) /\ serveHosts \in Hosts
  BY DEF ServeInv, PassInv, Publish, Reconciling, ServeTypeOK, Hosts
<1>1. PICK config \in Configs : config = serveOps[r].config
  BY <1>0, OpShape DEF ServeTypeOK, Reconciling
<1>2. PICK list \in Seq(ServeBindings) : list = serveOps[r].bindings
  BY <1>0, OpShape DEF ServeTypeOK, Reconciling
<1>3. PICK hosts \in Hosts : /\ hosts = [serveHosts EXCEPT !.serve = list]
                             /\ hosts.registry = serveHosts.registry /\ hosts.serve = list
  <2> DEFINE new == [serveHosts EXCEPT !.serve = list]
  <2>1. new \in Hosts /\ new.registry = serveHosts.registry /\ new.serve = list
    BY <1>0 DEF Hosts
  <2> HIDE DEF new
  <2>2. new = [serveHosts EXCEPT !.serve = list]
    BY DEF new
  <2> QED BY <2>1, <2>2, Zenon
<1>4. /\ SetBindings(hosts, servePorts) /\ serveOps' = [serveOps EXCEPT ![r] = ServeIdle]
      /\ serveSettled' = IF config # serveStored THEN 0 ELSE IF serveSettled < 2 THEN serveSettled + 1 ELSE 2
      /\ UNCHANGED <<serveStored, serverVars, serveInstances, serveBinds, serveKeys>>
      /\ serveOps[r].next \notin Servers
  BY <1>1, <1>2, <1>3 DEF Publish, serverVars
<1>5. Done(serveOps[r]) = Servers
  <2>1. serveOps[r].next \in Nat \ {0}
    BY <1>0, OpShape DEF ServeTypeOK, Reconciling
  <2> QED BY <1>4, <2>1, ServerIds DEF Done
<1>6. /\ PortInv' /\ GroupInv' /\ serveHosts' = hosts
      /\ serveGroups' \in [ServePorts -> [open : BOOLEAN, tls : BOOLEAN, routes : SUBSET (Servers \cup {0})]]
      /\ servePorts' \in [ServePorts -> Servers \cup {0, Http, Other}]
      /\ \A p \in ServePorts : servePorts'[p] = Other <=> servePorts[p] = Other
  <2>1. serveHosts' = hosts
    BY <1>4 DEF SetBindings
  <2> QED BY <1>0, <1>4, <2>1, BindingsKeep
<1>7. serveOps' \in [ServeRequests -> ServeOp] /\ \A q \in ServeRequests : ~Reconciling(q)'
  BY <1>0, <1>4 DEF ServeInv, ServeTypeOK, ServeOp, ServeIdle, MutexInv, Reconciling
<1>8. serveSettled' \in 0..2
  BY <1>0, <1>4 DEF ServeTypeOK
<1>9. ServeTypeOK' /\ MutexInv' /\ PassInv' /\ BindInv'
  BY <1>0, <1>4, <1>6, <1>7, <1>8 DEF ServeInv, ServeTypeOK, Hosts, MutexInv, PassInv, BindInv
<1>10. ASSUME Applied' PROVE AppliedInv'
  <2>1. config = serveStored /\ serveSettled' > 0
    BY <1>4, <1>10 DEF Applied
  <2>2. Kept'
    BY <1>0, <1>1, <1>4, <1>5, <2>1 DEF PassOf, Kept
  <2>3. Publishes(list, serveStored, Servers)
    BY <1>0, <1>1, <1>2, <1>5, <2>1 DEF PassOf
  <2>4. Publishes(serveHosts.serve, serveStored, Servers)'
    BY <1>3, <1>4, <1>6, <2>3 DEF Publishes
  <2>5. ASSUME serveSettled' = 2 PROVE Listening(Servers \ Restarting)' /\ Routed'
    <3>1. serveSettled > 0
      BY <1>0, <1>4, <2>1, <2>5 DEF ServeTypeOK
    <3>2. Applied
      BY <1>0, <1>1, <2>1, <3>1 DEF Applied, ServeInv, MutexInv
    <3>3. /\ Kept /\ Publishes(serveHosts.serve, serveStored, Servers)
          /\ Listening(Servers)
      BY <1>0, <1>5, <3>2 DEF ServeInv, AppliedInv
    <3>4. ASSUME NEW p \in ServePorts PROVE Claims(p)' = Claims(p)
      <4>1. DOMAIN DesiredAt(hosts, p) # {} <=> Wanted(p)
        <5>1. BoundAt(list, p) <=> BoundAt(serveHosts.serve, p)
          BY <2>3, <3>3, PublishedPorts
        <5>2. DOMAIN DesiredAt(hosts, p) # {} <=> BoundAt(serveHosts.registry, p) \/ BoundAt(list, p)
          BY <1>3, DesiredWhen
        <5>3. Wanted(p) <=> BoundAt(serveHosts.registry, p) \/ BoundAt(serveHosts.serve, p)
          BY <1>0, DesiredWhen DEF Wanted
        <5> QED BY <5>1, <5>2, <5>3
      <4>2. Wanted(p)' <=> Wanted(p)
        BY <1>6, <4>1 DEF Wanted
      <4> QED BY <1>4, <1>6, <4>2, ClaimsSame
    <3>5. ASSUME NEW p \in ServePorts, NEW id \in Servers, servePorts[p] = id PROVE servePorts'[p] = id
      BY <1>0, <1>4, <1>6, <3>5 DEF PortInv
    <3>6. Listening(Servers \ Restarting)'
      BY <1>4, <3>3, <3>4, <3>5 DEF Listening
    <3>7. ASSUME NEW p \in ServePorts, Claims(p) = {Http}
          PROVE  serveGroups'[p].routes = Routes(DesiredAt(hosts, p))
      <4>1. servePorts[p] \in {0, Http}
        BY <1>0, <3>3, <3>7, HeldByClaim
      <4> QED BY <1>0, <1>4, <4>1, GroupAfter
    <3>8. Routed'
      BY <1>6, <3>4, <3>7 DEF Routed
    <3> QED BY <3>6, <3>8
  <2> QED BY <1>7, <2>2, <2>4, <2>5 DEF AppliedInv
<1>11. AppliedInv'
  BY <1>10 DEF AppliedInv
<1> QED BY <1>6, <1>9, <1>11 DEF ServeInv
-----------------------------------------------------------------------------
LEMMA ServeInitInv == ServeInit => ServeInv
<1> SUFFICES ASSUME ServeInit PROVE ServeInv
  OBVIOUS
<1>1. /\ serveHosts.registry = <<>> /\ serveHosts.serve = <<>>
      /\ serveHosts \in Hosts
  BY DEF ServeInit, Hosts
<1>2. /\ \A p \in ServePorts : serveGroups[p] = NoGroup /\ servePorts[p] = 0
      /\ \A id \in Servers : serveInstances[id] = NoEntry /\ serveBinds[id] = "no"
      /\ \A r \in ServeRequests : serveOps[r] = ServeIdle
      /\ serveSettled = 0
  BY DEF ServeInit
<1>3. NoGroup.open = FALSE /\ NoGroup.routes = {}
  BY DEF NoGroup
<1>4. NoGroup \in [open : BOOLEAN, tls : BOOLEAN, routes : SUBSET (Servers \cup {0})]
  BY DEF NoGroup
<1>5. ServeTypeOK
  <2>1. 0 \in 0..MaxHostKeys
    <3>1. MaxHostKeys \in Nat
      BY ServeAssumption, Zenon DEF ServeAssumption
    <3> QED BY <3>1
  <2> QED BY <1>1, <1>4, <2>1 DEF ServeInit, ServeTypeOK, Configs, ServeOp, ServeIdle, Hosts
<1>6. \A r \in ServeRequests : ~Reconciling(r)
  BY <1>2 DEF Reconciling, ServeIdle
<1>7. MutexInv /\ PassInv
  BY <1>6 DEF MutexInv, PassInv
<1>8. PortInv /\ BindInv
  BY <1>2, <1>3, ServerIds, NoneShape DEF PortInv, BindInv
<1>9. GroupInv
  BY <1>2, <1>3 DEF GroupInv
<1>10. AppliedInv
  BY <1>2 DEF AppliedInv, Applied
<1> QED BY <1>5, <1>7, <1>8, <1>9, <1>10 DEF ServeInv

LEMMA ServeStep == ServeInv /\ [ServeNext]_serveVars => ServeInv'
<1> SUFFICES ASSUME ServeInv, [ServeNext]_serveVars PROVE ServeInv'
  OBVIOUS
<1>1. ASSUME NEW r \in ServeRequests, NEW config \in Configs, UpdateServeSettings(r, config) PROVE ServeInv'
  BY <1>1, UpdateKeeps
<1>2. ASSUME NEW r \in ServeRequests,
             \/ RawMountChanged(r) \/ LoadServeSettings(r) \/ Reconcile(r) \/ ReconcileNext(r)
             \/ HostKeyRead(r) \/ HostKeyWrite(r) \/ Publish(r)
      PROVE  ServeInv'
  BY <1>2, MountKeeps, LoadKeeps, ReconcileKeeps, NextKeeps, HostKeyKeeps, PublishKeeps
<1>3. ASSUME NEW list \in Lists, SaveListeners(list) PROVE ServeInv'
  BY <1>3, ListenersKeep
<1>4. ASSUME NEW p \in ServePorts, OtherProgram(p) PROVE ServeInv'
  BY <1>4, OtherKeeps
<1>5. ASSUME NEW id \in Servers, ListenAndServe(id) PROVE ServeInv'
  BY <1>5, ListenKeeps
<1>6. CASE UNCHANGED serveVars
  <2>1. /\ UNCHANGED <<serverVars, serveHosts, serveGroups, servePorts>> /\ serveOps' = serveOps
        /\ UNCHANGED <<serveSettled, serveStored, serveKeys, serveInstances, serveBinds>>
    BY <1>6 DEF serveVars, serverVars
  <2>2. ServeTypeOK'
    BY <2>1 DEF ServeInv, ServeTypeOK
  <2>3. \A q \in ServeRequests : (Reconciling(q)' <=> Reconciling(q))
                              /\ (Reconciling(q) => serveOps'[q] = serveOps[q])
    BY <2>1 DEF Reconciling
  <2> QED BY <2>1, <2>2, <2>3, CalmKeeps
<1> QED BY <1>1, <1>2, <1>3, <1>4, <1>5, <1>6, Zenon DEF ServeNext

\* What the invariant says when every request is answered.
LEMMA ServeInLine == ServeInv => InLine
<1> SUFFICES ASSUME ServeInv, serveSettled = 2, \A r \in ServeRequests : serveOps[r].do = "idle",
                    NEW p \in ServePorts
             PROVE  /\ servePorts[p] \in Claims(p) \cup {0}
                    /\ \A c \in Claims(p) : Claims(p) = {c} =>
                         IF c = Http
                           THEN serveGroups[p].routes = Routes(DesiredAt(serveHosts, p))
                           ELSE servePorts[p] = c \/ (c \in Servers /\ serveBinds[c] # "no")
                    /\ \A id \in serveGroups[p].routes \ {0} : serveStored[id].port = p
  BY DEF InLine
<1>1. Applied
  BY DEF Applied, Reconciling
<1>2. /\ ServeTypeOK /\ PortInv /\ GroupInv /\ Kept /\ Listening(Servers) /\ Routed
      /\ Publishes(serveHosts.serve, serveStored, Servers) /\ serveHosts \in Hosts
  <2>1. Restarting = {}
    BY DEF Restarting, Reconciling
  <2>2. Listening(Servers \ {}) => Listening(Servers)
    BY DEF Listening
  <2> QED BY <1>1, <2>1, <2>2 DEF ServeInv, AppliedInv, ServeTypeOK, Hosts
<1>3. servePorts[p] \in Claims(p) \cup {0}
  BY <1>2, HeldByClaim
<1>4. ASSUME NEW c \in Claims(p), Claims(p) = {c}
      PROVE  IF c = Http THEN serveGroups[p].routes = Routes(DesiredAt(serveHosts, p))
                         ELSE servePorts[p] = c \/ (c \in Servers /\ serveBinds[c] # "no")
  <2>1. CASE c = Http
    BY <1>2, <1>4, <2>1 DEF Routed
  <2>2. CASE c \in Servers
    BY <1>2, <1>4, <2>2, ServerIds DEF Listening
  <2>3. CASE c = Other
    BY <1>4, <2>3, ClaimsAre, ServerIds
  <2> QED BY <1>4, <2>1, <2>2, <2>3, ClaimsAre
<1>5. ASSUME NEW id \in serveGroups[p].routes \ {0} PROVE serveStored[id].port = p
  <2>1. id \in Routes(DesiredAt(serveHosts, p)) /\ id # 0
    BY <1>2, <1>5 DEF GroupInv
  <2>2. PICK k \in DOMAIN serveHosts.serve : serveHosts.serve[k].id = id /\ serveHosts.serve[k].port = p
    BY <1>2, <2>1, RouteOf
  <2>3. PICK x \in Servers : serveHosts.serve[k] = Binding(x, serveStored[x])
    BY <1>2 DEF Publishes
  <2> QED BY <2>2, <2>3 DEF Binding
<1> QED BY <1>3, <1>4, <1>5

\* Once the stored settings have been applied twice in a row and nothing else has
\* changed, the listeners are those of the settings: for any number of servers and
\* ports, however requests overlap, whichever of them applied settings that were
\* old by then, whatever host keys were generated and stored meanwhile, and whatever
\* other programs did to the ports before; but for an FTP or TFTP server whose port
\* was taken between the check and the listener.
THEOREM InLineAlways == ServeSpec => []InLine
<1>1. ServeInv /\ [ServeNext]_serveVars => ServeInv'
  BY ServeStep
<1> QED BY <1>1, ServeInitInv, ServeInLine, PTL DEF ServeSpec

-----------------------------------------------------------------------------
(***************************************************************************)
(* Accounts: the inductive invariant.                                      *)
(***************************************************************************)
\* The steps an operation can be at.
Places(job) ==
  IF job.kind = "login" THEN {"verify", "rehash", "resolve", "save"}
  ELSE IF job.kind \in {"update", "superadmin", "patch"} THEN {"read", "guard", "write", "sweep"}
  ELSE IF job.kind = "delete" THEN {"guard", "sweep", "remove"}
  ELSE IF job.kind # "request" THEN {"sweep", "apply"}
  ELSE IF job.by \in Passwords
    THEN {"cached", "verify", "rehash", "put", "principal", "account", "bundles"}
  ELSE IF job.by = "user" THEN {"principal", "account", "bundles"}
  ELSE IF job.by = "session" THEN {"load", "account", "bundles"}
  ELSE {"token"}

DoingShape(o) == o = [job |-> o.job, pc |-> o.pc, row |-> o.row, owner |-> o.owner,
                   in |-> o.in, caps |-> o.caps]
LimitShape(l) == l = [in |-> l.in, given |-> l.given, denied |-> l.denied]

AccountShapes ==
  /\ DOMAIN op = Operations /\ \A n \in Operations : DoingShape(op[n])
  /\ DOMAIN limit = Operations /\ \A n \in Operations : LimitShape(limit[n])
  /\ grant \in [Users -> SUBSET Capabilities]
  /\ session \in [Operations -> Users \cup {"none", Nobody}]

\* An operation is at a step of its kind; the user of a request is known where it is used.
Placed(n) ==
  /\ Active(n) => op[n].pc \in Places(op[n].job) /\ ~op[n].in
  /\ Active(n) /\ op[n].job.kind = "request" =>
       \/ op[n].job.by \in {"token", "minted"}
       \/ op[n].job.by = "session" /\ op[n].job.of \in Operations
       \/ op[n].job.by \in Passwords \cup {"user"} /\ op[n].job.of \in Users
  /\ Active(n) /\ op[n].job.kind = "login" => op[n].job.of \in Users
  /\ op[n].owner \in Users \cup {"none", Nobody}
  /\ op[n].pc \in {"account", "bundles"} => Holder(op[n]) \in Users

\* What a request may be given covers what its credential stands for now.
Covers(n) ==
  Active(n) /\ op[n].job.kind = "request" =>
    /\ Holds(op[n]) => limit[n].in
    /\ Granted(op[n]) \subseteq limit[n].given
    /\ limit[n].denied \subseteq Denied(op[n])

\* A principal once resolved was enabled, and its row was read while it is covered.
Resolved(n) ==
  /\ op[n].pc \in {"account", "bundles"} => limit[n].in
  /\ op[n].pc = "bundles" => limit[n].denied \subseteq op[n].row.denied

AccountsInv ==
  /\ AccountShapes
  /\ \A n \in Operations : Placed(n) /\ Covers(n) /\ Resolved(n)
  /\ RevokedRefused
-----------------------------------------------------------------------------
\* What a step records of a request that goes on, and of one that is over.
LEMMA ObserveRecords ==
  ASSUME AccountShapes, Observe, NEW n \in Operations
  PROVE  /\ DOMAIN limit' = Operations
         /\ LimitShape(limit[n])'
         /\ ~Active(n)' => limit'[n] = limit[n]
         /\ limit[n].in => limit'[n].in
         /\ limit'[n].denied \subseteq limit[n].denied
         /\ Covers(n)'
<1>1. limit'[n] = Observed(n) /\ DOMAIN limit' = Operations
  BY DEF Observe
<1>2. LimitShape(limit[n])
  BY DEF AccountShapes
<1>3. CASE Active(n)' /\ op'[n].job.kind = "request"
  <2>1. limit'[n] = [in |-> limit[n].in \/ Holds(op[n])', given |-> limit[n].given \cup Granted(op[n])',
          denied |-> limit[n].denied \cap Denied(op[n])']
    BY <1>1, <1>3 DEF Observed
  <2>2. /\ limit'[n].in = (limit[n].in \/ Holds(op[n])')
        /\ limit'[n].given = limit[n].given \cup Granted(op[n])'
        /\ limit'[n].denied = limit[n].denied \cap Denied(op[n])'
    BY <2>1
  <2> QED
    BY <1>1, <1>3, <2>1, <2>2 DEF LimitShape, Covers
<1>4. CASE ~(Active(n)' /\ op'[n].job.kind = "request")
  <2>1. limit'[n] = limit[n]
    BY <1>1, <1>4 DEF Observed
  <2> QED
    BY <1>1, <1>2, <1>4, <2>1 DEF LimitShape, Covers
<1> QED
  BY <1>3, <1>4

\* An operation that a step leaves alone keeps what was said of it.
LEMMA AloneKept ==
  ASSUME AccountsInv, Observe, NEW n \in Operations, op'[n] = op[n]
  PROVE  /\ DoingShape(op[n])' /\ Placed(n)' /\ Covers(n)' /\ Resolved(n)'
         /\ op'[n].in => limit'[n].in /\ op'[n].caps \subseteq limit'[n].given \ limit'[n].denied
<1>1. DoingShape(op[n]) /\ Placed(n) /\ Resolved(n)
  BY DEF AccountsInv, AccountShapes
<1>2. /\ ~Active(n)' => limit'[n] = limit[n]
      /\ limit[n].in => limit'[n].in
      /\ limit'[n].denied \subseteq limit[n].denied
      /\ Covers(n)'
  BY ObserveRecords DEF AccountsInv
<1>3. DoingShape(op[n])'
  BY <1>1 DEF DoingShape
<1>4. Placed(n)'
  BY <1>1 DEF Placed, Active, Holder
<1>5. Resolved(n)'
  BY <1>1, <1>2 DEF Resolved
<1>6. op'[n].in => limit'[n].in /\ op'[n].caps \subseteq limit'[n].given \ limit'[n].denied
  <2>1. op[n].in => ~Active(n)'
    BY <1>1 DEF Placed, Active
  <2> QED
    BY <1>2, <2>1 DEF AccountsInv, RevokedRefused
<1> QED
  BY <1>2, <1>3, <1>4, <1>5, <1>6

\* What an operation's own step has to leave behind: only this operation moves, to a
\* step of its kind; a principal is resolved, and an answer given, within the limit.
Moved(n) ==
  /\ DOMAIN op' = Operations /\ \A m \in Operations \ {n} : op'[m] = op[m]
  /\ DoingShape(op[n])' /\ Placed(n)'
  /\ op'[n].pc \in {"account", "bundles"} => limit[n].in
  /\ op'[n].pc = "bundles" => limit[n].denied \subseteq op'[n].row.denied
  /\ op'[n].in => limit[n].in /\ op'[n].caps \subseteq limit[n].given \ limit[n].denied
TablesTyped ==
  /\ grant \in [Users -> SUBSET Capabilities]
  /\ session \in [Operations -> Users \cup {"none", Nobody}]

LEMMA MovedKeeps ==
  ASSUME AccountsInv, Observe, NEW n \in Operations, Moved(n), TablesTyped'
  PROVE  AccountsInv'
<1>1. ASSUME NEW m \in Operations \ {n}
      PROVE  /\ DoingShape(op[m])' /\ Placed(m)' /\ Covers(m)' /\ Resolved(m)'
             /\ op'[m].in => limit'[m].in /\ op'[m].caps \subseteq limit'[m].given \ limit'[m].denied
  BY AloneKept DEF Moved
<1>2. /\ ~Active(n)' => limit'[n] = limit[n]
      /\ limit[n].in => limit'[n].in
      /\ limit'[n].denied \subseteq limit[n].denied
      /\ Covers(n)'
  BY ObserveRecords DEF AccountsInv
<1>3. Resolved(n)'
  BY <1>2 DEF Resolved, Moved
<1>4. op'[n].in => limit'[n].in /\ op'[n].caps \subseteq limit'[n].given \ limit'[n].denied
  <2>1. op'[n].in => ~Active(n)'
    BY DEF Moved, Placed
  <2> QED
    BY <1>2, <2>1 DEF Moved
<1>5. \A m \in Operations : LimitShape(limit[m])' /\ DOMAIN limit' = Operations
  BY ObserveRecords DEF AccountsInv
<1>6. DOMAIN limit' = Operations
  BY <1>5
<1>7. AccountShapes'
  BY <1>1, <1>5, <1>6 DEF AccountShapes, Moved, TablesTyped
<1>8. \A m \in Operations : Placed(m)' /\ Covers(m)' /\ Resolved(m)'
  BY <1>1, <1>2, <1>3 DEF Moved
<1>9. RevokedRefused'
  BY <1>1, <1>4 DEF RevokedRefused
<1> QED
  BY <1>7, <1>8, <1>9 DEF AccountsInv

-----------------------------------------------------------------------------
\* The operation a step leaves behind.
LEMMA UnbegunFields ==
  /\ DoingShape(Unbegun) /\ Unbegun.pc = "idle" /\ Unbegun.owner = "none"
  /\ Unbegun.in = FALSE /\ Unbegun.caps = {} /\ Unbegun.job = "none"
BY DEF DoingShape, Unbegun

LEMMA EndedFields ==
  /\ DoingShape(EndedOp) /\ EndedOp.pc = "done" /\ EndedOp.owner = "none"
  /\ EndedOp.in = FALSE /\ EndedOp.caps = {} /\ EndedOp.job = "none"
<1>1. EndedOp = [job |-> Unbegun.job, pc |-> "done", row |-> Unbegun.row, owner |-> Unbegun.owner,
                 in |-> Unbegun.in, caps |-> Unbegun.caps]
  BY UnbegunFields DEF EndedOp, DoingShape
<1> QED
  BY <1>1, UnbegunFields DEF DoingShape

LEMMA OntoFields ==
  ASSUME NEW o, DoingShape(o), NEW pc
  PROVE  /\ DoingShape(Onto(o, pc)) /\ Onto(o, pc).pc = pc
         /\ pc = "done" => Onto(o, pc) = EndedOp
         /\ pc # "done" => /\ Onto(o, pc).job = o.job /\ Onto(o, pc).row = o.row
                           /\ Onto(o, pc).owner = o.owner /\ Onto(o, pc).in = o.in
                           /\ Onto(o, pc).caps = o.caps
<1>1. CASE pc = "done"
  BY <1>1, EndedFields DEF Onto
<1>2. CASE pc # "done"
  <2>1. Onto(o, pc) = [job |-> o.job, pc |-> pc, row |-> o.row, owner |-> o.owner,
                       in |-> o.in, caps |-> o.caps]
    BY <1>2 DEF Onto, DoingShape
  <2> QED
    BY <1>2, <2>1 DEF DoingShape
<1> QED
  BY <1>1, <1>2

LEMMA RowRead ==
  ASSUME NEW o, DoingShape(o), NEW row
  PROVE  /\ DoingShape([o EXCEPT !.row = row])
         /\ [o EXCEPT !.row = row].job = o.job /\ [o EXCEPT !.row = row].owner = o.owner
         /\ [o EXCEPT !.row = row].in = o.in
<1>1. [o EXCEPT !.row = row] = [job |-> o.job, pc |-> o.pc, row |-> row, owner |-> o.owner,
                                in |-> o.in, caps |-> o.caps]
  BY DEF DoingShape
<1> QED
  BY <1>1 DEF DoingShape

LEMMA OpAt ==
  ASSUME AccountsInv, NEW n \in Operations, NEW o, op' = [op EXCEPT ![n] = o]
  PROVE  DOMAIN op' = Operations /\ op'[n] = o /\ \A m \in Operations \ {n} : op'[m] = op[m]
BY DEF AccountsInv, AccountShapes

\* An operation that goes on with its row read, or ends, before a principal is resolved.
LEMMA OntoMoves ==
  ASSUME AccountsInv, NEW n \in Operations, Active(n), NEW o, DoingShape(o),
         o.job = op[n].job, o.owner = op[n].owner, o.in = op[n].in, NEW pc,
         op' = [op EXCEPT ![n] = Onto(o, pc)],
         \/ pc = "done"
         \/ pc \in Places(op[n].job) \ {"idle", "account", "bundles"}
  PROVE  Moved(n)
<1>1. DOMAIN op' = Operations /\ op'[n] = Onto(o, pc) /\ \A m \in Operations \ {n} : op'[m] = op[m]
  BY OpAt
<1>2. DoingShape(op[n])' /\ op'[n].pc = pc
  BY <1>1, OntoFields DEF DoingShape
<1>3. Placed(n)
  BY DEF AccountsInv
<1>4. CASE pc = "done"
  <2>1. op'[n] = EndedOp
    BY <1>1, <1>4, OntoFields
  <2>2. Placed(n)'
    BY <2>1, EndedFields DEF Placed, Active
  <2> QED
    BY <1>1, <1>2, <2>1, <2>2, EndedFields DEF Moved
<1>5. CASE pc # "done"
  <2>1. op'[n].job = op[n].job /\ op'[n].owner = op[n].owner /\ op'[n].in = op[n].in
    BY <1>1, <1>5, OntoFields
  <2>2. pc \in Places(op[n].job) /\ pc \notin {"idle", "account", "bundles"}
    BY <1>5
  <2>3. Placed(n)'
    BY <1>2, <1>3, <2>1, <2>2 DEF Placed, Active
  <2>4. ~op'[n].in
    BY <1>3, <2>1 DEF Placed
  <2> QED
    BY <1>1, <1>2, <2>2, <2>3, <2>4 DEF Moved
<1> QED
  BY <1>4, <1>5

-----------------------------------------------------------------------------
\* The first step of an operation is one of its kind.
LEMMA ChangeFirst ==
  ASSUME NEW job \in AccountChanges
  PROVE  /\ job.kind # "request"
         /\ job.kind = "login" => job.of \in Users
         /\ FirstStep(job) \in Places(job) \ {"idle", "done", "account", "bundles"}
<1>1. /\ job.kind \in {"update", "superadmin", "grant", "deny", "delete", "kick", "patch",
                       "revoke", "login"}
      /\ job.kind = "login" => job.of \in Users
  <2>1. CASE job \in [kind : {"login"}, of : Users, to : {"passkey", "external"} \cup Passwords]
    BY <2>1
  <2>2. CASE job \notin [kind : {"login"}, of : Users, to : {"passkey", "external"} \cup Passwords]
    BY <2>2 DEF AccountChanges
  <2> QED
    BY <2>1, <2>2
<1>2. CASE job.kind = "login"
  BY <1>1, <1>2 DEF FirstStep, Places
<1>3. CASE job.kind \in {"update", "superadmin", "patch"}
  BY <1>3 DEF FirstStep, Places
<1>4. CASE job.kind = "delete"
  BY <1>4 DEF FirstStep, Places
<1>5. CASE job.kind \in {"grant", "deny", "kick", "revoke"}
  BY <1>5 DEF FirstStep, Places
<1> QED
  BY <1>1, <1>2, <1>3, <1>4, <1>5

LEMMA RequestFirst ==
  ASSUME NEW job \in Requests \cup SessionRequests
  PROVE  /\ job.kind = "request"
         /\ \/ job.by \in {"token", "minted"}
            \/ job.by = "session" /\ job.of \in Operations
            \/ job.by \in Passwords \cup {"user"} /\ job.of \in Users
         /\ FirstStep(job) \in Places(job) \ {"idle", "done", "account", "bundles"}
<1>1. /\ job.kind = "request"
      /\ \/ job.by \in {"token", "minted"}
         \/ job.by = "session" /\ job.of \in Operations
         \/ job.by \in Passwords \cup {"user"} /\ job.of \in Users
  BY DEF Requests, SessionRequests
<1>2. FirstStep(job) = CASE job.by \in Passwords -> "cached" [] job.by = "user" -> "principal"
           [] job.by \in {"token", "minted"} -> "token" [] job.by = "session" -> "load"
  BY <1>1 DEF FirstStep
<1>3. Places(job) =
        IF job.by \in Passwords
          THEN {"cached", "verify", "rehash", "put", "principal", "account", "bundles"}
        ELSE IF job.by = "user" THEN {"principal", "account", "bundles"}
        ELSE IF job.by = "session" THEN {"load", "account", "bundles"}
        ELSE {"token"}
  BY <1>1 DEF Places
<1>4. CASE job.by \in Passwords
  BY <1>1, <1>2, <1>3, <1>4 DEF Passwords
<1>5. CASE job.by = "user"
  BY <1>1, <1>2, <1>3, <1>5 DEF Passwords
<1>6. CASE job.by \in {"token", "minted"}
  BY <1>1, <1>2, <1>3, <1>6 DEF Passwords
<1>7. CASE job.by = "session"
  BY <1>1, <1>2, <1>3, <1>7 DEF Passwords
<1> QED
  BY <1>1, <1>4, <1>5, <1>6, <1>7

LEMMA BegunFields ==
  ASSUME NEW o, DoingShape(o), NEW job, NEW pc
  PROVE  [o EXCEPT !.job = job, !.pc = pc] =
           [job |-> job, pc |-> pc, row |-> o.row, owner |-> o.owner, in |-> o.in, caps |-> o.caps]
<1> DEFINE a == [o EXCEPT !.job = job]
<1>1. a = [job |-> job, pc |-> o.pc, row |-> o.row, owner |-> o.owner, in |-> o.in, caps |-> o.caps]
  BY DEF DoingShape
<1> HIDE DEF a
<1>2. DoingShape(a) /\ a.job = job /\ a.row = o.row /\ a.owner = o.owner /\ a.in = o.in /\ a.caps = o.caps
  BY <1>1 DEF DoingShape
<1>3. [a EXCEPT !.pc = pc] =
        [job |-> job, pc |-> pc, row |-> o.row, owner |-> o.owner, in |-> o.in, caps |-> o.caps]
  BY <1>2 DEF DoingShape
<1>4. [o EXCEPT !.job = job, !.pc = pc] = [a EXCEPT !.pc = pc]
  BY Zenon DEF a
<1> QED
  BY <1>3, <1>4

LEMMA BeginMoves ==
  ASSUME AccountsInv, NEW n \in Operations,
         NEW job \in AccountChanges \cup Requests \cup SessionRequests, Begin(n, job)
  PROVE  Moved(n)
<1> DEFINE o == [Unbegun EXCEPT !.job = job, !.pc = FirstStep(job)]
<1>1. op' = [op EXCEPT ![n] = o]
  BY DEF Begin
<1>2. DOMAIN op' = Operations /\ op'[n] = o /\ \A m \in Operations \ {n} : op'[m] = op[m]
  <2> HIDE DEF o
  <2> QED
    BY <1>1, OpAt
<1>3. o = [job |-> job, pc |-> FirstStep(job), row |-> Unbegun.row, owner |-> Unbegun.owner,
           in |-> Unbegun.in, caps |-> Unbegun.caps]
  <2>1. DoingShape(Unbegun)
    BY UnbegunFields
  <2>2. \A j, p : [Unbegun EXCEPT !.job = j, !.pc = p] =
           [job |-> j, pc |-> p, row |-> Unbegun.row, owner |-> Unbegun.owner, in |-> Unbegun.in,
            caps |-> Unbegun.caps]
    BY ONLY <2>1, BegunFields, Zenon
  <2> QED
    BY <2>2, Zenon
<1>4. /\ op'[n].job = job /\ op'[n].pc = FirstStep(job) /\ op'[n].in = FALSE
      /\ op'[n].owner = "none" /\ DoingShape(op[n])'
  <2> HIDE DEF o
  <2> QED
    BY <1>2, <1>3, UnbegunFields DEF DoingShape
<1>5. FirstStep(job) \in Places(job) \ {"idle", "done", "account", "bundles"}
  BY ChangeFirst, RequestFirst
<1>6. job.kind = "request" => \/ job.by \in {"token", "minted"}
                              \/ job.by = "session" /\ job.of \in Operations
                              \/ job.by \in Passwords \cup {"user"} /\ job.of \in Users
  BY ChangeFirst, RequestFirst
<1>7. job.kind = "login" => job.of \in Users
  BY ChangeFirst, RequestFirst
<1>8. Placed(n)'
  BY <1>4, <1>5, <1>6, <1>7 DEF Placed, Active
<1> QED
  BY <1>2, <1>4, <1>5, <1>8 DEF Moved

-----------------------------------------------------------------------------
\* The steps of an operation before a principal is resolved: it goes on, or ends.
LEMMA GotoMoves ==
  ASSUME AccountsInv, NEW n \in Operations, Active(n), NEW pc, Goto(n, pc),
         \/ pc = "done"
         \/ pc \in Places(op[n].job) \ {"idle", "account", "bundles"}
  PROVE  Moved(n)
<1>1. op' = [op EXCEPT ![n] = Onto(op[n], pc)]
  BY DEF Goto
<1>2. DoingShape(op[n])
  BY DEF AccountsInv, AccountShapes
<1> QED
  BY <1>1, <1>2, OntoMoves

\* The kinds of operation that can be at a step.
LEMMA PlaceKinds ==
  ASSUME AccountsInv, NEW n \in Operations
  PROVE  /\ op[n].pc = "read" => /\ op[n].job.kind \in {"update", "superadmin", "patch"}
                                 /\ Places(op[n].job) = {"read", "guard", "write", "sweep"}
         /\ op[n].pc = "guard" =>
              IF op[n].job.kind = "delete" THEN Places(op[n].job) = {"guard", "sweep", "remove"}
                                           ELSE Places(op[n].job) = {"read", "guard", "write", "sweep"}
         /\ op[n].pc = "write" => Places(op[n].job) = {"read", "guard", "write", "sweep"}
         /\ op[n].pc = "sweep" /\ op[n].job.kind = "delete" =>
              Places(op[n].job) = {"guard", "sweep", "remove"}
         /\ op[n].pc \in {"resolve", "save"} => op[n].job.of \in Users /\
              Places(op[n].job) = {"verify", "rehash", "resolve", "save"}
         /\ op[n].pc \in {"verify", "rehash"} =>
              \/ /\ op[n].job.kind = "login"
                 /\ Places(op[n].job) = {"verify", "rehash", "resolve", "save"}
              \/ /\ op[n].job.kind # "login"
                 /\ Places(op[n].job) =
                      {"cached", "verify", "rehash", "put", "principal", "account", "bundles"}
         /\ op[n].pc \in {"cached", "put"} =>
                 Places(op[n].job) =
                      {"cached", "verify", "rehash", "put", "principal", "account", "bundles"}
         /\ op[n].pc \in {"principal", "load", "account", "bundles", "token"} =>
              op[n].job.kind = "request"
         /\ op[n].pc = "principal" => /\ op[n].job.by \in Passwords \cup {"user"}
                                      /\ op[n].job.of \in Users
         /\ op[n].pc = "load" => op[n].job.by = "session" /\ op[n].job.of \in Operations
         /\ op[n].pc \in {"account", "bundles"} =>
              op[n].job.by \in Passwords \cup {"user", "session"}
         /\ op[n].pc = "token" => ByToken(op[n])
<1>1. Placed(n)
  BY DEF AccountsInv
<1>2. op[n].pc \notin {"idle", "done"} =>
        /\ op[n].pc \in Places(op[n].job)
        /\ op[n].job.kind = "request" =>
            \/ op[n].job.by \in {"token", "minted"}
            \/ op[n].job.by = "session" /\ op[n].job.of \in Operations
            \/ op[n].job.by \in Passwords \cup {"user"} /\ op[n].job.of \in Users
        /\ op[n].job.kind = "login" => op[n].job.of \in Users
  BY <1>1 DEF Placed, Active
<1>3. CASE op[n].job.kind = "login"
  BY <1>2, <1>3 DEF Places
<1>4. CASE op[n].job.kind \notin {"login", "request"}
  BY <1>2, <1>4 DEF Places
<1>5. CASE op[n].job.kind = "request" /\ op[n].job.by \in Passwords
  BY <1>2, <1>5 DEF Places, Passwords
<1>6. CASE op[n].job.kind = "request" /\ op[n].job.by = "user"
  BY <1>2, <1>6 DEF Places, Passwords
<1>7. CASE op[n].job.kind = "request" /\ op[n].job.by = "session"
  BY <1>2, <1>7 DEF Places, Passwords
<1>8. CASE op[n].job.kind = "request" /\ op[n].job.by \notin Passwords \cup {"user", "session"}
  BY <1>2, <1>8 DEF Places, ByToken, Passwords
<1> QED
  BY <1>3, <1>4, <1>5, <1>6, <1>7, <1>8

LEMMA ReadMoves ==
  ASSUME AccountsInv, NEW n \in Operations, Read(n)
  PROVE  Moved(n)
<1> DEFINE row == IF Kind(n) = "patch" THEN token[Of(n)] ELSE user[Of(n)]
           to == op[n].job.to
           next == CASE ~row.exists -> "done"
                     [] Kind(n) = "update" ->
                          IF to = "disable" /\ ~row.disabled THEN "guard" ELSE "write"
                     [] Kind(n) = "superadmin" ->
                          IF row.superadmin = (to = "yes") THEN "done"
                          ELSE IF to = "yes" THEN "write" ELSE "guard"
                     [] Kind(n) = "patch" -> "write"
           o == [op[n] EXCEPT !.row = row]
<1>1. op' = [op EXCEPT ![n] = Onto(o, next)]
  BY DEF Read
<1>2. op[n].pc = "read" /\ DoingShape(op[n])
  BY DEF Read, Doing, AccountsInv, AccountShapes
<1>3. /\ Kind(n) \in {"update", "superadmin", "patch"}
      /\ Places(op[n].job) = {"read", "guard", "write", "sweep"}
  BY <1>2, PlaceKinds DEF Kind
<1> HIDE DEF row, to
<1>4. next \in {"done", "guard", "write"}
  BY <1>3
<1> HIDE DEF next
<1>5. DoingShape(o) /\ o.job = op[n].job /\ o.owner = op[n].owner /\ o.in = op[n].in
  BY <1>2, RowRead
<1>6. Active(n)
  BY <1>2 DEF Active
<1> HIDE DEF o
<1> QED
  BY <1>1, <1>3, <1>4, <1>5, <1>6, OntoMoves

LEMMA AdminMoves ==
  ASSUME AccountsInv, NEW n \in Operations,
         \/ GuardLastSuperadmin(n) \/ WriteUser(n) \/ \E fault \in BOOLEAN : Sweep(n, fault)
         \/ Remove(n) \/ SetUserPermissions(n) \/ SetUserDeniedCapabilities(n)
         \/ DeleteToken(n) \/ PatchToken(n)
  PROVE  Moved(n)
<1>1. ASSUME GuardLastSuperadmin(n) PROVE Moved(n)
  <2>1. PICK pc : Goto(n, pc) /\ pc \in {"done", IF Kind(n) = "delete" THEN "sweep" ELSE "write"}
    BY <1>1 DEF GuardLastSuperadmin
  <2>2. op[n].pc = "guard" /\ Active(n)
    BY <1>1 DEF GuardLastSuperadmin, Doing, Active
  <2>3. IF op[n].job.kind = "delete" THEN Places(op[n].job) = {"guard", "sweep", "remove"}
                                     ELSE Places(op[n].job) = {"read", "guard", "write", "sweep"}
    BY <2>2, PlaceKinds
  <2>4. pc = "done" \/ pc \in Places(op[n].job) \ {"idle", "account", "bundles"}
    BY <2>1, <2>3 DEF Kind
  <2> QED
    BY <2>1, <2>2, <2>4, GotoMoves
<1>2. ASSUME WriteUser(n) PROVE Moved(n)
  <2>1. PICK pc : Goto(n, pc) /\ pc \in {"done", "sweep"}
    BY <1>2 DEF WriteUser, Return
  <2>2. op[n].pc = "write" /\ Active(n)
    BY <1>2 DEF WriteUser, Doing, Active
  <2>3. Places(op[n].job) = {"read", "guard", "write", "sweep"}
    BY <2>2, PlaceKinds
  <2>4. pc = "done" \/ pc \in Places(op[n].job) \ {"idle", "account", "bundles"}
    BY <2>1, <2>3
  <2> QED
    BY <2>1, <2>2, <2>4, GotoMoves
<1>3. ASSUME NEW fault \in BOOLEAN, Sweep(n, fault) PROVE Moved(n)
  <2>1. PICK pc : Goto(n, pc) /\ (pc = "done" \/ (pc = "remove" /\ Kind(n) = "delete"))
    BY <1>3 DEF Sweep, Return
  <2>2. op[n].pc = "sweep" /\ Active(n)
    BY <1>3 DEF Sweep, Doing, Active
  <2>3. op[n].job.kind = "delete" => Places(op[n].job) = {"guard", "sweep", "remove"}
    BY <2>2, PlaceKinds
  <2>4. pc = "done" \/ pc \in Places(op[n].job) \ {"idle", "account", "bundles"}
    BY <2>1, <2>3 DEF Kind
  <2> QED
    BY <2>1, <2>2, <2>4, GotoMoves
<1>4. ASSUME \/ Remove(n) \/ SetUserPermissions(n) \/ SetUserDeniedCapabilities(n)
             \/ DeleteToken(n) \/ PatchToken(n)
      PROVE  Moved(n)
  <2>1. Goto(n, "done")
    BY <1>4 DEF Remove, SetUserPermissions, SetUserDeniedCapabilities, DeleteToken, PatchToken, Return
  <2>2. Active(n)
    BY <1>4 DEF Remove, SetUserPermissions, SetUserDeniedCapabilities, DeleteToken, PatchToken,
                Doing, Active
  <2> QED
    BY <2>1, <2>2, GotoMoves
<1> QED
  BY <1>1, <1>2, <1>3, <1>4

LEMMA VerifyMoves ==
  ASSUME AccountsInv, NEW n \in Operations, VerifyCredential(n)
  PROVE  Moved(n)
<1>1. PICK row, pc : /\ op' = [op EXCEPT ![n] = Onto([op[n] EXCEPT !.row = row], pc)]
                     /\ pc \in {"done", "rehash", IF Kind(n) = "login" THEN "resolve" ELSE "put"}
  <2> DEFINE row == user[Of(n)]
             method == Password(n)
             onward == IF Kind(n) = "login" THEN "resolve" ELSE "put"
             rehash == method \in Passwords /\ row.stale
             pc == IF ~Verified(row, method) THEN "done" ELSE IF rehash THEN "rehash" ELSE onward
  <2>1. op' = [op EXCEPT ![n] = Onto([op[n] EXCEPT !.row = row], pc)]
    BY DEF VerifyCredential
  <2>2. pc \in {"done", "rehash", IF Kind(n) = "login" THEN "resolve" ELSE "put"}
    <3> HIDE DEF row, method, rehash
    <3> QED
      OBVIOUS
  <2> HIDE DEF row, pc
  <2> QED
    BY <2>1, <2>2
<1>2. op[n].pc = "verify" /\ Active(n) /\ DoingShape(op[n])
  BY DEF VerifyCredential, Doing, Active, AccountsInv, AccountShapes
<1>3. \/ op[n].job.kind = "login" /\ Places(op[n].job) = {"verify", "rehash", "resolve", "save"}
      \/ /\ op[n].job.kind # "login"
         /\ Places(op[n].job) =
              {"cached", "verify", "rehash", "put", "principal", "account", "bundles"}
  BY <1>2, PlaceKinds
<1>4. pc = "done" \/ pc \in Places(op[n].job) \ {"idle", "account", "bundles"}
  BY <1>1, <1>3 DEF Kind
<1> DEFINE o == [op[n] EXCEPT !.row = row]
<1>5. DoingShape(o) /\ o.job = op[n].job /\ o.owner = op[n].owner /\ o.in = op[n].in
  BY <1>2, RowRead
<1>6. op' = [op EXCEPT ![n] = Onto(o, pc)]
  BY <1>1
<1> HIDE DEF o
<1> QED
  BY <1>2, <1>4, <1>5, <1>6, OntoMoves

LEMMA LoginMoves ==
  ASSUME AccountsInv, NEW n \in Operations,
         Rehash(n) \/ SaveByID(n) \/ BasicCached(n) \/ BasicPut(n)
  PROVE  Moved(n)
<1>1. ASSUME Rehash(n) PROVE Moved(n)
  <2>1. Goto(n, IF Kind(n) = "login" THEN "resolve" ELSE "put")
    BY <1>1 DEF Rehash
  <2>2. op[n].pc = "rehash" /\ Active(n)
    BY <1>1 DEF Rehash, Doing, Active
  <2>3. \/ op[n].job.kind = "login" /\ Places(op[n].job) = {"verify", "rehash", "resolve", "save"}
        \/ /\ op[n].job.kind # "login"
           /\ Places(op[n].job) =
                {"cached", "verify", "rehash", "put", "principal", "account", "bundles"}
    BY <2>2, PlaceKinds
  <2>4. PICK pc : Goto(n, pc) /\ pc \in Places(op[n].job) \ {"idle", "account", "bundles"}
    BY <2>1, <2>3 DEF Kind
  <2> QED
    BY <2>2, <2>4, GotoMoves
<1>2. ASSUME SaveByID(n) PROVE Moved(n)
  <2>1. Goto(n, "done") /\ Active(n)
    BY <1>2 DEF SaveByID, Return, Doing, Active
  <2> QED
    BY <2>1, GotoMoves
<1>3. ASSUME BasicCached(n) \/ BasicPut(n) PROVE Moved(n)
  <2>1. PICK pc : Goto(n, pc) /\ pc \in {"principal", "verify"}
    BY <1>3 DEF BasicCached, BasicPut
  <2>2. op[n].pc \in {"cached", "put"} /\ Active(n)
    BY <1>3 DEF BasicCached, BasicPut, Doing, Active
  <2>3. Places(op[n].job) =
          {"cached", "verify", "rehash", "put", "principal", "account", "bundles"}
    BY <2>2, PlaceKinds
  <2> QED
    BY <2>1, <2>2, <2>3, GotoMoves
<1> QED
  BY <1>1, <1>2, <1>3

\* The two places where two fields of an operation are set at once.
LEMMA OwnerSet ==
  ASSUME AccountsInv, NEW n \in Operations, NEW owner, NEW pc,
         op' = [op EXCEPT ![n].owner = owner, ![n].pc = pc]
  PROVE  /\ DOMAIN op' = Operations /\ \A m \in Operations \ {n} : op'[m] = op[m]
         /\ op'[n] = [job |-> op[n].job, pc |-> pc, row |-> op[n].row, owner |-> owner,
                      in |-> op[n].in, caps |-> op[n].caps]
<1>1. DOMAIN op = Operations /\ DoingShape(op[n])
  BY DEF AccountsInv, AccountShapes
<1>2. DOMAIN op' = Operations /\ \A m \in Operations \ {n} : op'[m] = op[m]
  BY <1>1
<1> DEFINE a == [op[n] EXCEPT !.owner = owner]
<1>3. op'[n] = [a EXCEPT !.pc = pc]
  BY <1>1
<1>4. a = [job |-> op[n].job, pc |-> op[n].pc, row |-> op[n].row, owner |-> owner,
           in |-> op[n].in, caps |-> op[n].caps]
  BY <1>1 DEF DoingShape
<1> HIDE DEF a
<1>5. /\ DoingShape(a) /\ a.job = op[n].job /\ a.row = op[n].row /\ a.owner = owner
      /\ a.in = op[n].in /\ a.caps = op[n].caps
  BY <1>4 DEF DoingShape
<1>6. [a EXCEPT !.pc = pc] = [job |-> op[n].job, pc |-> pc, row |-> op[n].row, owner |-> owner,
                              in |-> op[n].in, caps |-> op[n].caps]
  BY <1>5 DEF DoingShape
<1> QED
  BY <1>2, <1>3, <1>6

LEMMA RowSet ==
  ASSUME AccountsInv, NEW n \in Operations, NEW row, NEW pc,
         op' = [op EXCEPT ![n].row = row, ![n].pc = pc]
  PROVE  /\ DOMAIN op' = Operations /\ \A m \in Operations \ {n} : op'[m] = op[m]
         /\ op'[n] = [job |-> op[n].job, pc |-> pc, row |-> row, owner |-> op[n].owner,
                      in |-> op[n].in, caps |-> op[n].caps]
<1>1. DOMAIN op = Operations /\ DoingShape(op[n])
  BY DEF AccountsInv, AccountShapes
<1>2. DOMAIN op' = Operations /\ \A m \in Operations \ {n} : op'[m] = op[m]
  BY <1>1
<1> DEFINE a == [op[n] EXCEPT !.row = row]
<1>3. op'[n] = [a EXCEPT !.pc = pc]
  BY <1>1
<1>4. a = [job |-> op[n].job, pc |-> op[n].pc, row |-> row, owner |-> op[n].owner,
           in |-> op[n].in, caps |-> op[n].caps]
  BY <1>1 DEF DoingShape
<1> HIDE DEF a
<1>5. /\ DoingShape(a) /\ a.job = op[n].job /\ a.row = row /\ a.owner = op[n].owner
      /\ a.in = op[n].in /\ a.caps = op[n].caps
  BY <1>4 DEF DoingShape
<1>6. [a EXCEPT !.pc = pc] = [job |-> op[n].job, pc |-> pc, row |-> row, owner |-> op[n].owner,
                              in |-> op[n].in, caps |-> op[n].caps]
  BY <1>5 DEF DoingShape
<1> QED
  BY <1>2, <1>3, <1>6

LEMMA ResolveMoves ==
  ASSUME AccountsInv, NEW n \in Operations, ResolveSessionUser(n)
  PROVE  Moved(n)
<1>1. op[n].pc = "resolve" /\ Placed(n) /\ DoingShape(op[n])
  BY DEF ResolveSessionUser, Doing, AccountsInv, AccountShapes
<1>2. Places(op[n].job) = {"verify", "rehash", "resolve", "save"} /\ op[n].job.of \in Users
  BY <1>1, PlaceKinds
<1>3. PICK owner \in Users \cup {Nobody} : op' = [op EXCEPT ![n].owner = owner, ![n].pc = "save"]
  BY <1>2 DEF ResolveSessionUser, Of
<1>4. /\ DOMAIN op' = Operations /\ \A m \in Operations \ {n} : op'[m] = op[m]
      /\ op'[n] = [job |-> op[n].job, pc |-> "save", row |-> op[n].row, owner |-> owner,
                   in |-> op[n].in, caps |-> op[n].caps]
  BY <1>3, OwnerSet
<1>5. /\ DoingShape(op[n])' /\ op'[n].job = op[n].job /\ op'[n].pc = "save"
      /\ op'[n].owner = owner /\ op'[n].in = op[n].in
  BY <1>4 DEF DoingShape
<1>6. Placed(n)' /\ ~op'[n].in
  BY <1>1, <1>2, <1>5 DEF Placed, Active
<1> QED
  BY <1>4, <1>5, <1>6 DEF Moved

-----------------------------------------------------------------------------
\* The steps of a request that resolve and answer.
LEMMA PrincipalMoves ==
  ASSUME AccountsInv, NEW n \in Operations, PrincipalForUser(n)
  PROVE  Moved(n)
<1>1. op[n].pc = "principal" /\ Active(n) /\ Placed(n) /\ Covers(n) /\ DoingShape(op[n])
  BY DEF PrincipalForUser, Doing, Active, AccountsInv, AccountShapes
<1>2. /\ op[n].job.kind = "request" /\ op[n].job.by \in Passwords \cup {"user"}
      /\ op[n].job.of \in Users
  BY <1>1, PlaceKinds
<1>3. CASE ~(Row(n).exists /\ ~Row(n).disabled)
  BY <1>1, <1>3, GotoMoves DEF PrincipalForUser
<1>4. CASE Row(n).exists /\ ~Row(n).disabled
  <2>1. op' = [op EXCEPT ![n] = Onto(op[n], "account")]
    BY <1>4 DEF PrincipalForUser, Goto
  <2>2. DOMAIN op' = Operations /\ op'[n] = Onto(op[n], "account")
        /\ \A m \in Operations \ {n} : op'[m] = op[m]
    BY <2>1, OpAt
  <2>3. /\ DoingShape(op[n])' /\ op'[n].pc = "account" /\ op'[n].job = op[n].job
        /\ op'[n].owner = op[n].owner /\ op'[n].in = op[n].in
    BY <1>1, <2>2, OntoFields DEF DoingShape
  <2>4. Holds(op[n]) /\ Holder(op[n]) = op[n].job.of
    BY <1>2, <1>4 DEF Holds, ByToken, Holder, Row, Of, Passwords
  <2>5. limit[n].in
    BY <1>1, <1>2, <2>4 DEF Covers
  <2>6. "account" \in Places(op[n].job)
    BY <1>2 DEF Places, Passwords
  <2>7. Placed(n)' /\ ~op'[n].in
    BY <1>1, <1>2, <2>3, <2>4, <2>6 DEF Placed, Active, Holder
  <2> QED
    BY <2>2, <2>3, <2>5, <2>7 DEF Moved
<1> QED
  BY <1>3, <1>4

LEMMA OwnedFields ==
  ASSUME NEW o, DoingShape(o), NEW owner, NEW pc
  PROVE  [o EXCEPT !.owner = owner, !.pc = pc] =
           [job |-> o.job, pc |-> pc, row |-> o.row, owner |-> owner, in |-> o.in, caps |-> o.caps]
<1> DEFINE a == [o EXCEPT !.owner = owner]
<1>1. a = [job |-> o.job, pc |-> o.pc, row |-> o.row, owner |-> owner, in |-> o.in, caps |-> o.caps]
  BY DEF DoingShape
<1> HIDE DEF a
<1>2. DoingShape(a) /\ a.job = o.job /\ a.row = o.row /\ a.owner = owner /\ a.in = o.in /\ a.caps = o.caps
  BY <1>1 DEF DoingShape
<1>3. [a EXCEPT !.pc = pc] =
        [job |-> o.job, pc |-> pc, row |-> o.row, owner |-> owner, in |-> o.in, caps |-> o.caps]
  BY <1>2 DEF DoingShape
<1>4. [o EXCEPT !.owner = owner, !.pc = pc] = [a EXCEPT !.pc = pc]
  BY Zenon DEF a
<1> QED
  BY <1>3, <1>4

LEMMA LoadMoves ==
  ASSUME AccountsInv, NEW n \in Operations, LoadByID(n)
  PROVE  Moved(n)
<1>1. op[n].pc = "load" /\ Active(n) /\ Placed(n) /\ Covers(n) /\ DoingShape(op[n])
  BY DEF LoadByID, Doing, Active, AccountsInv, AccountShapes
<1>2. op[n].job.kind = "request" /\ op[n].job.by = "session" /\ op[n].job.of \in Operations
  BY <1>1, PlaceKinds
<1>3. limit[n].in
  BY <1>1, <1>2 DEF Covers, Holds, ByToken
<1>4. CASE session[Of(n)] \in {"none", Nobody}
  <2> DEFINE known == session[Of(n)] = Nobody
             o == [EndedOp EXCEPT !.in = known]
  <2>1. op' = [op EXCEPT ![n] = o]
    BY <1>4 DEF LoadByID
  <2>2. o = [job |-> EndedOp.job, pc |-> EndedOp.pc, row |-> EndedOp.row, owner |-> EndedOp.owner,
             in |-> known, caps |-> EndedOp.caps]
    BY EndedFields DEF DoingShape
  <2> HIDE DEF o
  <2>3. /\ DOMAIN op' = Operations /\ op'[n] = o /\ \A m \in Operations \ {n} : op'[m] = op[m]
    BY <2>1, OpAt
  <2>4. /\ DoingShape(op[n])' /\ op'[n].pc = "done" /\ op'[n].owner = "none" /\ op'[n].caps = {}
    BY <2>2, <2>3, EndedFields DEF DoingShape
  <2>5. Placed(n)'
    BY <2>4 DEF Placed, Active
  <2> QED
    BY <1>3, <2>3, <2>4, <2>5 DEF Moved
<1>5. CASE session[Of(n)] \notin {"none", Nobody}
  <2> DEFINE owner == session[Of(n)]
             o == [op[n] EXCEPT !.owner = owner, !.pc = "account"]
  <2>1. op' = [op EXCEPT ![n] = o]
    BY <1>5 DEF LoadByID
  <2>2. owner \in Users
    BY <1>2, <1>5 DEF Of, AccountsInv, AccountShapes
  <2> HIDE DEF owner
  <2>3. o = [job |-> op[n].job, pc |-> "account", row |-> op[n].row, owner |-> owner,
             in |-> op[n].in, caps |-> op[n].caps]
    BY <1>1, OwnedFields, Zenon
  <2> HIDE DEF o
  <2>4. /\ DOMAIN op' = Operations /\ op'[n] = o /\ \A m \in Operations \ {n} : op'[m] = op[m]
    BY <2>1, OpAt
  <2>5. /\ DoingShape(op[n])' /\ op'[n].pc = "account" /\ op'[n].owner = owner
        /\ op'[n].job = op[n].job /\ op'[n].in = op[n].in
    BY <2>3, <2>4 DEF DoingShape
  <2>6. "account" \in Places(op[n].job)
    BY <1>2 DEF Places, Passwords
  <2>7. Placed(n)' /\ ~op'[n].in
    BY <1>1, <1>2, <2>2, <2>5, <2>6 DEF Placed, Active, Holder
  <2> QED
    BY <1>3, <2>4, <2>5, <2>7 DEF Moved
<1> QED
  BY <1>4, <1>5

LEMMA AnsweredFields ==
  ASSUME NEW o, DoingShape(o), NEW in, NEW caps
  PROVE  [o EXCEPT !.in = in, !.caps = caps] =
           [job |-> o.job, pc |-> o.pc, row |-> o.row, owner |-> o.owner, in |-> in, caps |-> caps]
<1> DEFINE a == [o EXCEPT !.in = in]
<1>1. a = [job |-> o.job, pc |-> o.pc, row |-> o.row, owner |-> o.owner, in |-> in, caps |-> o.caps]
  BY DEF DoingShape
<1> HIDE DEF a
<1>2. DoingShape(a) /\ a.job = o.job /\ a.pc = o.pc /\ a.row = o.row /\ a.owner = o.owner /\ a.in = in
  BY <1>1 DEF DoingShape
<1>3. [a EXCEPT !.caps = caps] =
        [job |-> o.job, pc |-> o.pc, row |-> o.row, owner |-> o.owner, in |-> in, caps |-> caps]
  BY <1>2 DEF DoingShape
<1>4. [o EXCEPT !.in = in, !.caps = caps] = [a EXCEPT !.caps = caps]
  BY Zenon DEF a
<1> QED
  BY <1>3, <1>4

\* A request is answered within its limit.
LEMMA AnswerMoves ==
  ASSUME AccountsInv, NEW n \in Operations, NEW caps, NEW kind, NEW id,
         AnswerPrincipal(n, caps, kind, id),
         limit[n].in, caps \subseteq limit[n].given \ limit[n].denied
  PROVE  Moved(n)
<1> DEFINE o == [EndedOp EXCEPT !.in = TRUE, !.caps = caps]
<1>1. op' = [op EXCEPT ![n] = o]
  BY DEF AnswerPrincipal
<1>2. DoingShape(EndedOp)
  BY EndedFields
<1>3. o = [job |-> EndedOp.job, pc |-> EndedOp.pc, row |-> EndedOp.row, owner |-> EndedOp.owner,
           in |-> TRUE, caps |-> caps]
  BY <1>2, AnsweredFields, Zenon
<1> HIDE DEF o
<1>4. DOMAIN op' = Operations /\ op'[n] = o /\ \A m \in Operations \ {n} : op'[m] = op[m]
  BY <1>1, OpAt
<1>5. DoingShape(op[n])' /\ op'[n].pc = "done" /\ op'[n].owner = "none" /\ op'[n].caps = caps
  BY <1>3, <1>4, EndedFields DEF DoingShape
<1>6. Placed(n)'
  BY <1>5 DEF Placed, Active
<1> QED
  BY <1>4, <1>5, <1>6 DEF Moved

LEMMA AccountMoves ==
  ASSUME AccountsInv, NEW n \in Operations, Account(n)
  PROVE  Moved(n)
<1>1. op[n].pc = "account" /\ Active(n) /\ Placed(n) /\ Covers(n) /\ Resolved(n) /\ DoingShape(op[n])
  BY DEF Account, Doing, Active, AccountsInv, AccountShapes
<1>2. op[n].job.kind = "request" /\ op[n].job.by \in Passwords \cup {"user", "session"}
  BY <1>1, PlaceKinds
<1>3. Owner(n) = Holder(op[n]) /\ Owner(n) \in Users /\ ~ByToken(op[n]) /\ limit[n].in
  BY <1>1, <1>2 DEF Owner, Holder, Of, Placed, Resolved, ByToken, Passwords
<1> DEFINE row == user[Owner(n)]
<1>4. /\ Granted(op[n]) = IF row.superadmin THEN Capabilities ELSE grant[Owner(n)]
      /\ row.exists => Denied(op[n]) = row.denied
  BY <1>3 DEF Granted, Denied
<1>5. Granted(op[n]) \subseteq limit[n].given /\ limit[n].denied \subseteq Denied(op[n])
  BY <1>1, <1>2 DEF Covers
<1> HIDE DEF row
<1>6. CASE row.exists /\ ~row.superadmin
  <2>1. op' = [op EXCEPT ![n].row = row, ![n].pc = "bundles"]
    BY <1>6 DEF Account, row
  <2>2. /\ DOMAIN op' = Operations /\ \A m \in Operations \ {n} : op'[m] = op[m]
        /\ op'[n] = [job |-> op[n].job, pc |-> "bundles", row |-> row, owner |-> op[n].owner,
                     in |-> op[n].in, caps |-> op[n].caps]
    BY <2>1, RowSet
  <2>3. /\ DoingShape(op[n])' /\ op'[n].pc = "bundles" /\ op'[n].owner = op[n].owner
        /\ op'[n].job = op[n].job /\ op'[n].in = op[n].in /\ op'[n].row = row
    BY <2>2 DEF DoingShape
  <2>4. "bundles" \in Places(op[n].job)
    BY <1>2 DEF Places, Passwords
  <2>5. Placed(n)' /\ ~op'[n].in
    BY <1>1, <1>3, <2>3, <2>4 DEF Placed, Active, Holder
  <2>6. limit[n].denied \subseteq op'[n].row.denied
    BY <1>4, <1>5, <1>6, <2>3
  <2> QED
    BY <1>3, <2>2, <2>3, <2>5, <2>6 DEF Moved
<1>7. CASE ~(row.exists /\ ~row.superadmin)
  <2>1. AnswerPrincipal(n, Only(row.exists, Capabilities \ row.denied), "user", Owner(n))
    BY <1>7 DEF Account, row
  <2>2. Only(row.exists, Capabilities \ row.denied) \subseteq limit[n].given \ limit[n].denied
    BY <1>4, <1>5, <1>7 DEF Only
  <2> QED
    BY <1>3, <2>1, <2>2, AnswerMoves
<1> QED
  BY <1>6, <1>7

LEMMA BundlesMoves ==
  ASSUME AccountsInv, NEW n \in Operations, Bundles(n)
  PROVE  Moved(n)
<1>1. op[n].pc = "bundles" /\ Active(n) /\ Placed(n) /\ Covers(n) /\ Resolved(n)
  BY DEF Bundles, Doing, Active, AccountsInv
<1>2. op[n].job.kind = "request" /\ op[n].job.by \in Passwords \cup {"user", "session"}
  BY <1>1, PlaceKinds
<1>3. Owner(n) = Holder(op[n]) /\ Owner(n) \in Users /\ ~ByToken(op[n]) /\ limit[n].in
  BY <1>1, <1>2 DEF Owner, Holder, Of, Placed, Resolved, ByToken, Passwords
<1>4. Granted(op[n]) = IF user[Owner(n)].superadmin THEN Capabilities ELSE grant[Owner(n)]
  BY <1>3 DEF Granted
<1>5. grant[Owner(n)] \subseteq Granted(op[n])
  <2>1. grant[Owner(n)] \subseteq Capabilities
    BY <1>3 DEF AccountsInv, AccountShapes
  <2> QED
    BY <1>4, <2>1
<1>6. Granted(op[n]) \subseteq limit[n].given /\ limit[n].denied \subseteq op[n].row.denied
  BY <1>1, <1>2 DEF Covers, Resolved
<1>7. grant[Owner(n)] \ op[n].row.denied \subseteq limit[n].given \ limit[n].denied
  BY <1>5, <1>6
<1>8. AnswerPrincipal(n, grant[Owner(n)] \ op[n].row.denied, "user", Owner(n))
  BY DEF Bundles
<1> QED
  BY <1>3, <1>7, <1>8, AnswerMoves

LEMMA TokenMoves ==
  ASSUME AccountsInv, NEW n \in Operations, TokenIdentity(n)
  PROVE  Moved(n)
<1>1. op[n].pc = "token" /\ Active(n) /\ Placed(n) /\ Covers(n)
  BY DEF TokenIdentity, Doing, Active, AccountsInv
<1>2. op[n].job.kind = "request" /\ ByToken(op[n])
  BY <1>1, PlaceKinds
<1>3. CASE token[Of(n)].active
  <2>1. Holds(op[n]) /\ Granted(op[n]) = token[Of(n)].scopes /\ Denied(op[n]) = {}
    BY <1>2, <1>3 DEF Holds, Granted, Denied, Of
  <2>2. limit[n].in /\ TokenReport(token[Of(n)]) \subseteq limit[n].given \ limit[n].denied
    BY <1>1, <1>2, <2>1 DEF Covers, TokenReport
  <2>3. AnswerPrincipal(n, TokenReport(token[Of(n)]), "minted", Of(n))
    BY <1>3 DEF TokenIdentity
  <2> QED
    BY <2>2, <2>3, AnswerMoves
<1>4. CASE ~token[Of(n)].active
  BY <1>1, <1>4, GotoMoves DEF TokenIdentity, Return
<1> QED
  BY <1>3, <1>4

-----------------------------------------------------------------------------
\* Every step keeps the tables typed.
LEMMA TablesKept ==
  ASSUME AccountsInv, AccountsNext
  PROVE  TablesTyped'
<1>1. /\ grant \in [Users -> SUBSET Capabilities]
      /\ session \in [Operations -> Users \cup {"none", Nobody}]
  BY DEF AccountsInv, AccountShapes
<1>2. ASSUME NEW n \in Operations, NEW job, Begin(n, job) PROVE TablesTyped'
  BY <1>1, <1>2 DEF Begin, tables, TablesTyped
<1>3. ASSUME NEW n \in Operations, Read(n) \/ GuardLastSuperadmin(n) \/ WriteUser(n)
      PROVE  TablesTyped'
  BY <1>1, <1>3 DEF Read, GuardLastSuperadmin, WriteUser, tables, TablesTyped
<1>4. ASSUME NEW n \in Operations, NEW fault \in BOOLEAN, Sweep(n, fault) PROVE TablesTyped'
  BY <1>1, <1>4 DEF Sweep, TablesTyped
<1>5. ASSUME NEW n \in Operations, Remove(n) PROVE TablesTyped'
  BY <1>1, <1>5 DEF Remove, TablesTyped
<1>6. ASSUME NEW n \in Operations, SetUserPermissions(n) PROVE TablesTyped'
  BY <1>1, <1>6 DEF SetUserPermissions, Only, TablesTyped
<1>7. ASSUME NEW n \in Operations, SetUserDeniedCapabilities(n) \/ DeleteToken(n) \/ PatchToken(n)
      PROVE  TablesTyped'
  BY <1>1, <1>7 DEF SetUserDeniedCapabilities, DeleteToken, PatchToken, TablesTyped
<1>8. ASSUME NEW n \in Operations, VerifyCredential(n) \/ Rehash(n) \/ ResolveSessionUser(n)
      PROVE  TablesTyped'
  BY <1>1, <1>8 DEF VerifyCredential, Rehash, ResolveSessionUser, tables, TablesTyped
<1>9. ASSUME NEW n \in Operations, SaveByID(n) PROVE TablesTyped'
  <2>1. op[n].owner \in Users \cup {"none", Nobody}
    BY DEF AccountsInv, Placed
  <2> QED
    BY <1>1, <1>9, <2>1 DEF SaveByID, TablesTyped
<1>10. ASSUME NEW n \in Operations,
              BasicCached(n) \/ BasicPut(n) \/ PrincipalForUser(n) \/ LoadByID(n)
       PROVE  TablesTyped'
  BY <1>1, <1>10 DEF BasicCached, BasicPut, PrincipalForUser, LoadByID, tables, TablesTyped
<1>11. ASSUME NEW n \in Operations, Account(n) \/ Bundles(n) \/ TokenIdentity(n)
       PROVE  TablesTyped'
  BY <1>1, <1>11 DEF Account, Bundles, TokenIdentity, AnswerPrincipal, tables, TablesTyped
<1>12. ASSUME Forget PROVE TablesTyped'
  BY <1>1, <1>12 DEF Forget, TablesTyped
<1>13. ASSUME NEW k \in Operations, DeleteByID(k) PROVE TablesTyped'
  BY <1>1, <1>13 DEF DeleteByID, TablesTyped
<1> QED
  BY <1>2, <1>3, <1>4, <1>5, <1>6, <1>7, <1>8, <1>9, <1>10, <1>11, <1>12, <1>13 DEF AccountsNext

\* Every step keeps the invariant.
LEMMA AccountsStep ==
  ASSUME AccountsInv, [AccountsNext]_accountVars
  PROVE  AccountsInv'
<1>1. CASE UNCHANGED accountVars
  BY <1>1 DEF accountVars, AccountsInv, AccountShapes, DoingShape, LimitShape, Placed, Covers, Resolved,
              RevokedRefused, Active, Holder, Holds, Granted, Denied, ByToken
<1>2. CASE AccountsNext
  <2>1. TablesTyped' /\ Observe
    BY <1>2, TablesKept DEF AccountsNext
  <2>2. ASSUME NEW n \in Operations, Moved(n) PROVE AccountsInv'
    BY <2>1, <2>2, MovedKeeps
  <2>3. ASSUME NEW n \in Operations,
               NEW job \in AccountChanges \cup Requests \cup SessionRequests, Begin(n, job)
        PROVE  AccountsInv'
    BY <2>2, <2>3, BeginMoves
  <2>4. ASSUME NEW n \in Operations,
               \/ Read(n) \/ GuardLastSuperadmin(n) \/ WriteUser(n)
               \/ \E fault \in BOOLEAN : Sweep(n, fault)
               \/ Remove(n) \/ SetUserPermissions(n) \/ SetUserDeniedCapabilities(n)
               \/ DeleteToken(n) \/ PatchToken(n)
        PROVE  AccountsInv'
    BY <2>2, <2>4, ReadMoves, AdminMoves
  <2>5. ASSUME NEW n \in Operations,
               \/ VerifyCredential(n) \/ Rehash(n) \/ ResolveSessionUser(n) \/ SaveByID(n)
               \/ BasicCached(n) \/ BasicPut(n)
        PROVE  AccountsInv'
    BY <2>2, <2>5, VerifyMoves, LoginMoves, ResolveMoves
  <2>6. ASSUME NEW n \in Operations,
               \/ PrincipalForUser(n) \/ LoadByID(n) \/ Account(n) \/ Bundles(n) \/ TokenIdentity(n)
        PROVE  AccountsInv'
    BY <2>2, <2>6, PrincipalMoves, LoadMoves, AccountMoves, BundlesMoves, TokenMoves
  <2>7. ASSUME Forget \/ \E k \in Operations : DeleteByID(k) PROVE AccountsInv'
    <3>1. op' = op
      BY <2>7 DEF Forget, DeleteByID
    <3>2. \A n \in Operations :
            /\ DoingShape(op[n])' /\ Placed(n)' /\ Covers(n)' /\ Resolved(n)'
            /\ op'[n].in => limit'[n].in /\ op'[n].caps \subseteq limit'[n].given \ limit'[n].denied
      BY <2>1, <3>1, AloneKept
    <3>3. \A n \in Operations : LimitShape(limit[n])' /\ DOMAIN limit' = Operations
      BY <2>1, ObserveRecords DEF AccountsInv
    <3>4. DOMAIN limit' = Operations /\ DOMAIN op' = Operations
      BY <2>1, <3>1 DEF Observe, AccountsInv, AccountShapes
    <3>5. AccountShapes'
      BY <2>1, <3>2, <3>3, <3>4 DEF AccountShapes, TablesTyped
    <3> QED
      BY <3>2, <3>5 DEF AccountsInv, RevokedRefused
  <2> QED
    BY <1>2, <2>3, <2>4, <2>5, <2>6, <2>7 DEF AccountsNext
<1> QED
  BY <1>1, <1>2

LEMMA AccountsStart ==
  ASSUME AccountsInit
  PROVE  AccountsInv
<1>1. \A n \in Operations : op[n] = Unbegun /\ limit[n] = Nothing
  BY DEF AccountsInit
<1>2. LimitShape(Nothing)
  BY DEF LimitShape, Nothing
<1>3. AccountShapes
  BY <1>1, <1>2, UnbegunFields DEF AccountsInit, AccountShapes, LimitShape
<1>4. \A n \in Operations : Placed(n) /\ Covers(n) /\ Resolved(n)
  BY <1>1, UnbegunFields DEF Placed, Covers, Resolved, Active
<1>5. RevokedRefused
  BY <1>1, UnbegunFields DEF RevokedRefused
<1> QED
  BY <1>3, <1>4, <1>5 DEF AccountsInv

\* For any users, tokens and operations, however they overlap: a request is given a
\* principal only when its user was enabled, or its API token active, since it
\* began, and only capabilities granted and not denied since.
THEOREM RevokedRefusedAlways == AccountsSpec => []RevokedRefused
<1>1. AccountsInit => AccountsInv
  BY AccountsStart
<1>2. AccountsInv /\ [AccountsNext]_accountVars => AccountsInv'
  BY AccountsStep
<1>3. AccountsInv => RevokedRefused
  BY DEF AccountsInv
<1> QED
  BY <1>1, <1>2, <1>3, PTL DEF AccountsSpec
=============================================================================
