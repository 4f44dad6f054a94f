--------------------------- MODULE SystemFormats ---------------------------
(* The package formats of operating systems, and of plain files: what each *)
(* handler of registry/{generic,apt,rpm,alpine,...} does to the repository *)
(* and in which order, as programs of PackageSteps.                        *)
EXTENDS PackageSteps

(***************************************************************************)
(* generic: a file is its own entry; there is no index.                    *)
(***************************************************************************)
GenericListing == {"file"}
GenericUpload == <<Check, Guard("file"), Write("file")>>
GenericPromote == <<Guard("file"), Write("file")>>
GenericDeleteVersion == <<Need("file"), Erase("file")>>
GenericRemove == <<Need("file"), Erase("file")>>
Generic ==
  [file |-> "file", client |-> {"file"}, admin |-> GenericListing,
   publish |-> {GenericUpload}, promote |-> {GenericPromote},
   remove |-> {GenericRemove}, delete |-> {GenericDeleteVersion}]

GenericReads == {<<Pin("file")>>, <<Fetch("listing")>>}
GenericPrefetch == <<Fetch("listing"), Fetch("files"), Pin("file")>>
GenericPurge == {}
GenericVirtual == {<<First("file")>>}

(***************************************************************************)
(* apt: an index per distribution and component, kept beside the tree the  *)
(* clients read, which is made from it again after every change. One mutex *)
(* per repository, outside the registry object.                            *)
(***************************************************************************)
AptParseDeb == <<Check>>
AptLoadIndex == <<Load("index")>>
AptSaveIndex(step) == <<step>>
AptPackagesFiles == <<Copy("packages")>>
AptRegenerate ==
  AptLoadIndex \o AptPackagesFiles \o <<Copy("signature"), Copy("release")>>
AptAddDeb ==
  <<LockRepo, Write("pool")>> \o AptLoadIndex \o AptSaveIndex(Put("index"))
    \o AptRegenerate \o <<UnlockRepo>>
AptRemoveWhere ==
  <<LockRepo>> \o AptLoadIndex \o <<NeedRead>> \o AptSaveIndex(Cut("index")) \o <<Erase("pool")>>
    \o AptRegenerate \o <<UnlockRepo>>
AptUpload == AptParseDeb \o <<Guard("pool")>> \o AptAddDeb
AptPromote == <<Guard("pool")>> \o AptAddDeb
AptDeleteVersion == AptRemoveWhere

\* A file no index lists is deleted after the mutex is released.
AptRemoveOrphan ==
  <<Need("pool"), LockRepo>> \o AptLoadIndex
    \o <<Lack("index"), UnlockRepo, Erase("pool")>>
AptRemove == {AptRemoveWhere, AptRemoveOrphan}
AptListing == {"index"}
AptClient == {"packages", "release"}
Apt ==
  [file |-> "pool", client |-> AptClient, admin |-> AptListing,
   publish |-> {AptUpload}, promote |-> {AptPromote},
   remove |-> AptRemove, delete |-> {AptDeleteVersion}]

\* Release.gpg is dropped when the Release it signs changes; a Packages file is good
\* while the cached Release lists its digest.
AptFetch(s) ==
  CASE s = "pool" -> <<Pin("pool")>>
    [] s = "release" -> <<Renew("release", "signature")>>
    [] s = "signature" -> <<Renew("release", "signature"), Pin("signature")>>
    [] s = "packages" -> <<Verify("packages", "release")>>
AptReads == {AptFetch(s) : s \in {"pool", "release", "signature", "packages"}}
AptPrefetch == AptFetch("release") \o <<Cached("packages"), Pin("pool")>>
AptPurge == {"release", "signature", "packages"}
AptVirtual == {<<Timed("packages")>>, <<First("pool")>>}

(***************************************************************************)
(* rpm: the metadata of each package beside it, the repodata made from all *)
(* of them under the object's mutex. Files of the repodata are named by    *)
(* their digest and repomd.xml names them.                                 *)
(***************************************************************************)
RpmParse == <<Check>>
RpmLoadAll == <<Load("meta")>>
RpmSave == <<Write("rpm"), Write("meta")>>
RpmRegenerateLocked ==
  RpmLoadAll \o <<Copy("primary"), Copy("repomd"), Copy("signature")>>
RpmRegenerate == <<Lock>> \o RpmRegenerateLocked \o <<Unlock>>
RpmUpload == RpmParse \o <<Guard("rpm")>> \o RpmSave \o RpmRegenerate
RpmPromote == <<Guard("rpm")>> \o RpmSave \o RpmRegenerate
RpmDeletePackage == <<Erase("rpm"), Erase("meta")>>
RpmDeleteVersion == <<Need("meta")>> \o RpmDeletePackage \o RpmRegenerate
RpmRemove == <<Need("meta")>> \o RpmDeletePackage \o RpmRegenerate

\* A read of the repodata makes it when there is none.
RpmEnsureRepodata ==
  <<Unless("repomd"), Lock, Unless("repomd")>> \o RpmRegenerateLocked
    \o <<Unlock>>
RpmListing == {"meta"}
RpmClient == {"repomd"}
Rpm ==
  [file |-> "rpm", client |-> RpmClient, admin |-> RpmListing,
   publish |-> {RpmUpload}, promote |-> {RpmPromote},
   remove |-> {RpmRemove}, delete |-> {RpmDeleteVersion},
   read |-> {RpmEnsureRepodata}]

RpmReads == {<<Fetch("repomd")>>, <<Named("primary", "repomd")>>, <<Pin("rpm")>>}
RpmIndex == <<Fetch("repomd"), Named("primary", "repomd")>>
RpmPrefetch == RpmIndex \o <<Pin("rpm")>>
RpmPurge == {"repomd"}
RpmVirtual == {<<Keyed("primary")>>, <<First("rpm")>>}

(***************************************************************************)
(* alpine: the index of an architecture is made from the packages found,   *)
(* under the object's mutex; the metadata of a package that has none is    *)
(* made again.                                                             *)
(***************************************************************************)
AlpineParse == <<Check>>
AlpineArchRecords == <<Scan("apk", "meta")>>
\* Faulty: the files are walked before the mutex is taken.
FaultyAlpineRegenerate == AlpineArchRecords \o <<Lock, Copy("index"), Unlock>>
AlpineRegenerate == <<Lock>> \o AlpineArchRecords \o <<Copy("index"), Unlock>>
AlpineSave == <<Write("apk"), Write("meta")>> \o AlpineRegenerate
AlpineUpload == AlpineParse \o <<Guard("apk")>> \o AlpineSave
AlpinePromote == <<Guard("apk")>> \o AlpineSave
\* Faulty: the index is not made again.
FaultyAlpineDeleteFile == <<Erase("apk"), Erase("meta")>>
AlpineDeleteFile == <<Erase("apk"), Erase("meta")>> \o AlpineRegenerate
AlpineDeleteVersion == <<Need("meta")>> \o AlpineDeleteFile
AlpineRemove == <<Need("apk")>> \o AlpineDeleteFile
AlpineListing == {"meta"}
AlpineClient == {"index"}
Alpine ==
  [file |-> "apk", client |-> AlpineClient, admin |-> AlpineListing,
   publish |-> {AlpineUpload}, promote |-> {AlpinePromote},
   remove |-> {AlpineRemove}, delete |-> {AlpineDeleteVersion}]

AlpineReads == {<<Pin("apk")>>, <<Fetch("index")>>}
AlpinePrefetch == <<Fetch("index"), Pin("apk")>>
AlpinePurge == {"index"}
AlpineVirtual == {<<Merge("index")>>, <<First("apk")>>}

(***************************************************************************)
(* conda: the package and its record, then the repodata of its             *)
(* subdirectory made from the records, all under the object's mutex.       *)
(***************************************************************************)
CondaParse == <<Check>>
CondaRecords == <<Load("record")>>
CondaReindex == CondaRecords \o <<Copy("repodata"), Copy("zst")>>
\* Faulty: the guard is asked before the mutex is taken.
FaultyCondaPublish ==
  CondaParse \o <<Guard("package"), Lock, Write("package"), Write("record")>>
    \o CondaReindex \o <<Unlock>>
CondaPublish ==
  CondaParse \o <<Lock, Guard("package"), Write("package"), Write("record")>>
    \o CondaReindex \o <<Unlock>>
CondaUpload == <<Check>> \o CondaPublish
CondaPromote == CondaPublish
CondaDeleteFile == <<Erase("package"), Erase("record")>>
CondaDeleteVersion ==
  <<Lock, Need("record")>> \o CondaDeleteFile \o CondaReindex \o <<Unlock>>
CondaRemove == <<Need("package"), Lock>> \o CondaDeleteFile \o CondaReindex \o <<Unlock>>
CondaListing == {"record"}
CondaClient == {"repodata", "zst"}
Conda ==
  [file |-> "package", client |-> CondaClient, admin |-> CondaListing,
   publish |-> {CondaUpload}, promote |-> {CondaPromote},
   remove |-> {CondaRemove}, delete |-> {CondaDeleteVersion}]

CondaFetch(s) == IF s = "package" THEN <<Pin(s)>> ELSE <<Flow(s)>>
CondaRecordCached == <<Write("record")>>
CondaCachePackage == CondaFetch("package") \o <<Unless("record")>> \o CondaRecordCached
CondaReads == {CondaFetch(s) : s \in {"repodata", "channeldata"}} \cup {CondaCachePackage}
CondaPrefetch == CondaFetch("repodata") \o CondaCachePackage
CondaPurge == {"repodata", "channeldata"}
CondaVirtual == {<<Merge("repodata")>>, <<Merge("channeldata")>>, <<First("package")>>}

(***************************************************************************)
(* cran: the package and its record, then PACKAGES, which has the newest   *)
(* version of each package, made from the records, all under the object's  *)
(* mutex. The file of an older version is served from the archive: the     *)
(* path in its record follows it, and so does the slot here.               *)
(***************************************************************************)
CranParse == <<Check>>
CranRecords == <<Load("record")>>
CranArrangeSource == CranRecords
CranReindex == CranRecords \o <<Newest("packages"), Newest("gz")>>
CranPublish ==
  CranParse \o <<Lock, Guard("record"), Write("file"), Write("record")>>
    \o CranArrangeSource \o CranReindex \o <<Unlock>>
CranUpload == <<Check>> \o CranPublish
CranPromote == CranPublish
CranDeleteRecords ==
  <<Erase("file"), Erase("record")>> \o CranArrangeSource \o CranReindex
CranDeleteVersion == <<Lock, Need("record")>> \o CranDeleteRecords \o <<Unlock>>
CranRemove == <<Lock, Need("record")>> \o CranDeleteRecords \o <<Unlock>>
CranListing == {"record"}
CranClient == {"packages", "gz"}
Cran ==
  [file |-> "file", client |-> CranClient, admin |-> CranListing, newest |-> TRUE,
   publish |-> {CranUpload}, promote |-> {CranPromote},
   remove |-> {CranRemove}, delete |-> {CranDeleteVersion}]

CranFetch(s) == IF s = "file" THEN <<Pin(s)>> ELSE <<Flow(s)>>
CranRecordCached == <<Write("record")>>
CranCacheFile == CranFetch("file") \o <<Unless("record")>> \o CranRecordCached
CranReads == {CranFetch("packages"), CranFetch("gz"), CranCacheFile}
CranPrefetch == CranFetch("packages") \o <<Unless("record")>> \o CranCacheFile
CranPurge == {"packages", "gz"}
CranVirtual == {<<Latest("packages")>>, <<First("file")>>}

(***************************************************************************)
(* p2: a site is a tree of files, its metadata and its artifacts, and      *)
(* exists while it has one; an upload deletes the tree of the old site     *)
(* first. No mutex.                                                        *)
(***************************************************************************)
P2SiteFiles == <<Check>>
P2Touch == <<Write("info")>>
P2DeleteTree == <<Tree({"content", "jars"})>>
P2Replace(order) == P2DeleteTree \o order \o P2Touch

\* In the order of the archive; a promotion copies in the order of the names.
P2UploadZip ==
  {<<Check>> \o P2SiteFiles \o <<Guard("content")>> \o P2Replace(order) :
     order \in {<<Write("content"), Write("jars")>>, <<Write("jars"), Write("content")>>}}
P2UploadFile(s) == <<Check, Guard(s), Write(s)>> \o P2Touch
P2Promote == <<Guard("content")>> \o P2Replace(<<Write("content"), Write("jars")>>)
P2DeleteSite == <<NeedAny({"content", "jars"})>> \o P2DeleteTree \o <<Erase("info")>>
P2RemoveFile(s, t) == <<Need(s), Erase(s), Unless(t), Try(Erase("info"))>>
P2Remove == {P2DeleteSite, P2RemoveFile("content", "jars"), P2RemoveFile("jars", "content")}
P2Listing == {"content", "jars"}
P2Client == {"content"}
P2 ==
  [file |-> "jars", client |-> P2Client, admin |-> P2Client, found |-> P2Listing,
   publish |-> P2UploadZip \cup {P2UploadFile("jars") \o P2UploadFile("content")},
   promote |-> {P2Promote}, remove |-> P2Remove, delete |-> {P2DeleteSite}]

P2CacheRel(s) == IF s = "jars" THEN Pin(s) ELSE Fetch(s)
P2Reads == {<<P2CacheRel(s)>> : s \in {"index", "content", "artifacts", "jars"}}
P2Prefetch == <<Try(Fetch("index")), Try(Fetch("content")), Try(Fetch("artifacts"))>>
P2Purge == {"index", "content", "artifacts"}

P2Virtual == {<<Route("content")>>, <<Route("jars")>>}

(***************************************************************************)
(* vagrant: the box is streamed into its place before the object's mutex   *)
(* is taken, then an entry with its checksum is put into the document of   *)
(* the box's name. A promotion does not ask the guard.                     *)
(***************************************************************************)
VagrantReceiveBox == <<Stream("box")>>
VagrantWriteMeta(step) == <<step>>
VagrantAddVersion == <<Lock, Load("meta")>> \o VagrantWriteMeta(Put("meta")) \o <<Unlock>>
VagrantUpload == <<Check, Guard("meta")>> \o VagrantReceiveBox \o VagrantAddVersion
VagrantPromote == <<Write("box")>> \o VagrantAddVersion
VagrantStoreDelete ==
  <<Load("meta"), NeedRead, Erase("box")>> \o VagrantWriteMeta(Cut("meta"))
VagrantDeleteVersion == <<Lock>> \o VagrantStoreDelete \o <<Unlock>>
VagrantRemove == VagrantDeleteVersion
VagrantListing == {"meta"}
VagrantClient == {"meta"}
Vagrant ==
  [file |-> "box", client |-> VagrantClient, admin |-> VagrantListing,
   publish |-> {VagrantUpload}, promote |-> {VagrantPromote},
   remove |-> {VagrantRemove}, delete |-> {VagrantDeleteVersion}]

VagrantMetadata == <<Fetch("upstream")>>
VagrantProject == <<Write("meta")>>
VagrantFill == VagrantMetadata \o <<Pin("box")>>
VagrantServeBox == <<Unless("box")>> \o VagrantFill
VagrantReads == {VagrantMetadata \o VagrantProject, VagrantServeBox, <<Fetch("search")>>}
VagrantPrefetch == VagrantMetadata \o VagrantProject \o <<Unless("box")>> \o VagrantFill
VagrantPurge == {"upstream", "search", "meta"}
VagrantVirtual == {<<Merge("meta")>>, <<Merge("search")>>, <<First("box")>>}

(***************************************************************************)
(* gitlfs: objects named by their digest, so that one is never replaced,   *)
(* and one document of the file locks, changed under the object's mutex.   *)
(***************************************************************************)
GitlfsHasObject == <<Unless("object")>>
GitlfsBatch == <<Check>>
GitlfsUpload == <<Check>> \o GitlfsHasObject \o <<Check, Write("object")>>
GitlfsPromote == GitlfsHasObject \o <<Write("object")>>
GitlfsDeleteVersion == <<Need("object"), Erase("object")>>
\* Faulty: the locks are read before the mutex is taken.
FaultyGitlfsLocks(change) == <<Load("locks"), Lock>> \o change \o <<Unlock>>
GitlfsLocks(change) == <<Lock, Load("locks")>> \o change \o <<Unlock>>
GitlfsCreateLock == <<Check>> \o GitlfsLocks(<<Refuse("locks"), Put("locks")>>)
GitlfsUnlock == GitlfsLocks(<<NeedRead, Cut("locks")>>)
GitlfsListing == {"object"}
Gitlfs ==
  [file |-> "object", client |-> GitlfsListing, admin |-> GitlfsListing,
   addressed |-> TRUE, publish |-> {GitlfsBatch \o GitlfsUpload},
   promote |-> {GitlfsPromote}, delete |-> {GitlfsDeleteVersion},
   hold |-> {GitlfsCreateLock}, release |-> {GitlfsUnlock}, held |-> "locks"]

\* An object is streamed, and deleted when its digest is not its name.
GitlfsLookup == <<Pass("batch")>>
GitlfsFill == <<Pin("object")>>
GitlfsServeObject == <<Unless("object")>> \o GitlfsLookup \o GitlfsFill
GitlfsReads == {GitlfsServeObject, GitlfsLookup}
GitlfsPrefetch == <<Unless("object")>> \o GitlfsLookup \o GitlfsFill
GitlfsPurge == {}
GitlfsVirtual == {<<First("object")>>, <<Probe("object")>>}

(***************************************************************************)
(* huggingface: of the remote repository only (the hosted one is           *)
(* HubRepository): a revision is resolved to a commit, whose files do not  *)
(* change and are kept when their digests are right.                       *)
(***************************************************************************)
HuggingfaceResolveCommit(doc) ==
  IF doc = "commit" THEN <<Pin("commit")>> ELSE <<Fetch("refs"), Try(Write("commit"))>>
HuggingfaceFill(doc) == <<Named("file", doc)>>
HuggingfaceServeFile(doc) == HuggingfaceResolveCommit(doc) \o HuggingfaceFill(doc)
HuggingfaceProxyAPI == <<Fetch("api")>>
HuggingfaceReads ==
  {HuggingfaceResolveCommit(doc) : doc \in {"refs", "commit"}}
    \cup {HuggingfaceServeFile(doc) : doc \in {"refs", "commit"}} \cup {HuggingfaceProxyAPI}
HuggingfacePrefetch == HuggingfaceServeFile("refs")
HuggingfacePurge == {"refs", "tree", "api"}
HuggingfaceVirtual == {<<First("api")>>, <<Probe("file")>>}

(***************************************************************************)
(* docker: the proxied repository. A manifest and a blob are named by      *)
(* their digest; a tag is its pointer and the manifest written before it.  *)
(***************************************************************************)
DockerTagsList == <<Keep("tags")>>

\* refetchManifest of a tag that was never resolved: its error is dropped.
DockerRefetchManifest == Try(Pin("tag"))

\* A floating tag lasts its TTL, another one is resolved once.
DockerByTag == {<<Keep("floating")>>, <<DockerRefetchManifest, Cached("tag")>>}

DockerByDigest == <<Content("manifest", "floating")>>
DockerBlob == <<Content("blob", "floating")>>

\* The upstream's referrers when the index of the cached manifests has none; an
\* empty index when it fails.
DockerReferrers == <<Try(Pass("referrers"))>>

DockerReads == {DockerTagsList, DockerByDigest, DockerBlob, DockerReferrers} \cup DockerByTag

\* A tag is resolved as for a request; what its manifest names is fetched unless
\* it is stored.
DockerResolveRef == [floating |-> <<Keep("floating")>>,
                     tag |-> <<DockerRefetchManifest, Cached("tag")>>]
DockerPrefetchTree(doc) == <<Content("manifest", doc), Content("blob", doc)>>
DockerPrefetch ==
  {DockerResolveRef[doc] \o DockerPrefetchTree(doc) : doc \in DOMAIN DockerResolveRef}
DockerPurge == {"tags", "floating"}
DockerCatalogUnion == <<Merge("catalog")>>
DockerTagsUnion == <<Merge("tags")>>
DockerReferrersUnion == <<Merge("referrers")>>
DockerVirtual ==
  {DockerCatalogUnion, DockerTagsUnion, DockerReferrersUnion, <<First("manifest")>>}
=============================================================================
