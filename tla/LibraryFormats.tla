-------------------------- MODULE LibraryFormats --------------------------
(* The package formats of C and C++, Objective-C, browsers, Java and Go:   *)
(* what each handler of registry/{conan,cocoapods,bower,maven,goproxy}     *)
(* does to the repository and in which order, as programs of PackageSteps. *)
EXTENDS PackageSteps

(***************************************************************************)
(* conan: the files of a version (of one revision of it) and the list of   *)
(* its revisions, changed under the object's mutex after the file is       *)
(* there. A promotion does not ask the guard.                              *)
(***************************************************************************)
ConanParse == <<Check>>
ConanReceive == <<Check, Guard("file"), Stream("file")>>
ConanAddRevision == <<Write("revs")>>
ConanDropRevision == <<Erase("revs")>>
ConanUpload ==
  ConanParse \o ConanReceive \o <<Lock>> \o ConanAddRevision \o <<Unlock>>
ConanPromote ==
  {<<Lock>> \o order \o <<Unlock>> :
     order \in {<<Write("file")>> \o ConanAddRevision,
               ConanAddRevision \o <<Write("file")>>}}
ConanStoreDelete == <<Need("file"), Tree({"file", "revs"})>>
ConanDeleteVersion == <<Lock>> \o ConanStoreDelete \o <<Unlock>>
ConanRemove ==
  <<Lock, Need("file"), Erase("file")>> \o ConanDropRevision \o <<Unlock>>
ConanListing == {"file"}
ConanClient == {"revs"}
Conan ==
  [file |-> "file", client |-> ConanClient, admin |-> ConanListing,
   publish |-> {ConanUpload}, promote |-> ConanPromote,
   remove |-> {ConanRemove}, delete |-> {ConanDeleteVersion}]

\* The list of the files of a revision is kept for good, like the files.
ConanCacheTarget(s) == IF s = "list" THEN Pin(s) ELSE Fetch(s)
ConanFill == <<Pin("file")>>
ConanServeFile == <<Unless("file")>> \o ConanFill
ConanReads ==
  {<<ConanCacheTarget(s)>> : s \in {"search", "revs", "latest", "list"}}
    \cup {ConanServeFile}
ConanPrefetch == <<Fetch("search"), Fetch("latest"), Pin("list")>> \o ConanFill
ConanPurge == {"search", "revs", "latest"}
ConanVirtual ==
  {<<Merge("revs")>>, <<Merge("search")>>, <<Latest("latest")>>, <<First("file")>>}

(***************************************************************************)
(* cocoapods: the spec of a version and its archive, then the shard of the *)
(* index the pod is in, made again from the specs found, without a mutex.  *)
(***************************************************************************)
CocoapodsRead == <<Check>>
CocoapodsRebuild == <<Load("spec"), Copy("pods"), Copy("shard"), Copy("deprecated")>>
CocoapodsPublish ==
  {CocoapodsRead \o <<Check, Guard("spec"), archive, Write("spec")>>
     \o CocoapodsRebuild : archive \in {Write("zip"), Erase("zip")}}
CocoapodsPromote ==
  <<Guard("spec"), Write("zip"), Write("spec")>> \o CocoapodsRebuild
CocoapodsDeleteVersion ==
  <<Need("spec"), Erase("spec"), Erase("zip")>> \o CocoapodsRebuild
CocoapodsListing == {"spec"}
CocoapodsClient == {"shard"}
Cocoapods ==
  [file |-> "spec", client |-> CocoapodsClient, admin |-> CocoapodsListing,
   publish |-> CocoapodsPublish, promote |-> {CocoapodsPromote},
   delete |-> {CocoapodsDeleteVersion}]

CocoapodsReads ==
  {<<Fetch(s)>> : s \in {"pods", "deprecated", "shard"}}
    \cup {<<Pin("spec")>>, <<Pin("zip")>>}
CocoapodsPrefetch == <<Fetch("shard"), Pin("spec")>>
CocoapodsPurge == {"pods", "deprecated", "shard"}
CocoapodsVirtual ==
  {<<Merge("pods")>>, <<Merge("shard")>>, <<First("spec")>>, <<First("zip")>>}

(***************************************************************************)
(* bower: the archive of a version, its metadata, and the entry of the     *)
(* package, which goes with its last version unless it was registered by   *)
(* hand. No mutex.                                                         *)
(***************************************************************************)
BowerParse == <<Check>>
BowerPutEntry == <<Known("entry"), Enter("entry")>>
BowerUpload ==
  BowerParse \o <<Guard("archive"), Write("archive"), Write("meta")>> \o BowerPutEntry
BowerRegister == <<Check, Refuse("entry"), Enter("entry")>>
BowerPromote ==
  <<Guard("archive"), Write("archive"), Write("meta")>> \o BowerPutEntry
BowerStoreDelete ==
  <<Need("archive"), Erase("archive"), Erase("meta"), Remains("archive")>>
BowerDeleteVersion ==
  {BowerStoreDelete, BowerStoreDelete \o <<Leave("entry")>>,
   <<NeedAny({"entry", "archive"}), Clear({"archive", "meta"}), Leave("entry")>>}
BowerListing == {"archive"}
BowerClient == {"archive"}
Bower ==
  [file |-> "archive", client |-> BowerClient, admin |-> BowerListing,
   root |-> "entry", publish |-> {BowerUpload}, promote |-> {BowerPromote},
   delete |-> BowerDeleteVersion, tag |-> {BowerRegister}]

BowerFetchEntry == <<Fetch("entry")>>
BowerReads ==
  {<<Fetch(s)>> : s \in {"list", "search", "archives", "latest"}}
    \cup {BowerFetchEntry, <<Pin("archive")>>}
BowerPrefetch == BowerFetchEntry \o <<Pin("archive")>>
BowerPurge == {"list", "search", "archives", "latest", "entry"}
BowerVirtual == {<<Merge("list")>>, <<Merge("search")>>, <<First("archive")>>}

(***************************************************************************)
(* maven: every file with its checksums beside it; maven-metadata.xml is   *)
(* made from the versions found, without a mutex. A deploying client also  *)
(* puts its own metadata, which is merged with what is found. Snapshots    *)
(* are exempt from the guard and pruned: not followed here.                *)
(***************************************************************************)
MavenWriteWithChecksums(file, sums) == <<file, sums>>
MavenGenerate == <<Load("file")>>
MavenRegenerate ==
  MavenGenerate \o MavenWriteWithChecksums(Copy("metadata"), Copy("metasums"))
MavenTryRegenerate ==
  MavenGenerate \o <<Try(Copy("metadata")), Try(Copy("metasums"))>>
MavenPut ==
  <<Check, Guard("file")>> \o MavenWriteWithChecksums(Write("file"), Write("sums"))
    \o MavenTryRegenerate
MavenPutChecksum == <<Check, Need("file"), Write("sums")>>
MavenPutMetadata ==
  <<Check>> \o MavenGenerate
    \o MavenWriteWithChecksums(Put("metadata"), Put("metasums"))
MavenPromote ==
  <<Guard("file"), Write("file"), Try(Write("sums"))>> \o MavenRegenerate
MavenStoreDelete ==
  <<Need("file"), Erase("file"), Erase("sums"),
    Try(Leave("metadata")), Try(Leave("metasums"))>>
MavenDeleteVersion == MavenStoreDelete \o MavenRegenerate
MavenDelete ==
  <<Need("file"), Try(Erase("file")), Try(Erase("sums"))>> \o MavenTryRegenerate

\* A read of the metadata makes it when there is none.
MavenEnsureMetadata == <<Known("metadata")>> \o MavenTryRegenerate
MavenListing == {"file"}
MavenGet == {"metadata"}
Maven ==
  [file |-> "file", client |-> MavenGet, admin |-> MavenListing,
   publish |-> {MavenPut}, tag |-> {MavenPutChecksum, MavenPutMetadata},
   promote |-> {MavenPromote}, remove |-> {MavenDelete},
   delete |-> {MavenDeleteVersion}, read |-> {MavenEnsureMetadata}]

MavenFetchUpstream(s) == IF s \in {"metadata", "metasums"} THEN Fetch(s) ELSE Pin(s)
MavenFetch(s) == <<MavenFetchUpstream(s)>>
MavenReads == {MavenFetch(s) : s \in {"file", "sums", "metadata", "metasums"}}
MavenPrefetch == <<Try(Fetch("metadata"))>> \o MavenFetch("file")
MavenPurge == {"metadata", "metasums"}
MavenMetadata == <<Merge("metadata")>>
MavenVirtual == {MavenMetadata, <<First("file")>>}

(***************************************************************************)
(* goproxy: three files for a version, uploaded by three requests; each    *)
(* drops the kept list and latest, which a read makes again from the files *)
(* and from what is kept. No mutex, and the guard is asked nowhere.        *)
(***************************************************************************)
GoproxyWriteVersionFile(s) == <<Write(s), Try(Leave("list")), Try(Leave("latest"))>>
GoproxyUpload(s) == <<Check>> \o GoproxyWriteVersionFile(s)
GoproxyPromote ==
  GoproxyWriteVersionFile("info") \o GoproxyWriteVersionFile("mod")
    \o GoproxyWriteVersionFile("zip")
GoproxyStoreDelete ==
  <<Erase("info"), Erase("mod"), Erase("zip"), Try(Leave("list")), Try(Leave("latest"))>>
GoproxyDeleteVersion == <<Need("info")>> \o GoproxyStoreDelete
GoproxyListVersions == <<Load("info"), Fold("list"), Fold("latest")>>
GoproxyCachedList == GoproxyListVersions \o <<Try(Copy("list"))>>
GoproxyCachedLatest ==
  GoproxyListVersions \o <<Try(Newest("latest"))>>
GoproxyListing == {"info"}
GoproxyClient == {"info", "list", "latest"}
Goproxy ==
  [file |-> "zip", client |-> GoproxyListing, admin |-> GoproxyListing,
   found |-> GoproxyClient,
   publish |-> {GoproxyUpload("info") \o GoproxyUpload("mod") \o GoproxyUpload("zip")},
   promote |-> {GoproxyPromote}, delete |-> {GoproxyDeleteVersion},
   read |-> {GoproxyCachedList, GoproxyCachedLatest}]

GoproxyFetchAndStore(step) == <<step, Drop("list"), Drop("latest")>>
GoproxyEnsureCached ==
  <<Unless("info")>> \o GoproxyFetchAndStore(Pin("info"))
    \o GoproxyFetchAndStore(Try(Pin("mod"))) \o GoproxyFetchAndStore(Try(Pin("zip")))
GoproxyServeList == <<Relist("list", "info")>>
GoproxyRefetch(s) == <<Try(Refetch(s))>>
GoproxyServeLatest == <<Keep("latest")>>
GoproxyReads == {GoproxyServeList, GoproxyServeLatest, GoproxyEnsureCached}
GoproxyPrefetch == GoproxyRefetch("list") \o GoproxyRefetch("latest") \o GoproxyEnsureCached
GoproxyPurge == {"list", "latest"}
GoproxyVirtual == {<<Merge("list")>>, <<First("zip")>>}
=============================================================================
