---------------------------- MODULE ToolFormats ----------------------------
(* The package formats of deployment and configuration tools: what each    *)
(* handler of registry/{helm,terraform,ansible,chef,puppet} does to the    *)
(* repository and in which order, as programs of PackageSteps.             *)
EXTENDS PackageSteps

(***************************************************************************)
(* helm: the chart and its metadata; the index is made from the metadata   *)
(* at every request. No mutex, and the guard is asked nowhere.             *)
(***************************************************************************)
HelmExtractChart == <<Check>>
HelmWriteChart == <<Write("tarball"), Write("meta")>>
HelmFinishPublish == HelmExtractChart \o HelmWriteChart
HelmReadBody == <<Check>>
HelmPublish == HelmReadBody \o HelmFinishPublish
HelmPromote == HelmWriteChart
HelmStoreDelete == <<Erase("tarball"), Try(Erase("meta"))>>
HelmDeleteVersion == <<Need("meta")>> \o HelmStoreDelete
HelmServeDelete == HelmStoreDelete
HelmListing == {"meta"}
HelmIndex == {"meta"}
Helm ==
  [file |-> "tarball", client |-> HelmIndex, admin |-> HelmListing,
   publish |-> {HelmPublish}, promote |-> {HelmPromote},
   remove |-> {HelmServeDelete}, delete |-> {HelmDeleteVersion}]

\* Storing a chart drops the cached index.
HelmServeIndex == <<Strict("index")>>
HelmLoadIndex == <<Strict("index")>>
HelmServeTarball == <<Unless("tarball"), Pin("tarball"), Drop("index")>>
HelmReads == {HelmServeIndex, HelmServeTarball}
HelmPrefetch == HelmLoadIndex \o <<Unless("meta"), Pin("tarball"), Write("meta"), Drop("index")>>
HelmPurge == {"index"}
HelmVirtual == {<<First("index")>>, <<First("tarball")>>}

(***************************************************************************)
(* terraform: a module is its archive; a version here is one of a module.  *)
(* One mutex per repository, outside the registry object, which a deletion *)
(* by the server's own pages does not take.                                *)
(***************************************************************************)
TerraformParseModule == <<Check>>
TerraformModuleTree == <<Tree({"archive"})>>
TerraformPublishModule ==
  TerraformParseModule \o <<LockRepo, Guard("archive"), Write("archive"), UnlockRepo>>
TerraformPromoteModule ==
  <<LockRepo, Guard("archive"), Try(Tree({"archive"})), Write("archive"), UnlockRepo>>
TerraformDeleteModule == <<Need("archive")>> \o TerraformModuleTree
TerraformDeleteHTTP(delete) == <<LockRepo>> \o delete \o <<UnlockRepo>>
TerraformModuleListing == {"archive"}
TerraformListModules == {"archive"}
TerraformModule ==
  [file |-> "archive", client |-> TerraformListModules, admin |-> TerraformModuleListing,
   publish |-> {TerraformPublishModule}, promote |-> {TerraformPromoteModule},
   remove |-> {TerraformDeleteHTTP(TerraformDeleteModule)},
   delete |-> {TerraformDeleteModule}]

(***************************************************************************)
(* A provider version has a zip per platform, a document of the platforms, *)
(* and the checksums and the signature its publisher may put beside them,  *)
(* which a change of the zips drops. A version here is one platform.       *)
(***************************************************************************)
TerraformProviderMeta == <<Load("meta")>>
TerraformWriteMeta(step) == <<step>>
TerraformPublishZip ==
  <<Check, LockRepo>> \o TerraformProviderMeta
    \o <<Guard("meta"), Write("zip"), Try(Leave("sums"))>> \o TerraformWriteMeta(Put("meta"))
    \o <<UnlockRepo>>
TerraformPublishSidecar == <<Check, LockRepo, Need("meta"), Enter("sums"), UnlockRepo>>
TerraformPublishProvider == <<Check>> \o TerraformPublishZip

\* All files of the provider version are copied, over none that is left.
TerraformPromoteProvider ==
  <<LockRepo, Guard("meta"), Try(Clear({"meta", "zip", "sums"})), Write("meta"),
    Write("zip"), UnlockRepo>>
TerraformDeleteProvider == <<Need("meta"), Clear({"meta", "sums", "zip"})>>
TerraformDeletePlatform ==
  <<LockRepo>> \o TerraformProviderMeta
    \o <<NeedRead, Try(Erase("zip")), Try(Leave("sums"))>> \o TerraformWriteMeta(Cut("meta"))
    \o <<UnlockRepo>>
TerraformProviderListing == {"meta"}
TerraformProviderVersions == {"meta"}
TerraformProvider ==
  [file |-> "zip", client |-> TerraformProviderVersions, admin |-> TerraformProviderListing,
   publish |-> {TerraformPublishProvider}, promote |-> {TerraformPromoteProvider},
   remove |-> {TerraformDeletePlatform, TerraformDeleteHTTP(TerraformDeleteProvider)},
   delete |-> {TerraformDeleteProvider}, tag |-> {TerraformPublishSidecar}]

\* The location of a module and the document of a provider's platform are kept
\* for good, and the zip must be what that document says.
TerraformEndpoint == <<Try(Fetch("discovery"))>>
TerraformModuleDoc == TerraformEndpoint \o <<Fetch("modules")>>
TerraformModuleLocation == <<Unless("location")>> \o TerraformEndpoint \o <<Pin("location")>>
TerraformVersionsDoc == TerraformEndpoint \o <<Fetch("versions")>>
TerraformProviderDoc == TerraformEndpoint \o <<Pin("download")>>
TerraformFetchArtifact(step) == <<step>>
TerraformServeArchive ==
  {TerraformEndpoint \o <<Pin("location")>> \o TerraformFetchArtifact(Pin("archive")),
   <<Cached("download")>> \o TerraformFetchArtifact(Sound("zip", "download"))}
TerraformReads ==
  {TerraformModuleDoc, TerraformModuleLocation, TerraformVersionsDoc, TerraformProviderDoc}
    \cup TerraformServeArchive
TerraformPrefetch ==
  {TerraformModuleDoc \o <<Pin("location"), Pin("archive")>>,
   TerraformVersionsDoc \o TerraformProviderDoc \o <<Sound("zip", "download")>>}
TerraformPurge == {"discovery", "modules", "versions", "list"}
TerraformMergeModules == <<Merge("modules")>>
TerraformMergeProviders == <<Merge("versions")>>
TerraformVirtual ==
  {TerraformMergeModules, TerraformMergeProviders, <<First("archive")>>, <<First("zip")>>}

(***************************************************************************)
(* ansible: the artifact of a collection's version and its record, in one  *)
(* directory. A version exists when its record does. No mutex. The removal *)
(* of a collection is that of its versions one after the other.            *)
(***************************************************************************)
AnsibleParseCollection == <<Check>>
AnsiblePut == <<Write("artifact"), Write("record")>>
AnsiblePublish == <<Check>> \o AnsibleParseCollection \o <<Guard("record")>> \o AnsiblePut
AnsiblePromote == <<Guard("record")>> \o AnsiblePut
AnsibleDeleteVersion == <<Need("record"), Tree({"artifact", "record"})>>
AnsibleRemove == AnsibleDeleteVersion
AnsibleListing == {"record"}
AnsibleClient == {"record"}
Ansible ==
  [file |-> "artifact", client |-> AnsibleClient, admin |-> AnsibleListing,
   publish |-> {AnsiblePublish}, promote |-> {AnsiblePromote},
   remove |-> {AnsibleRemove}, delete |-> {AnsibleDeleteVersion}]

AnsibleVersionList == <<Fetch("versions")>>
AnsibleVersionRecord == <<Pin("record")>>
AnsibleFetchArtifact == <<Sound("artifact", "record")>>
AnsibleServeArtifact == <<Unless("artifact")>> \o AnsibleVersionRecord \o AnsibleFetchArtifact
AnsibleReads == {AnsibleVersionList, AnsibleVersionRecord, AnsibleServeArtifact}
AnsiblePrefetch ==
  AnsibleVersionList \o AnsibleVersionRecord \o <<Unless("artifact")>> \o AnsibleFetchArtifact
AnsiblePurge == {"versions"}
AnsibleMergeVersions == <<Merge("versions")>>
AnsibleFirstRecord == <<First("record")>>
AnsibleVirtual == {AnsibleMergeVersions, AnsibleFirstRecord, <<First("artifact")>>}

(***************************************************************************)
(* chef: the tarball of a cookbook's version and its record; as ansible.   *)
(***************************************************************************)
ChefParseCookbook == <<Check>>
\* Faulty: the record is written before the tarball.
FaultyChefPut == <<Write("record"), Write("tarball")>>
ChefPut == <<Write("tarball"), Write("record")>>
\* Faulty: the guard asks for the file that is written first.
FaultyChefPublish == <<Check>> \o ChefParseCookbook \o <<Guard("tarball")>> \o ChefPut
ChefPublish == <<Check>> \o ChefParseCookbook \o <<Guard("record")>> \o ChefPut
ChefPromote == <<Guard("record")>> \o ChefPut
ChefDeleteVersion == <<Need("record"), Tree({"tarball", "record"})>>
ChefRemove == ChefDeleteVersion
ChefListing == {"record"}
ChefUniverse == {"record"}
Chef ==
  [file |-> "tarball", client |-> ChefUniverse, admin |-> ChefListing,
   publish |-> {ChefPublish}, promote |-> {ChefPromote},
   remove |-> {ChefRemove}, delete |-> {ChefDeleteVersion}]

\* The digest of a fetched tarball goes into the record afterwards, so the
\* tarball is checked against nothing.
ChefRemoteUniverse == <<Fetch("universe")>>
ChefCookbookDoc == <<Fetch("cookbook")>>
ChefVersions == ChefCookbookDoc
ChefVersion == <<Pin("record"), Try(Fetch("cookbook"))>>
ChefFetchTarball == <<Pin("tarball")>>
ChefServeTarball == <<Unless("tarball")>> \o ChefVersion \o ChefFetchTarball
ChefServeListing == <<Fetch("listing")>>
ChefReads ==
  {ChefRemoteUniverse, ChefVersions, ChefVersion, ChefServeTarball, ChefServeListing}
ChefPrefetch == ChefVersions \o ChefVersion \o <<Unless("tarball")>> \o ChefFetchTarball
ChefPurge == {"universe", "cookbook", "listing"}
ChefMergeUniverse == <<Merge("universe")>>
ChefMergeVersions == <<Merge("cookbook")>>
ChefFirst(s) == <<First(s)>>
ChefVirtual ==
  {ChefMergeUniverse, ChefMergeVersions} \cup
  {ChefFirst(s) : s \in {"record", "tarball", "listing"}}

(***************************************************************************)
(* puppet: the file of a module's release and its record; as ansible.      *)
(***************************************************************************)
PuppetParseModule == <<Check>>
PuppetPut == <<Write("file"), Write("record")>>
PuppetPublish == <<Check>> \o PuppetParseModule \o <<Guard("record")>> \o PuppetPut
PuppetPromote == <<Guard("record")>> \o PuppetPut
PuppetDeleteVersion == <<Need("record"), Tree({"file", "record"})>>
PuppetRemove == PuppetDeleteVersion
PuppetListing == {"record"}
PuppetClient == {"record"}
Puppet ==
  [file |-> "file", client |-> PuppetClient, admin |-> PuppetListing,
   publish |-> {PuppetPublish}, promote |-> {PuppetPromote},
   remove |-> {PuppetRemove}, delete |-> {PuppetDeleteVersion}]

PuppetReleases == <<Fetch("releases")>>
PuppetRelease == <<Pin("record")>>
PuppetFetchFile == <<Sound("file", "record")>>
PuppetServeFile == <<Unless("file")>> \o PuppetRelease \o PuppetFetchFile
PuppetReads == {PuppetReleases, PuppetRelease, PuppetServeFile}
PuppetPrefetch == PuppetReleases \o PuppetRelease \o <<Unless("file")>> \o PuppetFetchFile
PuppetPurge == {"releases"}
PuppetMergeReleases == <<Merge("releases")>>
PuppetFirstRelease == <<First("record")>>
PuppetVirtual == {PuppetMergeReleases, PuppetFirstRelease, <<First("file")>>}
=============================================================================
