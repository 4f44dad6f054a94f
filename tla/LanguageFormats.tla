-------------------------- MODULE LanguageFormats --------------------------
(* The package formats of programming languages: what each handler of      *)
(* registry/{nuget,pypi,npm,...} does to the repository and in which       *)
(* order, as programs of PackageSteps.                                     *)
EXTENDS PackageSteps

(***************************************************************************)
(* nuget: the package, its nuspec and its metadata, each a file of the     *)
(* version; a version exists when its metadata does. No index, no mutex.   *)
(***************************************************************************)
NugetParse == <<Check>>
NugetStoreNupkg == <<Write("nupkg"), Write("nuspec"), Write("meta")>>
NugetPush == NugetParse \o <<Guard("meta")>> \o NugetStoreNupkg
NugetPromote == <<Guard("meta")>> \o NugetStoreNupkg

\* The files of a version are deleted in the order of their names, and the
\* package's name decides whether that of the metadata comes first.
NugetDeleteVersion ==
  {<<NeedAny({"nupkg", "nuspec", "meta"})>> \o order :
     order \in {<<Erase("nupkg"), Erase("nuspec"), Erase("meta")>>,
               <<Erase("meta"), Erase("nupkg"), Erase("nuspec")>>}}
NugetRemove == NugetDeleteVersion
NugetRelist == <<Need("meta")>>
NugetListing == {"meta"}
NugetClient == {"meta"}
Nuget ==
  [file |-> "nupkg", client |-> NugetClient, admin |-> NugetListing,
   publish |-> {NugetPush}, promote |-> {NugetPromote},
   remove |-> NugetRemove, delete |-> NugetDeleteVersion,
   unyank |-> {NugetRelist}]

NugetDiscover == <<Fetch("service")>>
NugetFetchNupkg == NugetDiscover \o <<Pin("nupkg")>>
NugetFlat ==
  {NugetDiscover \o <<Fetch("flat")>>, NugetFetchNupkg,
   NugetDiscover \o <<Pin("nuspec")>>}
NugetSearch == NugetDiscover \o <<Pass("search")>>
NugetReads == NugetFlat \cup {NugetDiscover \o <<Fetch("registration")>>, NugetSearch}
NugetPrefetch == NugetDiscover \o <<Fetch("flat")>> \o NugetFetchNupkg
NugetPurge == {"flat", "registration", "service", "meta"}
NugetMergeSearch == <<Merge("search")>>
NugetVirtual ==
  {<<Merge("flat")>>, <<Merge("registration")>>, NugetMergeSearch, <<First("nupkg")>>}

(***************************************************************************)
(* pypi: the files, and one document for a project with an entry per file, *)
(* changed under the mutex of the object's store. A listing is the files   *)
(* found; it repairs the document on the way.                              *)
(***************************************************************************)
PypiParse == <<Check>>
PypiUpdateMeta(change) == <<Lock, Load("meta")>> \o change \o <<Unlock>>
PypiFileMetas == <<Load("file"), Lock, Try(Heal("meta", "file")), Unlock>>
PypiFinishPublish ==
  PypiParse \o <<Guard("file"), Write("file"), Try(Write("core"))>>
    \o PypiUpdateMeta(<<Put("meta")>>)
PypiPublish == PypiFinishPublish

\* The guard of the destination is not asked.
PypiPromote ==
  <<Write("file"), Write("core")>> \o PypiUpdateMeta(<<Put("meta")>>)
PypiDeleteFile ==
  <<Need("file"), Erase("file"), Try(Erase("core"))>>
    \o PypiUpdateMeta(<<Try(Cut("meta"))>>)
PypiDeleteVersion == <<Need("file")>> \o PypiDeleteFile
PypiRemove == PypiDeleteFile
PypiSetYanked(step) ==
  PypiFileMetas \o PypiUpdateMeta(<<NeedRead, step>>)
PypiListing == {"file"}
PypiClient == {"meta"}
Pypi ==
  [file |-> "file", client |-> PypiClient, admin |-> PypiListing, found |-> {"file"},
   publish |-> {PypiPublish}, promote |-> {PypiPromote},
   remove |-> {PypiRemove}, delete |-> {PypiDeleteVersion},
   yank |-> {PypiSetYanked(Yank("meta"))}, unyank |-> {PypiSetYanked(Unyank("meta"))},
   read |-> {PypiFileMetas}]

PypiFetchIndex == <<Fetch("simple")>>
PypiFetchJSON == <<Fetch("json")>>
PypiFetchRemote == <<Pin("file")>>
PypiReads == {PypiFetchIndex, PypiFetchJSON, PypiFetchRemote}
PypiPrefetch == PypiFetchIndex \o PypiFetchRemote
PypiPurge == {"simple", "json"}
PypiVirtual == {<<Merge("simple")>>, <<First("file")>>}

(***************************************************************************)
(* npm: a metadata file and a tarball for each version; the dist-tags are  *)
(* one document, read and written without a mutex. A packument is built    *)
(* from the metadata files.                                                *)
(***************************************************************************)
NpmParsePublish == <<Check>>
NpmWriteVersion == <<Write("tarball"), Write("meta")>>
NpmWriteTag == <<Load("tags"), Put("tags")>>
NpmPublish == NpmParsePublish \o <<Refuse("meta")>> \o NpmWriteVersion \o NpmWriteTag
NpmPromote == <<Refuse("meta")>> \o NpmWriteVersion \o NpmWriteTag
NpmStoreDelete ==
  <<Need("meta"), Erase("meta"), Try(Erase("tarball")), Load("tags"), Try(Cut("tags"))>>
NpmDeleteVersion == NpmStoreDelete
NpmTagSet == <<Need("meta")>> \o NpmWriteTag
NpmTagDelete == <<Load("tags"), NeedRead, Cut("tags")>>
NpmListing == {"meta"}
NpmClient == {"meta"}
Npm ==
  [file |-> "tarball", client |-> NpmClient, admin |-> NpmListing, tags |-> "tags",
   publish |-> {NpmPublish}, promote |-> {NpmPromote}, delete |-> {NpmDeleteVersion},
   tag |-> {NpmTagSet}, untag |-> {NpmTagDelete}]

NpmPackument == <<Keep("packument")>>
NpmTarball == <<Pin("tarball")>>
NpmDistTags == <<Cached("packument")>>
NpmAsset == NpmPackument \o NpmTarball
NpmReads == {NpmPackument, NpmTarball, NpmDistTags, NpmAsset}
NpmPrefetch == NpmPackument \o NpmTarball
NpmPurge == {"packument"}
NpmSearchUnion == <<Merge("search")>>
NpmVirtual ==
  {<<Merge("packument")>>, NpmSearchUnion, <<First("tarball")>>, <<First("tags")>>}

(***************************************************************************)
(* cargo: the crate, its metadata and a line in the crate's index file,    *)
(* written together under the mutex of the object's store; whether the     *)
(* version exists is asked before. The owners of a crate are a file of its *)
(* own, written without the mutex: by a client, by the first publication   *)
(* of a user who has logged in and by a promotion, and deleted with the    *)
(* last version. (Whose list it is: that of the request that wrote it.)    *)
(***************************************************************************)
CargoParse == <<Check>>
CargoWriteEntries(step) == <<step>>
CargoPut ==
  <<Lock, Write("crate"), Write("meta"), Load("index")>> \o CargoWriteEntries(Put("index"))
    \o <<Unlock>>
CargoWriteOwners == <<Known("owners"), Try(Enter("owners"))>>
CargoPublishNew ==
  {CargoParse \o <<Refuse("index"), Guard("index")>> \o CargoPut,
   CargoParse \o <<Load("index"), Sole, Refuse("index"), Guard("index")>> \o CargoPut
     \o CargoWriteOwners}
CargoPublishRaw ==
  <<Check, Guard("index"), Lock, Write("crate"), Load("index")>>
    \o CargoWriteEntries(Put("index")) \o <<Unlock>>
CargoPromote ==
  {<<Guard("index")>> \o CargoPut, <<Guard("index")>> \o CargoPut \o CargoWriteOwners}
CargoSetYanked(step) ==
  <<Lock, Load("index"), NeedRead>> \o CargoWriteEntries(step) \o <<Unlock>>
CargoDeleteVersion ==
  LET delete == <<Erase("crate"), Try(Erase("meta"))>>
      found == <<Lock, Load("index"), NeedRead>>
      rest == CargoWriteEntries(Cut("index")) \o <<Unlock>>
  IN {found \o <<Several>> \o delete \o rest,
      found \o <<Sole>> \o delete \o <<Try(Leave("owners"))>> \o rest}
CargoOwners == <<Need("index"), Check, Enter("owners")>>
CargoListing == {"index"}
CargoClient == {"index"}
Cargo ==
  [file |-> "crate", client |-> CargoClient, admin |-> CargoListing,
   publish |-> CargoPublishNew \cup {CargoPublishRaw}, promote |-> CargoPromote,
   delete |-> CargoDeleteVersion, amend |-> {CargoOwners},
   yank |-> {CargoSetYanked(Yank("index"))}, unyank |-> {CargoSetYanked(Unyank("index"))}]

CargoFetchIndex == <<Fetch("index")>>
CargoFetchCrate ==
  <<Unless("crate"), Try(Fetch("index")), Try(Fetch("config")), Sound("crate", "index")>>
CargoReads == {CargoFetchIndex, CargoFetchCrate, <<Pass("search")>>}
CargoPrefetch == CargoFetchIndex \o CargoFetchCrate
CargoPurge == {"index", "config"}
CargoVirtual == {<<Merge("index")>>, <<Merge("search")>>, <<First("crate")>>}

(***************************************************************************)
(* rubygems: the gem and its metadata, then the compact index of the gem   *)
(* and that of all gems, made again under the mutex of the object's store. *)
(***************************************************************************)
RubygemsParse == <<Check>>
RubygemsPut == <<Write("gem"), Write("meta")>>
RubygemsRebuildRoot == <<Load("info"), Copy("versions")>>
RubygemsRegenerate ==
  <<Lock, Load("meta"), Copy("info")>> \o RubygemsRebuildRoot \o <<Unlock>>
RubygemsPush ==
  RubygemsParse \o <<Guard("meta")>> \o RubygemsPut \o RubygemsRegenerate
RubygemsPromote == <<Guard("meta")>> \o RubygemsPut \o RubygemsRegenerate
RubygemsStoreRemove == <<Erase("gem"), Erase("meta")>>
RubygemsDeleteVersion ==
  <<Need("meta")>> \o RubygemsStoreRemove \o RubygemsRegenerate
RubygemsYank == <<Need("meta")>> \o RubygemsStoreRemove \o RubygemsRegenerate
RubygemsListing == {"meta"}
RubygemsClient == {"info", "versions"}
Rubygems ==
  [file |-> "gem", client |-> RubygemsClient, admin |-> RubygemsListing,
   publish |-> {RubygemsPush}, promote |-> {RubygemsPromote},
   remove |-> {RubygemsYank}, delete |-> {RubygemsDeleteVersion}]

RubygemsStream(step) == <<step>>
RubygemsReads ==
  {<<Fetch(s)>> : s \in {"info", "dependencies"}} \cup
  {RubygemsStream(Fetch(s)) : s \in {"versions", "names", "specs"}} \cup
  {RubygemsStream(Pin("gem")), <<Pin("quick")>>}
RubygemsPrefetch == <<Fetch("info")>> \o RubygemsStream(Pin("gem"))
RubygemsPurge == {"info", "dependencies", "versions", "names", "specs"}

\* The line of a gem that several members have is made in a round of its own.
RubygemsMergedVersions == {<<Merge("versions")>>, <<Merge("names")>>}
RubygemsVirtual == RubygemsMergedVersions \cup {<<Merge("info")>>, <<First("gem")>>}

(***************************************************************************)
(* composer: the archive and its metadata, then the index of the package   *)
(* made from the metadata; the whole of it, the guard too, under the       *)
(* object's mutex.                                                         *)
(***************************************************************************)
ComposerParse == <<Check>>
\* Faulty: the index of the package is not read from the files but patched.
FaultyComposerRebuildIndex == <<Load("index"), Put("index")>>
ComposerRebuildIndex == <<Load("json"), Copy("index")>>
ComposerPut == <<Write("zip"), Write("json")>> \o ComposerRebuildIndex
ComposerUpload ==
  ComposerParse \o <<Lock, Guard("zip")>> \o ComposerPut \o <<Unlock>>
ComposerPromote == <<Lock, Guard("zip")>> \o ComposerPut \o <<Unlock>>
ComposerStoreDelete ==
  <<NeedAny({"json", "zip"}), Erase("zip"), Erase("json")>> \o ComposerRebuildIndex
ComposerDeleteVersion == <<Lock>> \o ComposerStoreDelete \o <<Unlock>>
ComposerRemove == ComposerDeleteVersion
ComposerListing == {"index"}
ComposerClient == {"index"}
Composer ==
  [file |-> "zip", client |-> ComposerClient, admin |-> ComposerListing,
   publish |-> {ComposerUpload}, promote |-> {ComposerPromote},
   remove |-> {ComposerRemove}, delete |-> {ComposerDeleteVersion}]

ComposerVersions == <<Fetch("p2")>>
ComposerFetchDist == <<Pin("dist")>>
ComposerServeDist == {ComposerFetchDist, ComposerVersions \o ComposerFetchDist}
ComposerSearch == <<Fetch("root"), Pass("search")>>
ComposerReads == {ComposerVersions, ComposerSearch} \cup ComposerServeDist
ComposerPrefetch == ComposerVersions \o ComposerFetchDist
ComposerPurge == {"p2", "root"}
ComposerVirtual ==
  {<<Merge("p2")>>, <<Merge("search")>>, <<Merge("list")>>, <<First("dist")>>}

(***************************************************************************)
(* pub: an upload is kept pending, in a file of its own, until it is       *)
(* finished; the guard and the writes are under the mutex of the object's  *)
(* store, a deletion and a promotion are not, and a promotion does not ask *)
(* the guard. The options of a package are a file of its own.              *)
(***************************************************************************)
PubParse == <<Check>>
PubUpload == PubParse
PubFinish ==
  PubParse \o <<Lock, Guard("meta"), Write("archive"), Write("meta"), Unlock>>
PubPromote == <<Write("archive"), Write("meta")>>
PubStoreDelete == <<Need("meta"), Erase("archive"), Erase("meta")>>
PubRetract(step) == <<Lock, Load("meta"), NeedRead, step, Unlock>>
PubOptions == <<Need("meta"), Check, Enter("options")>>
PubListing == {"meta"}
PubClient == {"meta"}
Pub ==
  [file |-> "archive", client |-> PubClient, admin |-> PubListing,
   publish |-> {PubUpload \o PubFinish}, promote |-> {PubPromote},
   delete |-> {PubStoreDelete}, amend |-> {PubOptions},
   yank |-> {PubRetract(Mark("meta"))}, unyank |-> {PubRetract(Unmark("meta"))}]

PubDoc == <<Fetch("doc")>>
PubFetchArchive ==
  <<Unless("archive"), Try(Fetch("doc")), Pin("archive"), Match("archive", "doc")>>
PubReads == {PubDoc, PubFetchArchive, <<Fetch("search")>>}
PubPrefetch == PubDoc \o PubFetchArchive
PubPurge == {"doc", "search"}
PubVirtual == {<<Merge("doc")>>, <<Merge("search")>>, <<First("archive")>>}

(***************************************************************************)
(* swift: the archive and the metadata of a release. A release is never    *)
(* published twice, which is asked under the mutex of the object's store;  *)
(* a deletion and a promotion take no mutex, and a promotion overwrites.   *)
(***************************************************************************)
SwiftParse == <<Check>>
SwiftPublish ==
  SwiftParse \o <<Lock, Refuse("meta"), Write("archive"), Write("meta"), Unlock>>
SwiftPromote == <<Write("archive"), Write("meta")>>
SwiftDeleteVersion == <<Need("meta"), Erase("archive"), Erase("meta")>>
SwiftListing == {"meta"}
SwiftClient == {"meta"}
Swift ==
  [file |-> "archive", client |-> SwiftClient, admin |-> SwiftListing,
   publish |-> {SwiftPublish}, promote |-> {SwiftPromote},
   delete |-> {SwiftDeleteVersion}]

SwiftFetch(step) == <<step>>
SwiftReleases == SwiftFetch(Fetch("releases"))
SwiftInfo == SwiftFetch(Pin("info"))
SwiftArchive ==
  <<Try(Pin("info"))>> \o SwiftFetch(Pin("archive")) \o <<Match("archive", "info")>>
SwiftReads ==
  {SwiftReleases, SwiftInfo \o SwiftReleases, SwiftArchive,
   SwiftFetch(Pin("manifest")), SwiftFetch(Fetch("identifiers"))}
SwiftPrefetch == SwiftReleases \o SwiftFetch(Pin("manifest")) \o SwiftArchive
SwiftPurge == {"releases", "identifiers"}
SwiftVirtual == {<<Merge("releases")>>, <<Merge("identifiers")>>, <<First("archive")>>}
=============================================================================
