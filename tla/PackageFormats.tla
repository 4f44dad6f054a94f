--------------------------- MODULE PackageFormats ---------------------------
(* The table of the package formats: the programs of each operation, the   *)
(* slots of each format, and what kinds of formats, operations and steps   *)
(* there are.                                                              *)
EXTENDS SystemFormats, LanguageFormats, LibraryFormats, ToolFormats

Formats ==
  [generic |-> Generic, apt |-> Apt, rpm |-> Rpm, alpine |-> Alpine, conda |-> Conda,
   cran |-> Cran, p2 |-> P2, vagrant |-> Vagrant, gitlfs |-> Gitlfs, nuget |-> Nuget,
   pypi |-> Pypi, npm |-> Npm, cargo |-> Cargo, rubygems |-> Rubygems,
   composer |-> Composer, pub |-> Pub, swift |-> Swift, conan |-> Conan,
   cocoapods |-> Cocoapods, bower |-> Bower, maven |-> Maven, goproxy |-> Goproxy,
   helm |-> Helm, module |-> TerraformModule, provider |-> TerraformProvider,
   ansible |-> Ansible, chef |-> Chef, puppet |-> Puppet]

Operations ==
  {"publish", "promote", "remove", "delete", "yank", "unyank", "tag", "untag",
   "read", "hold", "release", "amend"}

\* The programs of an operation (a removal by a client is one of its own where
\* it is not that of the pages), and the slots of a format.
Field(name, field, none) ==
  IF field \in DOMAIN Formats[name] THEN Formats[name][field] ELSE none

Programs(n, op) ==
  Field(n, op, {}) \ (IF op = "remove" THEN Field(n, "delete", {}) ELSE {})

SlotsOf(step) ==
  CASE step.do \in {"check", "read", "sole", "several", "lock", "unlock"} -> {}
    [] step.do \in {"need", "tree"} -> step.by
    [] step.do \in {"scan", "heal"} -> {step.at, step.by}
    [] OTHER -> {step.at}

Slots ==
  [name \in DOMAIN Formats |->
     UNION {UNION {SlotsOf(program[k]) : k \in DOMAIN program} :
              program \in UNION {Field(name, op, {}) : op \in Operations}}]

\* The formats that ask the guard and write under one mutex.
GuardedWithin == {"composer", "conda", "cran", "module", "provider"}

Publications == {"publish", "promote"}
Removals == {"remove", "delete"}

\* The steps that write to a slot.
Changes ==
  {"write", "stream", "erase", "enter", "put", "cut", "yank", "unyank", "copy", "newest",
   "mark", "unmark", "heal"}

\* The formats that write an entry before its file, and those whose guard is not
\* asked before every write of the file.
EntryFirst == {"conan", "vagrant", "goproxy", "maven", "p2"}
Unguarded == {"conan", "gitlfs", "helm", "goproxy", "pub", "pypi", "swift", "vagrant"}

\* A publication over an existing version that deletes it before it is written
\* again; indexes made without a mutex; and a mutex that is not the registry
\* object's.
Destructive == {"conan", "vagrant", "module", "p2"}
Unserialised == {"cocoapods", "maven"}
RepositoryMutex == {"apt", "module", "provider"}

\* A publication of several uploads, of which a later one may be refused; and a
\* guard that asks for the file, which is written first.
SeveralUploads == {"goproxy", "p2"}
GuardedFirst ==
  {"alpine", "apt", "cocoapods", "composer", "conan", "conda", "cran", "maven", "rpm", "rubygems"}

\* The formats that write file and entry under one mutex.
WrittenTogether == {"apt", "cargo", "composer", "conda", "cran", "provider"}

\* What the indexes of a format are made from, where they are made anew.
MadeFrom ==
  [rpm |-> "meta", alpine |-> "apk", conda |-> "record", rubygems |-> "meta",
   composer |-> "json", cocoapods |-> "spec"]
=============================================================================
