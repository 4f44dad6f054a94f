---------------------------- MODULE PackageSteps ----------------------------
(* The vocabulary in which the package formats are described.              *)
(*                                                                         *)
(* A repository is a tree of slots. A slot is one file of the format's     *)
(* layout: a file per version (the package, its metadata) or one document  *)
(* with an entry per version (an index). A handler of a format is a        *)
(* program: the sequence of the file operations it makes, in the order of  *)
(* the code, with its refusals. Where the code's order depends on a name   *)
(* the handler is a set of programs.                                       *)
(*                                                                         *)
(* The steps of a hosted (local) repository:                               *)
EXTENDS Sequences

(* A format is a record: the slot of its packages (file), the documents    *)
(* its clients list the versions from (client), the slots the server's own *)
(* pages list them from (admin), and its operations, each a set of         *)
(* programs; a promotion is the program of its destination. Where it has   *)
(* them: the document of the tags (tags), the file of the package (root),  *)
(* the slots a listing is put together from at every request (found), and  *)
(* whether the index has the newest version of a package only (newest),    *)
(* and whether a file is named by its content (addressed).                 *)
Step(do, at) == [do |-> do, at |-> at, by |-> at, try |-> FALSE, always |-> FALSE]

\* A write or a delete whose error the code drops.
Try(step) == [step EXCEPT !.try = TRUE]

\* A deferred step: taken at the end of its function, after an error too.
Always(step) == [step EXCEPT !.always = TRUE]

\* The input is read and parsed: a malformed one is refused (400, 413).
Check == Step("check", "input")

\* pkgbase.PublishGuard: refused (409) when the file exists and the
\* repository has immutable versions.
Guard(s) == Step("guard", s)

\* Refused (409) when the file exists, whatever the policy.
Refuse(s) == Step("refuse", s)

\* Not found (404) when the version has no such file or entry, or none of
\* several.
NeedAny(S) == [Step("need", "any") EXCEPT !.by = S]
Need(s) == NeedAny({s})

\* Not found when the document read has no entry of the version.
NeedRead == Step("read", "kept")

\* The branch of a handler for a version without such a file or entry; for a
\* document read without another version, and with one.
Lack(s) == Step("lack", s)
Sole == Step("sole", "kept")
Several == Step("several", "kept")

\* The handler returns early, successfully, when the file exists.
Unless(s) == Step("unless", s)

\* pkgbase.Store.Write and Delete of a file of the version.
Write(s) == Step("write", s)
Erase(s) == Step("erase", s)

\* WriteStream of a request's body: when it breaks off the file is deleted.
Stream(s) == Step("stream", s)

\* pkgbase.Store.DeleteTree: the files of the version, or those of all versions,
\* are deleted one by one; one that cannot be deleted is passed over and the
\* step fails at the end.
Tree(S) == [Step("tree", "version") EXCEPT !.by = S]
Clear(S) == [Step("tree", "package") EXCEPT !.by = S]

\* The one file of the package itself (or a document with an entry for every
\* version): written; deleted; the handler returns early, successfully, when
\* the package has it, or when it has versions left in s.
Enter(s) == Step("enter", s)
Leave(s) == Clear({s})
Known(s) == Step("known", s)
Remains(s) == Step("last", s)

\* Read a whole document, or walk the files of a slot, and keep the result.
Load(s) == Step("load", s)

\* Walk the files of slot s and read for each its metadata in slot t, which
\* is made again from the file where it is missing.
Scan(s, t) == [Step("scan", s) EXCEPT !.by = t]

\* Bring document s into line with the kept list of the files of slot t: the
\* entries of other files are dropped, missing ones are made from the file.
Heal(s, t) == [Step("heal", s) EXCEPT !.by = t]

\* Add the entries of document s to what is kept.
Fold(s) == Step("fold", s)

\* Write what was kept: with the version's entry, without it, with its entry
\* marked, or as it is.
Put(s) == Step("put", s)
Cut(s) == Step("cut", s)
Yank(s) == Step("yank", s)
Unyank(s) == Step("unyank", s)
Copy(s) == Step("copy", s)

\* Write the entry of the newest version kept, alone.
Newest(s) == Step("newest", s)

\* Write the version's own file back, with its entry marked.
Mark(s) == Step("mark", s)
Unmark(s) == Step("unmark", s)

\* A mutex: of the registry object, which a reload of the routing table
\* replaces, or of the repository, kept in a package variable.
Lock == Step("lock", "object")
LockRepo == Step("lock", "repository")
Unlock == Always(Step("unlock", "object"))
UnlockRepo == Always(Step("unlock", "repository"))

(* The steps of a proxied (remote) repository:                             *)

\* pkgbase.RemoteRepo.FetchCached of a document that changes: served from
\* the cache while it is fresh, stale when the upstream fails.
Fetch(s) == Step("fetch", s)

\* The same, but never served stale.
Strict(s) == Step("strict", s)

\* The same, but kept and served even when the upstream has it no more.
Keep(s) == Step("keep", s)

\* The same, but the body is streamed into the cache: when it breaks off the
\* cached copy is deleted.
Flow(s) == Step("flow", s)

\* Fetched whatever is cached, and never served stale.
Refetch(s) == Step("refetch", s)

\* As Fetch, and document t, which belongs to s, is dropped when s changed.
Renew(s, t) == [Step("renew", s) EXCEPT !.by = t]

\* Served from the cache while it is fresh; then first made again from itself
\* and the cached files of slot t, and fetched only when that is empty.
Relist(s, t) == [Step("relist", s) EXCEPT !.by = t]

\* FetchCached of a file that does not change: served from the cache.
Pin(s) == Step("pin", s)

\* FetchCached of a file named by its digest in another cached document.
Named(s, t) == [Step("named", s) EXCEPT !.by = t]

\* As Named, but what is served is read back from the store.
Content(s, t) == [Step("content", s) EXCEPT !.by = t]

\* FetchCached of a file that does not change, stored only when it is what the
\* document t read before lists: otherwise the request fails.
Sound(s, t) == [Step("sound", s) EXCEPT !.by = t]

\* A document whose digest another cached document lists: served from the
\* cache while it has that digest.
Verify(s, t) == [Step("verify", s) EXCEPT !.by = t]

\* A file that is not what the document t read before lists is deleted from
\* the cache and the request fails.
Match(s, t) == [Step("match", s) EXCEPT !.by = t]

\* Passed through, not cached.
Pass(s) == Step("pass", s)

\* Read from the cache only, and deleted from it.
Cached(s) == Step("cached", s)
Drop(s) == Step("drop", s)

(* The steps of a virtual repository, which asks its members in the order  *)
(* they are configured:                                                    *)

\* The answer of the first member that has it.
First(s) == Step("first", s)

\* The same, but a member is probed first and then answers itself.
Probe(s) == Step("probe", s)

\* The answer of the member the path names.
Route(s) == Step("route", s)

\* The members' documents merged, the first entry winning.
Merge(s) == Step("merge", s)

\* The newest of the members' newest versions.
Latest(s) == Step("latest", s)

\* Merged, and kept in memory: for a time, or until a member's head changes.
Timed(s) == Step("timed", s)
Keyed(s) == Step("keyed", s)
=============================================================================
