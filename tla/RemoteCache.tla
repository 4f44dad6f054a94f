---------------------------- MODULE RemoteCache ----------------------------
(* A proxied (remote) repository of a package format: the reading programs *)
(* of the format modules carried out by concurrent requests on one cache,  *)
(* before an upstream that changes, withdraws the package, is unreachable  *)
(* or breaks off its answer.                                               *)
EXTENDS Integers, FiniteSets, SystemFormats, LanguageFormats, LibraryFormats,
        ToolFormats

CONSTANTS
  RemoteNames, \* the formats of this instance
  Readers,     \* the requests of a behaviour, 1..n
  Overlapping, \* the formats whose requests may overlap
  Revisions,   \* the contents the upstream has one after the other, 1..n
  MaxEvents    \* the changes, outages, expiries, purges and faults

Remotes ==
  [generic |-> [reads |-> GenericReads \cup {GenericPrefetch}, purge |-> GenericPurge],
   apt |-> [reads |-> AptReads \cup {AptPrefetch}, purge |-> AptPurge],
   rpm |-> [reads |-> RpmReads \cup {RpmPrefetch}, purge |-> RpmPurge],
   alpine |-> [reads |-> AlpineReads \cup {AlpinePrefetch}, purge |-> AlpinePurge],
   conda |-> [reads |-> CondaReads \cup {CondaPrefetch}, purge |-> CondaPurge],
   cran |-> [reads |-> CranReads \cup {CranPrefetch}, purge |-> CranPurge],
   p2 |-> [reads |-> P2Reads \cup {P2Prefetch}, purge |-> P2Purge],
   vagrant |-> [reads |-> VagrantReads \cup {VagrantPrefetch}, purge |-> VagrantPurge],
   gitlfs |-> [reads |-> GitlfsReads \cup {GitlfsPrefetch}, purge |-> GitlfsPurge],
   huggingface |-> [reads |-> HuggingfaceReads \cup {HuggingfacePrefetch},
                    purge |-> HuggingfacePurge],
   nuget |-> [reads |-> NugetReads \cup {NugetPrefetch}, purge |-> NugetPurge],
   pypi |-> [reads |-> PypiReads \cup {PypiPrefetch}, purge |-> PypiPurge],
   npm |-> [reads |-> NpmReads \cup {NpmPrefetch}, purge |-> NpmPurge],
   cargo |-> [reads |-> CargoReads \cup {CargoPrefetch}, purge |-> CargoPurge],
   rubygems |-> [reads |-> RubygemsReads \cup {RubygemsPrefetch}, purge |-> RubygemsPurge],
   composer |-> [reads |-> ComposerReads \cup {ComposerPrefetch}, purge |-> ComposerPurge],
   pub |-> [reads |-> PubReads \cup {PubPrefetch}, purge |-> PubPurge],
   swift |-> [reads |-> SwiftReads \cup {SwiftPrefetch}, purge |-> SwiftPurge],
   conan |-> [reads |-> ConanReads \cup {ConanPrefetch}, purge |-> ConanPurge],
   cocoapods |-> [reads |-> CocoapodsReads \cup {CocoapodsPrefetch}, purge |-> CocoapodsPurge],
   bower |-> [reads |-> BowerReads \cup {BowerPrefetch}, purge |-> BowerPurge],
   maven |-> [reads |-> MavenReads \cup {MavenPrefetch}, purge |-> MavenPurge],
   goproxy |-> [reads |-> GoproxyReads \cup {GoproxyPrefetch}, purge |-> GoproxyPurge],
   helm |-> [reads |-> HelmReads \cup {HelmPrefetch}, purge |-> HelmPurge],
   terraform |-> [reads |-> TerraformReads \cup TerraformPrefetch, purge |-> TerraformPurge],
   ansible |-> [reads |-> AnsibleReads \cup {AnsiblePrefetch}, purge |-> AnsiblePurge],
   chef |-> [reads |-> ChefReads \cup {ChefPrefetch}, purge |-> ChefPurge],
   puppet |-> [reads |-> PuppetReads \cup {PuppetPrefetch}, purge |-> PuppetPurge],
   docker |-> [reads |-> DockerReads \cup DockerPrefetch, purge |-> DockerPurge]]

CacheSlots(format) ==
  UNION {UNION {{program[n].at, program[n].by} : n \in DOMAIN program} :
           program \in Remotes[format].reads}

VARIABLES
  format,    \* the format of the repository
  upstream,  \* the revision the upstream has, 0 when it has none
  reachable, \* it answers
  cache,     \* the cached revision of each slot, 0 for none, and whether its TTL runs
  reader,    \* the requests
  events     \* the events so far

remoteVars == <<format, upstream, reachable, cache, reader, events>>

Gone == [rev |-> 0, fresh |-> FALSE]
Stored(rev) == [rev |-> rev, fresh |-> TRUE]

\* seen: what the request has read of each slot; last: what it read last; got:
\* the upstream's answer, and old: what was cached when it was asked. For the
\* properties, floor: what the upstream had when the request began with nothing
\* fresh in the cache; covered: everything it reads was cached then. Both are
\* forgotten when an event excuses the request. outdated: it was given less than
\* floor of a document that changes.
Waiting == [program |-> <<>>, pc |-> 0, seen |-> <<>>, last |-> 0, got |-> 0, old |-> 0,
            end |-> "idle", floor |-> 0, covered |-> FALSE, outdated |-> FALSE]

Reading(i) == reader[i].pc > 0
Now(i) == reader[i].program[reader[i].pc]
Has(s) == cache[s].rev # 0
Busy == \E i \in Readers : Reading(i)

RemoteInit ==
  /\ format \in RemoteNames
  /\ upstream = 1
  /\ reachable = TRUE
  /\ \E rev \in {0, 1} : cache = [s \in CacheSlots(format) |-> [rev |-> rev, fresh |-> FALSE]]
  /\ reader = [i \in Readers |-> Waiting]
  /\ events = 0

\* The steps that need no answer of the upstream when the slot is cached. (Not
\* those that ask for a file of a new name or digest; and goproxy drops its
\* cached latest version whenever a request stores a file.)
Lasting == {"fetch", "keep", "flow", "pin", "sound", "cached", "unless", "write"}

Request(i, program) ==
  /\ reader[i].end = "idle" /\ ~Reading(i)
  /\ \A j \in Readers : j < i => Reading(j) \/ reader[j].end # "idle"
  /\ Busy => format \in Overlapping
  /\ reader' = [reader EXCEPT ![i] =
       [Waiting EXCEPT !.program = program, !.pc = 1,
          !.seen = [s \in CacheSlots(format) |-> 0],
          !.floor = IF ~Busy /\ reachable /\ \A s \in CacheSlots(format) : ~cache[s].fresh
                      THEN upstream ELSE 0,
          !.covered = /\ upstream # 0 /\ format # "goproxy"
                      /\ \A n \in DOMAIN program :
                           program[n].do \in Lasting /\ Has(program[n].at)]]
  /\ UNCHANGED <<format, upstream, reachable, cache, events>>

\* The request goes on to its next step, ends, or fails: the failure of a step
\* tried is passed over.
EndedRead(r, end) == [Waiting EXCEPT !.end = end, !.covered = r.covered, !.outdated = r.outdated]
Onward(r) ==
  IF r.pc < Len(r.program) THEN [r EXCEPT !.pc = @ + 1, !.got = 0, !.old = 0]
                           ELSE EndedRead(r, "ok")
ChangingDocs == {"fetch", "renew", "keep", "strict", "flow"}
Given(r, rev) ==
  LET step == r.program[r.pc]
  IN Onward([r EXCEPT !.seen[step.at] = rev, !.last = rev,
                      !.outdated = @ \/ (step.do \in ChangingDocs /\ rev < r.floor)])
Failing(r, why) == IF r.program[r.pc].try THEN Onward(r) ELSE EndedRead(r, why)
Served(i, rev) == reader' = [reader EXCEPT ![i] = Given(@, rev)]
Fails(i, why) == reader' = [reader EXCEPT ![i] = Failing(@, why)]
GoOn(i) == reader' = [reader EXCEPT ![i] = Onward(@)]

(***************************************************************************)
(* FetchCached and its variants: served from the cache, or the upstream is *)
(* asked and its answer stored.                                            *)
(***************************************************************************)
Fetching ==
  ChangingDocs \cup {"refetch", "relist", "pin", "sound", "named", "content", "verify", "pass"}
Takes(i, kinds) == Reading(i) /\ Now(i).do \in kinds

\* The revision a file named by its digest must have.
Wanted(i) ==
  LET doc == Now(i).by
  IN IF reader[i].seen[doc] # 0 THEN reader[i].seen[doc]
     ELSE IF Has(doc) THEN cache[doc].rev ELSE upstream

\* Faulty: an expired copy of a document is served too.
FaultyOwnCopy(i) == Now(i).do \notin {"refetch", "pass"} /\ Has(Now(i).at)
OwnCopy(i) ==
  LET step == Now(i)
      copy == cache[step.at]
  IN CASE step.do \in ChangingDocs -> copy.fresh
       [] step.do = "relist" -> copy.fresh \/ Has(step.at) \/ Has(step.by)
       [] step.do \in {"pin", "sound"} -> Has(step.at)
       [] step.do \in {"named", "content"} -> Has(step.at) /\ copy.rev = Wanted(i)
       [] step.do = "verify" ->
            IF Has(step.by) THEN Has(step.at) /\ copy.rev = cache[step.by].rev ELSE copy.fresh
       [] step.do \in {"refetch", "pass"} -> FALSE

Relisted(step) == IF Has(step.at) THEN cache[step.at].rev ELSE cache[step.by].rev
FromCache(i) ==
  /\ Takes(i, Fetching)
  /\ reader[i].got = 0 /\ OwnCopy(i)
  /\ LET step == Now(i)
     IN IF step.do = "relist"
          THEN /\ cache' = [cache EXCEPT ![step.at] = IF @.fresh THEN @ ELSE Stored(Relisted(step))]
               /\ Served(i, Relisted(step))
          ELSE Served(i, cache[step.at].rev) /\ UNCHANGED cache
  /\ UNCHANGED <<format, upstream, reachable, events>>

\* Client.Get: the answer, or its error and what is served then.
\* Faulty: an expired copy is served when the upstream fails of some documents only.
FaultyStale == {"keep", "verify", "relist"}
Stale == {"fetch", "renew", "keep", "flow", "verify", "relist"}
Get(i) ==
  /\ Takes(i, Fetching)
  /\ reader[i].got = 0 /\ ~OwnCopy(i)
  /\ LET step == Now(i)
         named == step.do \in {"named", "content"}
         cached == cache[step.at].rev
     IN \/ /\ reachable /\ upstream # 0
           /\ reader' = [reader EXCEPT ![i].got = IF named THEN Wanted(i) ELSE upstream,
                                       ![i].old = cached]
        \/ /\ reachable /\ (upstream = 0 \/ (named /\ Wanted(i) # upstream))
           /\ IF step.do \in {"keep", "relist"} /\ cached # 0
                THEN Served(i, cached) ELSE Fails(i, "absent")
        \/ /\ ~reachable
           /\ IF step.do \in Stale /\ cached # 0
                THEN Served(i, cached) ELSE Fails(i, "down")
  /\ UNCHANGED <<format, upstream, reachable, cache, events>>

\* The body is read and stored.
Store(i) ==
  /\ Takes(i, Fetching)
  /\ reader[i].got # 0
  /\ LET step == Now(i)
         r == reader[i]
     IN IF step.do = "sound" /\ r.seen[step.by] \notin {0, r.got}
          THEN Fails(i, "mismatch") /\ UNCHANGED cache
          ELSE /\ Served(i, r.got)
               /\ cache' = IF step.do = "pass" THEN cache
                           ELSE IF step.do = "renew" /\ r.old # r.got
                           THEN [cache EXCEPT ![step.at] = Stored(r.got), ![step.by] = Gone]
                           ELSE [cache EXCEPT ![step.at] = Stored(r.got)]
  /\ UNCHANGED <<format, upstream, reachable, events>>

(***************************************************************************)
(* The other steps of a program.                                           *)
(***************************************************************************)
Handle(i) ==
  /\ Takes(i, {"match", "cached", "drop", "unless", "write"})
  /\ LET step == Now(i)
         r == reader[i]
         mismatch == r.seen[step.by] \notin {0, r.seen[step.at]}
     IN \/ /\ step.do = "match"
           /\ IF mismatch THEN Fails(i, "mismatch") /\ cache' = [cache EXCEPT ![step.at] = Gone]
                          ELSE GoOn(i) /\ UNCHANGED cache
        \/ /\ step.do = "cached"
           /\ IF Has(step.at) THEN Served(i, cache[step.at].rev) ELSE Fails(i, "absent")
           /\ UNCHANGED cache
        \/ /\ step.do = "unless"
           /\ IF Has(step.at) THEN reader' = [reader EXCEPT ![i] = EndedRead(@, "ok")]
                              ELSE GoOn(i)
           /\ UNCHANGED cache
        \/ step.do = "drop" /\ GoOn(i) /\ cache' = [cache EXCEPT ![step.at] = Gone]
        \/ step.do = "write" /\ GoOn(i) /\ cache' = [cache EXCEPT ![step.at] = Stored(r.last)]
  /\ UNCHANGED <<format, upstream, reachable, events>>

(***************************************************************************)
(* Events: the upstream, the clock, the administrator and faults.          *)
(***************************************************************************)
Happens == events < MaxEvents /\ events' = events + 1
Excuse(rs, floors, covers) ==
  [i \in Readers |->
     [rs[i] EXCEPT !.floor = IF floors /\ Reading(i) THEN 0 ELSE @,
                   !.covered = IF covers /\ Reading(i) THEN FALSE ELSE @]]

Upload == /\ Happens /\ upstream + 1 \in Revisions /\ upstream # 0
          /\ upstream' = upstream + 1
          /\ UNCHANGED <<format, reachable, cache, reader>>
Withdraw == /\ Happens /\ upstream # 0
            /\ upstream' = 0
            /\ reader' = Excuse(reader, TRUE, TRUE)
            /\ UNCHANGED <<format, reachable, cache>>
Outage == /\ Happens
          /\ reachable' = ~reachable
          /\ reader' = Excuse(reader, TRUE, FALSE)
          /\ UNCHANGED <<format, upstream, cache>>
Expire == /\ Happens /\ \E s \in DOMAIN cache : cache[s].fresh
          /\ cache' = [s \in DOMAIN cache |-> [cache[s] EXCEPT !.fresh = FALSE]]
          /\ UNCHANGED <<format, upstream, reachable, reader>>

\* RemoteRepo.Purge: of the directories of mutable documents, or of everything.
Purge(all) ==
  /\ Happens
  /\ cache' = [s \in DOMAIN cache |->
                 IF all \/ s \in Remotes[format].purge THEN Gone ELSE cache[s]]
  /\ reader' = Excuse(reader, FALSE, TRUE)
  /\ UNCHANGED <<format, upstream, reachable>>

\* The body breaks off, or it cannot be stored, which is passed over. A document
\* that is kept is then served as it was, a stream leaves no copy.
Spoil(i, outcome(_)) ==
  /\ Takes(i, Fetching) /\ reader[i].got # 0
  /\ Happens
  /\ LET step == Now(i)
         cached == cache[step.at].rev
     IN /\ reader' = [Excuse(reader, TRUE, TRUE) EXCEPT ![i] =
                        IF step.do = "keep" /\ cached # 0 THEN Given(@, cached)
                        ELSE IF step.do \in {"keep", "flow", "refetch", "content"} THEN Failing(@, "failed")
                        ELSE outcome(@)]
        /\ cache' = IF step.do = "flow" THEN [cache EXCEPT ![step.at] = Gone] ELSE cache
  /\ UNCHANGED <<format, upstream, reachable>>
BreakOff(i) == Spoil(i, LAMBDA r : Failing(r, "failed"))
LoseWrite(i) ==
  /\ Takes(i, Fetching)
  /\ Now(i).do = "sound" => reader[i].seen[Now(i).by] \in {0, reader[i].got}
  /\ Spoil(i, LAMBDA r : Given(r, r.got))

(***************************************************************************)
(* The programs of every format, as far as requests depend on one another: *)
(* a step writes only what an earlier one has read; what a step stores     *)
(* that need not be the upstream's newest is no document that changes; and *)
(* what a step removes is not read by a program whose every step can be    *)
(* answered from the cache (goproxy apart).                                *)
(***************************************************************************)
ReadSteps(f) == UNION {{program[n] : n \in DOMAIN program} : program \in Remotes[f].reads}
Gives(step) == ~step.try /\ step.do \in Fetching \cup {"cached"}
MutableSlots(f) == {step.at : step \in {s \in ReadSteps(f) : s.do \in ChangingDocs}}
LastingSlots(f) ==
  UNION {{program[n].at : n \in DOMAIN program} :
           program \in {p \in Remotes[f].reads : \A n \in DOMAIN p : p[n].do \in Lasting}}

ASSUME RemoteAssumption ==
  \A f \in RemoteNames :
    /\ \A program \in Remotes[f].reads :
         /\ Len(program) \in Nat \ {0} /\ DOMAIN program = 1..Len(program)
         /\ \A n \in DOMAIN program :
              program[n].do = "write" => \E m \in 1..(n - 1) : Gives(program[m])
    /\ \A step \in ReadSteps(f) :
         /\ step.do \in {"named", "content", "relist", "write"} => step.at \notin MutableSlots(f)
         /\ f # "goproxy" /\ step.do \in {"match", "drop"} => step.at \notin LastingSlots(f)
         /\ f # "goproxy" /\ step.do = "renew" => step.by \notin LastingSlots(f)

Settled == \A i \in Readers : reader[i].end # "idle"
Rest == Settled /\ UNCHANGED remoteVars

RemoteNext ==
  \/ \E i \in Readers :
       \/ \E program \in Remotes[format].reads : Request(i, program)
       \/ FromCache(i) \/ Get(i) \/ Store(i) \/ Handle(i) \/ BreakOff(i) \/ LoseWrite(i)
  \/ ~Settled /\ (Upload \/ Withdraw \/ Outage \/ Expire \/ \E all \in BOOLEAN : Purge(all))
  \/ Rest

RemoteSpec == RemoteInit /\ [][RemoteNext]_remoteVars

(***************************************************************************)
(* Properties.                                                             *)
(***************************************************************************)
\* A request that begins when no TTL runs answers every document that changes
\* with what the upstream then has, or a later revision: an expired copy is not
\* served while the upstream answers. (Not the version list of goproxy, which is
\* made again from itself.)
ExpiredRefetched ==
  \A i \in Readers : ~reader[i].outdated

\* A request for what is cached is answered while the upstream is unreachable,
\* whatever the requests beside it do.
CachedAnswered ==
  \A i \in Readers : reader[i].covered => reader[i].end \in {"idle", "ok"}
=============================================================================
