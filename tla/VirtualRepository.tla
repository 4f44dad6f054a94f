-------------------------- MODULE VirtualRepository --------------------------
(* A virtual repository: the requests of a format's Virtual, carried out    *)
(* member by member in the configured order, while members are published    *)
(* to, deleted from, fail, are denied to the client or are configured away. *)
EXTENDS Integers, FiniteSets, SystemFormats, LanguageFormats, LibraryFormats,
        ToolFormats

CONSTANTS
  VirtualNames, \* the formats of this instance
  Members,      \* the members, in the configured order, 1..n
  Keys,         \* the versions (files, names) of the members, by age, 1..n
  MaxChanges,   \* the changes and failures of members
  MaxWalks      \* the requests of a behaviour

ASSUME VirtualAssumption ==
  /\ Cardinality(Members) \in Nat \ {0} /\ Members = 1..Cardinality(Members)
  /\ Cardinality(Keys) \in Nat /\ Keys = 1..Cardinality(Keys)

Virtuals ==
  [generic |-> GenericVirtual, apt |-> AptVirtual, rpm |-> RpmVirtual,
   alpine |-> AlpineVirtual, conda |-> CondaVirtual, cran |-> CranVirtual, p2 |-> P2Virtual,
   vagrant |-> VagrantVirtual, gitlfs |-> GitlfsVirtual, huggingface |-> HuggingfaceVirtual,
   nuget |-> NugetVirtual, pypi |-> PypiVirtual, npm |-> NpmVirtual, cargo |-> CargoVirtual,
   rubygems |-> RubygemsVirtual, composer |-> ComposerVirtual, pub |-> PubVirtual,
   swift |-> SwiftVirtual, conan |-> ConanVirtual, cocoapods |-> CocoapodsVirtual,
   bower |-> BowerVirtual, maven |-> MavenVirtual, goproxy |-> GoproxyVirtual,
   helm |-> HelmVirtual, terraform |-> TerraformVirtual, ansible |-> AnsibleVirtual,
   chef |-> ChefVirtual, puppet |-> PuppetVirtual, docker |-> DockerVirtual]

VARIABLES
  virtual, \* the format
  member,  \* the revision of each key a member has, 0 for none, and whether it serves
  walk,    \* the request
  walks,   \* the requests begun
  kept,    \* the merged document kept in memory
  changes  \* the changes of members so far

virtualVars == <<virtual, member, walk, walks, kept, changes>>

\* A document is a set of entries.
ItemOf(m, k) == [of |-> m, key |-> k, rev |-> member[m].at[k]]
Document(m) == {ItemOf(m, k) : k \in {k \in Keys : member[m].at[k] # 0}}

\* Resolve, CheckGate and the member's ServeHTTP: what a member answers, nothing
\* when it is not there, refuses or fails.
Body(m) == IF member[m].up THEN Document(m) ELSE {}

\* do: the step; key: the key asked for, 0 for all; at: the member to visit next, 0
\* between requests; heads: what the members answered in the first round; got: the
\* answer. For the properties: lasting, the entries that were served all the time
\* since the request began; ever, those a member had at some time since.
NoWalk == [do |-> "none", key |-> 0, at |-> 0, round |-> 1, heads |-> {}, got |-> {},
           lasting |-> {}, ever |-> {}, excused |-> FALSE]
NothingKept == [key |-> {}, doc |-> {}, fresh |-> FALSE, spoiled |-> FALSE]

VirtualInit ==
  /\ virtual \in VirtualNames
  /\ member \in [Members -> [at : [Keys -> {0, 1}], up : {TRUE}]]
  /\ walk = NoWalk
  /\ walks = 0
  /\ kept = NothingKept
  /\ changes = 0

Single == {"first", "probe", "route"}
TwoRounds == {"timed", "keyed"}
Walking == walk.at # 0

\* A request, for the member named in its path where the format has it so. The
\* merged document of apt answers while its 30 seconds run. (A second request is
\* like the first but where something was kept.)
Ask(do, key, name) ==
  /\ ~Walking /\ walks < MaxWalks
  /\ walks > 0 => do = walk.do /\ do \in TwoRounds
  /\ IF do \in Single THEN key \in Keys ELSE key = 0
  /\ IF do = "route" THEN name \in Members ELSE name = 1
  /\ walks' = walks + 1
  /\ walk' =
       IF do = "timed" /\ kept.fresh
         THEN [NoWalk EXCEPT !.do = do, !.got = kept.doc, !.excused = TRUE]
         ELSE [NoWalk EXCEPT !.do = do, !.key = key, !.at = name,
                 !.lasting = UNION {Body(m) : m \in IF do = "route" THEN {name} ELSE Members},
                 !.ever = UNION {Document(m) : m \in Members}]
  /\ UNCHANGED <<virtual, member, kept, changes>>

(***************************************************************************)
(* The walk: ForEachMember and the function it is given.                   *)
(***************************************************************************)
Hit(m) == {e \in Body(m) : e.key = walk.key}

\* Faulty: the entry of a later member replaces that of an earlier one.
FaultyMerged(got, new) == {f \in got : \A e \in new : e.key # f.key} \cup new
Merged(got, new) == got \cup {e \in new : \A f \in got : f.key # e.key}

\* Of a package the newest version alone, of the first member among equals.
NewestOf(got, new) ==
  LET all == got \cup new
  IN {e \in all : \A f \in all : f.key < e.key \/ (f.key = e.key /\ e.of <= f.of)}

\* The request is answered, or goes on with the next member.
Answer(got) == walk' = [walk EXCEPT !.at = 0, !.got = got, !.heads = {}] /\ UNCHANGED kept
Further(got) ==
  IF walk.at + 1 \in Members THEN walk' = [walk EXCEPT !.at = @ + 1, !.got = got] /\ UNCHANGED kept
                             ELSE Answer(got)

Visit ==
  /\ Walking /\ walk.do \notin TwoRounds
  /\ LET m == walk.at
     IN \/ /\ walk.do = "first"
           /\ IF Hit(m) # {} THEN Answer(Hit(m)) ELSE Further({})
        \/ walk.do = "route" /\ Answer(Hit(m))
        \/ walk.do = "merge" /\ Further(Merged(walk.got, Body(m)))
        \/ walk.do = "latest" /\ Further(NewestOf(walk.got, Body(m)))
        \/ /\ walk.do = "probe" /\ walk.round = 1
           /\ IF Hit(m) # {} THEN walk' = [walk EXCEPT !.round = 2] /\ UNCHANGED kept
                             ELSE Further({})
        \/ /\ walk.do = "probe" /\ walk.round = 2
           /\ walk' = [walk EXCEPT !.at = 0, !.got = Hit(m), !.excused = Hit(m) = {}]
           /\ UNCHANGED kept
  /\ UNCHANGED <<virtual, member, walks, changes>>

\* rpm and apt ask every member for its head (repomd.xml, Release) first. rpm has
\* kept the document made from these heads; apt makes none without a head.
Remember(doc, heads, spoiled) ==
  kept' = [key |-> heads, doc |-> doc, fresh |-> TRUE, spoiled |-> spoiled]
AskHead ==
  /\ Walking /\ walk.do \in TwoRounds /\ walk.round = 1
  /\ LET m == walk.at
         heads == walk.heads \cup
                    (IF member[m].up THEN {[of |-> m, doc |-> Document(m)]} ELSE {})
     IN \/ /\ m + 1 \in Members
           /\ walk' = [walk EXCEPT !.at = m + 1, !.heads = heads] /\ UNCHANGED kept
        \/ /\ m + 1 \notin Members
           /\ \/ /\ walk.do = "keyed" /\ kept.key = heads
                 /\ walk' = [walk EXCEPT !.at = 0, !.heads = {}, !.got = kept.doc,
                                         !.excused = kept.spoiled]
                 /\ UNCHANGED kept
              \/ /\ walk.do = "timed" /\ heads = {}
                 /\ walk' = [walk EXCEPT !.at = 0] /\ Remember({}, {}, FALSE)
              \/ /\ kept.key # heads \/ (walk.do = "timed" /\ heads # {})
                 /\ walk' = [walk EXCEPT !.at = 1, !.round = 2, !.heads = heads]
                 /\ UNCHANGED kept
  /\ UNCHANGED <<virtual, member, walks, changes>>

\* The second round. The document of rpm is named by its digest in the head: once
\* the member has changed the older one may be gone. A member whose document
\* cannot be read is left out, and what is made is kept all the same.
ReadBy(m) ==
  LET head == {h \in walk.heads : h.of = m}
  IN IF walk.do = "timed" THEN {Body(m)}
     ELSE IF head = {} THEN {{}}
     ELSE UNION {IF ~member[m].up THEN {{}}
                 ELSE IF h.doc = Document(m) THEN {h.doc} ELSE {{}, h.doc} : h \in head}
Collect ==
  /\ Walking /\ walk.do \in TwoRounds /\ walk.round = 2
  /\ \E body \in ReadBy(walk.at) :
       LET m == walk.at
           got == Merged(walk.got, body)
           lost == \E h \in walk.heads : h.of = m /\ walk.do = "keyed" /\ h.doc # body
           excused == walk.excused \/ lost
       IN IF m + 1 \in Members
            THEN walk' = [walk EXCEPT !.at = m + 1, !.got = got, !.excused = excused]
                 /\ UNCHANGED kept
            ELSE /\ walk' = [walk EXCEPT !.at = 0, !.heads = {}, !.got = got, !.excused = excused]
                 /\ Remember(got, walk.heads, excused)
  /\ UNCHANGED <<virtual, member, walks, changes>>

(***************************************************************************)
(* The members and the clock.                                              *)
(***************************************************************************)
Changing == changes < MaxChanges /\ changes' = changes + 1 /\ Walking

\* A key is deleted, or published anew: revision 2 in place of none or of the first.
Change(m, k, rev) ==
  /\ Changing /\ rev # member[m].at[k]
  /\ member' = [member EXCEPT ![m].at[k] = rev]
  /\ walk' = [walk EXCEPT !.lasting = {e \in @ : ~(e.of = m /\ e.key = k)},
                          !.ever = @ \cup (IF rev = 0 THEN {}
                                           ELSE {[of |-> m, key |-> k, rev |-> rev]})]
  /\ UNCHANGED <<virtual, walks, kept>>

\* A member fails, is denied or is configured away, or is back.
Switch(m) ==
  /\ Changing
  /\ member' = [member EXCEPT ![m].up = ~@]
  /\ walk' = [walk EXCEPT !.lasting = {e \in @ : e.of # m}]
  /\ UNCHANGED <<virtual, walks, kept>>

Lapse ==
  /\ ~Walking /\ walk.do = "timed" /\ kept.fresh
  /\ kept' = [kept EXCEPT !.fresh = FALSE]
  /\ UNCHANGED <<virtual, member, walk, walks, changes>>

VirtualNext ==
  \/ \E program \in Virtuals[virtual], key \in Keys \cup {0}, name \in Members :
       Ask(program[1].do, key, name)
  \/ Visit \/ AskHead \/ Collect \/ Lapse
  \/ \E m \in Members : Switch(m) \/ \E k \in Keys, rev \in {0, 2} : Change(m, k, rev)

VirtualSpec == VirtualInit /\ [][VirtualNext]_virtualVars

(***************************************************************************)
(* Properties.                                                             *)
(***************************************************************************)
\* Whatever happens to the members meanwhile, an answered request has every entry
\* that a member served throughout, or that of an earlier member for the same key,
\* so that the entry read and the file fetched are of one member; and it has none
\* that no member had meanwhile. (A listing of the newest version alone may have a
\* newer one. Not: what apt serves again for 30 seconds; what rpm made, and serves
\* again until a repomd.xml changes, when a member's documents could not be read
\* after its repomd.xml; and an object lost between its probe and its answer.)
EarliestServed ==
  ~Walking /\ ~walk.excused =>
    /\ walk.got \subseteq walk.ever
    /\ \A e \in walk.lasting :
         walk.key \in {0, e.key} =>
           \E f \in walk.got : \/ f.key = e.key /\ f.of <= e.of
                               \/ f.key > e.key /\ walk.do = "latest"
=============================================================================
