-------------------------- MODULE RepositoryProofs --------------------------
(* Proofs about virtual and proxied repositories.  Virtual: what one answers, *)
(* for every number of members and keys and every order of their changes, by  *)
(* the walk over the members with what it owes to those it has visited.       *)
(* Proxied: what is cached is served while the upstream is unreachable, and   *)
(* what has expired is asked for again while it answers, for any number of    *)
(* requests, revisions and events, whichever formats let requests overlap.    *)
EXTENDS VirtualRepository, RemoteCache, WellFoundedInduction, TLAPS

(***************************************************************************)
(* Virtual repositories.                                                   *)
(***************************************************************************)
\* The entries of members, and the heads they answer.
Item == [of : Members, key : Keys, rev : Nat]
HeadOf == [of : Members, doc : SUBSET Item]
Dos == {program[1].do : program \in UNION {Virtuals[v] : v \in VirtualNames}}
Walk == [do : Dos \cup {"none"}, key : Keys \cup {0}, at : Members \cup {0}, round : {1, 2},
         heads : SUBSET HeadOf, got : SUBSET Item, lasting : SUBSET Item, ever : SUBSET Item,
         excused : BOOLEAN]
ShapeInv ==
  /\ virtual \in VirtualNames
  /\ member \in [Members -> [at : [Keys -> Nat], up : BOOLEAN]]
  /\ walk \in Walk
  /\ kept \in [key : SUBSET HeadOf, doc : SUBSET Item, fresh : BOOLEAN, spoiled : BOOLEAN]
  /\ walks \in Nat
  /\ walks = 0 => walk = NoWalk /\ kept = NothingKept

Covered(e, got) == \E f \in got : f.key = e.key /\ f.of <= e.of
Outdone(e, got) == \E f \in got : f.key > e.key

\* What the request knows of its members: an entry served all the time is served now,
\* and all that is there now was there at some time; heads are of the time since.
MemberInv ==
  Walking =>
    /\ \A m \in Members : Document(m) \subseteq walk.ever
    /\ \A e \in walk.lasting : e \in Body(e.of)
    /\ walk.got \subseteq walk.ever
    /\ \A f \in walk.got : f.of < walk.at
    /\ \A h \in walk.heads : h.doc \subseteq walk.ever /\ \A e \in h.doc : e.of = h.of

\* What the walk owes to the entries of the members it has visited.
SingleInv ==
  Walking /\ walk.do \in Single =>
    /\ walk.key \in Keys
    /\ \A e \in walk.lasting : IF walk.do = "route" THEN e.of = walk.at
                               ELSE e.key = walk.key => walk.at <= e.of
ListInv ==
  Walking /\ (walk.do = "merge" \/ (walk.do = "timed" /\ walk.round = 2)) =>
    \A e \in walk.lasting : e.of < walk.at => Covered(e, walk.got)
LatestInv ==
  Walking /\ walk.do = "latest" =>
    \A e \in walk.lasting : e.of < walk.at => Covered(e, walk.got) \/ Outdone(e, walk.got)
HeadInv ==
  Walking /\ walk.do \in TwoRounds =>
    /\ walk.round = 1 => walk.got = {}
    /\ \A e \in walk.lasting :
         e.of < walk.at \/ walk.round = 2 => \E h \in walk.heads : e \in h.doc
KeyedInv ==
  Walking /\ walk.do = "keyed" /\ walk.round = 2 =>
    /\ \A f \in walk.got : \E h \in walk.heads : f \in h.doc
    /\ ~walk.excused =>
         \A h \in walk.heads : h.of < walk.at => \A e \in h.doc : Covered(e, walk.got)

\* What is kept for the heads is what a walk over them makes, but where a document
\* could not be read.
KeptInv ==
  walk.do = "keyed" /\ ~kept.spoiled =>
    /\ \A f \in kept.doc : \E h \in kept.key : f \in h.doc
    /\ \A h \in kept.key : \A e \in h.doc : Covered(e, kept.doc)

ServedInv ==
  /\ ShapeInv /\ MemberInv /\ SingleInv /\ ListInv /\ LatestInv /\ HeadInv /\ KeyedInv /\ KeptInv
  /\ EarliestServed

------------------------------------------------------------------------------
LEMMA MemberFacts ==
  /\ 1 \in Members /\ \A m \in Members : m \in Nat /\ m >= 1
  /\ \A m \in Members : m + 1 \notin Members => \A k \in Members : k <= m
  /\ \A k \in Keys : k \in Nat /\ k >= 1
BY VirtualAssumption

\* Every set of naturals has a least element, and one that is bounded a greatest.
LEMMA LeastNat ==
  ASSUME NEW T \in SUBSET Nat, T # {}
  PROVE  \E x \in T : \A y \in T : x <= y
<1> DEFINE R == OpToRel(<, Nat)
<1>1. IsWellFoundedOn(R, Nat)
  BY NatLessThanWellFounded
<1>2. \A x, y \in Nat : <<x, y>> \in R <=> x < y
  BY DEF OpToRel
<1> HIDE DEF R
<1>3. PICK x \in T : \A y \in T : ~(<<y, x>> \in R)
  BY <1>1, WFMin
<1>4. \A y \in T : ~(y < x)
  BY <1>2, <1>3
<1>5. \A y \in T : x <= y
  BY <1>4
<1> QED BY <1>5

LEMMA GreatestKey ==
  ASSUME NEW S \in SUBSET Keys, S # {}
  PROVE  \E x \in S : \A y \in S : y <= x
<1>1. PICK n \in Nat : Keys = 1..n
  BY VirtualAssumption
<1> DEFINE T == {k \in Nat : n - k \in S}
<1>2. T # {}
  <2>1. PICK s : s \in S
    OBVIOUS
  <2>2. n - s \in Nat /\ n - (n - s) = s
    BY <1>1, <2>1
  <2> QED BY <2>1, <2>2
<1>3. PICK k \in T : \A j \in T : k <= j
  BY <1>2, LeastNat
<1>4. \A y \in S : n - y \in T
  BY <1>1
<1> QED BY <1>1, <1>3, <1>4

LEMMA DocumentFacts ==
  ASSUME ShapeInv, NEW m \in Members
  PROVE  /\ Document(m) \subseteq Item /\ Body(m) \subseteq Document(m)
         /\ \A e \in Document(m) : e.of = m
         /\ \A e \in Item : e \in Document(m) <=> e.of = m /\ e.rev = member[m].at[e.key] /\ e.rev # 0
         /\ \A e : e \in Body(m) <=> e \in Document(m) /\ member[m].up
<1>1. member[m] \in [at : [Keys -> Nat], up : BOOLEAN]
  BY DEF ShapeInv
<1>2. \A e : e \in Document(m) <=> \E k \in Keys : member[m].at[k] # 0 /\ e = ItemOf(m, k)
  BY DEF Document
<1>3. \A k \in Keys : ItemOf(m, k) \in Item /\ ItemOf(m, k).of = m /\ ItemOf(m, k).key = k
                      /\ ItemOf(m, k).rev = member[m].at[k]
  BY <1>1 DEF ItemOf, Item
<1>4. ASSUME NEW e \in Item, e.of = m, e.rev = member[m].at[e.key], e.rev # 0 PROVE e \in Document(m)
  <2>1. e = ItemOf(m, e.key) /\ e.key \in Keys
    BY <1>4 DEF Item, ItemOf
  <2> QED BY <1>2, <1>4, <2>1
<1>5. \A e \in Document(m) : e \in Item /\ e.of = m /\ e.rev = member[m].at[e.key] /\ e.rev # 0
  BY <1>2, <1>3
<1>6. \A e : e \in Body(m) <=> e \in Document(m) /\ member[m].up
  BY DEF Body
<1> QED BY <1>4, <1>5, <1>6

\* A merged listing has what it had and, for every key of the next member, an entry.
LEMMA MergedFacts ==
  ASSUME NEW got \in SUBSET Item, NEW new \in SUBSET Item, NEW at \in Members,
         \A f \in got : f.of < at, \A e \in new : e.of = at
  PROVE  /\ Merged(got, new) \subseteq got \cup new /\ got \subseteq Merged(got, new)
         /\ \A f \in Merged(got, new) : f.of < at + 1
         /\ \A e \in new : Covered(e, Merged(got, new))
         /\ \A e \in Item : Covered(e, got) => Covered(e, Merged(got, new))
<1>1. /\ Merged(got, new) \subseteq got \cup new /\ got \subseteq Merged(got, new)
      /\ at \in Nat /\ \A f \in got \cup new : f.of \in Nat
  BY MemberFacts DEF Merged, Item
<1>2. ASSUME NEW e \in new PROVE Covered(e, Merged(got, new))
  <2>1. CASE \A f \in got : f.key # e.key
    BY <1>1, <1>2, <2>1 DEF Merged, Covered
  <2>2. CASE \E f \in got : f.key = e.key
    <3>1. PICK f \in got : f.key = e.key
      BY <2>2
    <3>2. f \in Merged(got, new) /\ f.of <= e.of
      BY <1>1, <1>2, <3>1
    <3> QED BY <3>1, <3>2 DEF Covered
  <2> QED BY <2>1, <2>2
<1>3. \A f \in Merged(got, new) : f.of < at + 1
  BY <1>1
<1> QED BY <1>1, <1>2, <1>3 DEF Covered

\* The newest version of all outdoes every other, and is of the first that has it.
LEMMA NewestFacts ==
  ASSUME NEW got \in SUBSET Item, NEW new \in SUBSET Item
  PROVE  /\ NewestOf(got, new) \subseteq got \cup new
         /\ \A e \in got \cup new : Covered(e, NewestOf(got, new)) \/ Outdone(e, NewestOf(got, new))
         /\ \A e \in Item : Covered(e, got) \/ Outdone(e, got)
                              => Covered(e, NewestOf(got, new)) \/ Outdone(e, NewestOf(got, new))
<1> DEFINE all == got \cup new
           N == NewestOf(got, new)
<1>1. \A e \in all : e.key \in Keys /\ e.key \in Nat /\ e.of \in Nat
  BY MemberFacts DEF Item
<1>2. N \subseteq all
  BY DEF NewestOf
<1>3. ASSUME NEW e \in Item, NEW g \in all, g.key > e.key \/ (g.key = e.key /\ g.of <= e.of)
      PROVE  Covered(e, N) \/ Outdone(e, N)
  <2>0. e.key \in Nat /\ e.of \in Nat
    BY MemberFacts DEF Item
  <2>1. PICK x \in all : \A y \in all : y.key <= x.key
    <3> DEFINE S == {y.key : y \in all}
    <3>1. S \in SUBSET Keys /\ S # {}
      BY <1>1
    <3>2. PICK k \in S : \A j \in S : j <= k
      <4> HIDE DEF S
      <4> QED BY <3>1, GreatestKey
    <3> QED BY <3>2
  <2>2. PICK z \in all : z.key = x.key /\ \A y \in all : y.key = x.key => z.of <= y.of
    <3> DEFINE S == {y.of : y \in {w \in all : w.key = x.key}}
    <3>1. S \in SUBSET Nat /\ S # {}
      BY <1>1, <2>1
    <3>2. PICK k \in S : \A j \in S : k <= j
      <4> HIDE DEF S
      <4> QED BY <3>1, LeastNat
    <3> QED BY <3>2
  <2>3. z \in N
    <3>1. \A f \in all : f.key < z.key \/ (f.key = z.key /\ z.of <= f.of)
      BY <1>1, <2>1, <2>2
    <3> QED BY <3>1 DEF NewestOf
  <2>4. z.key > e.key \/ (z.key = e.key /\ z.of <= e.of)
    BY <1>1, <1>3, <2>0, <2>1, <2>2
  <2> QED BY <2>3, <2>4 DEF Covered, Outdone
<1>4. \A e \in all : e \in Item /\ e.of <= e.of
  BY <1>1
<1> HIDE DEF N
<1>5. \A e \in all : Covered(e, N) \/ Outdone(e, N)
  BY <1>3, <1>4
<1>6. \A e \in Item : Covered(e, got) \/ Outdone(e, got) => Covered(e, N) \/ Outdone(e, N)
  BY <1>3 DEF Covered, Outdone
<1> QED BY <1>2, <1>5, <1>6 DEF N

------------------------------------------------------------------------------
\* A request is answered: what remains of it is its answer.
LEMMA Answered ==
  ASSUME ShapeInv', KeptInv', walk'.at = 0, EarliestServed'
  PROVE  ServedInv'
BY DEF ServedInv, Walking, MemberInv, SingleInv, ListInv, LatestInv, HeadInv, KeyedInv

\* The fields of the request and of what is kept, for every step.
LEMMA WalkFields ==
  ASSUME ShapeInv
  PROVE  /\ walk.do \in Dos \cup {"none"} /\ walk.key \in Keys \cup {0} /\ walk.at \in Members \cup {0}
         /\ walk.at \in Nat /\ walk.round \in {1, 2} /\ walk.heads \in SUBSET HeadOf
         /\ walk.got \in SUBSET Item /\ walk.lasting \in SUBSET Item /\ walk.ever \in SUBSET Item
         /\ walk.excused \in BOOLEAN
<1>1. walk \in Walk
  BY DEF ShapeInv
<1>2. walk.at \in Members \cup {0}
  BY <1>1 DEF Walk
<1>3. walk.at \in Nat
  BY <1>2, MemberFacts
<1> QED BY <1>1, <1>3 DEF Walk

LEMMA AskServed ==
  ASSUME ServedInv, NEW program \in Virtuals[virtual], NEW key \in Keys \cup {0}, NEW name \in Members,
         Ask(program[1].do, key, name)
  PROVE  ServedInv'
<1>1. ShapeInv /\ KeptInv
  BY DEF ServedInv
<1>2. PICK do \in Dos : do = program[1].do
  BY <1>1 DEF Dos, ShapeInv
<1>3. /\ Ask(do, key, name) /\ UNCHANGED <<virtual, member, kept>> /\ walks' = walks + 1 /\ walks \in Nat
      /\ \A m \in Members : Body(m)' = Body(m) /\ Document(m)' = Document(m)
      /\ walk.do = do \/ kept = NothingKept
  BY <1>1, <1>2 DEF Ask, ShapeInv, Body, Document, ItemOf
<1>4. KeptInv' <=> (walk'.do = "keyed" /\ ~kept.spoiled =>
                      /\ \A f \in kept.doc : \E h \in kept.key : f \in h.doc
                      /\ \A h \in kept.key : \A e \in h.doc : Covered(e, kept.doc))
  BY <1>3 DEF KeptInv, Covered
<1>5. ASSUME walk'.do = do PROVE KeptInv'
  <2>1. CASE walk.do = do
    BY <1>1, <1>4, <1>5, <2>1 DEF KeptInv
  <2>2. CASE kept = NothingKept
    <3>1. kept.doc = {} /\ kept.key = {}
      BY <2>2 DEF NothingKept
    <3> QED BY <1>4, <3>1
  <2> QED BY <1>3, <2>1, <2>2
<1>6. CASE do = "timed" /\ kept.fresh
  <2>1. walk' = [NoWalk EXCEPT !.do = do, !.got = kept.doc, !.excused = TRUE]
    BY <1>3, <1>6 DEF Ask
  <2>2. walk'.at = 0 /\ walk'.excused = TRUE /\ walk'.do = do
    BY <2>1 DEF NoWalk
  <2>3. ShapeInv'
    <3>1. walk' \in Walk
      BY <1>1, <2>1 DEF NoWalk, Walk, ShapeInv
    <3> QED BY <1>1, <1>3, <3>1 DEF ShapeInv
  <2>4. EarliestServed'
    BY <2>2 DEF EarliestServed
  <2> QED BY <1>5, <2>2, <2>3, <2>4, Answered
<1>7. CASE ~(do = "timed" /\ kept.fresh)
  <2> DEFINE lasting == UNION {Body(m) : m \in IF do = "route" THEN {name} ELSE Members}
             ever == UNION {Document(m) : m \in Members}
  <2>1. walk' = [NoWalk EXCEPT !.do = do, !.key = key, !.at = name, !.lasting = lasting, !.ever = ever]
    BY <1>3, <1>7 DEF Ask
  <2>2. /\ lasting \subseteq ever /\ ever \subseteq Item
        /\ \A e \in lasting : e \in Body(e.of)
        /\ do = "route" => \A e \in lasting : e.of = name
        /\ \A m \in Members : Document(m) \subseteq ever
    BY <1>1, DocumentFacts
  <2> HIDE DEF lasting, ever
  <2>3. /\ walk'.do = do /\ walk'.key = key /\ walk'.at = name /\ walk'.lasting = lasting
        /\ walk'.ever = ever /\ walk'.got = {} /\ walk'.heads = {} /\ walk'.round = 1
    BY <2>1 DEF NoWalk
  <2>4. ShapeInv'
    <3>1. walk' \in Walk
      BY <2>1, <2>2 DEF NoWalk, Walk
    <3> QED BY <1>1, <1>3, <3>1 DEF ShapeInv
  <2>5. /\ do \in Single => key \in Keys
        /\ do # "route" => name = 1
    BY <1>3 DEF Ask
  <2>6. \A e \in lasting : e.of \in Members /\ e.of >= 1 /\ e.of \in Nat
    <3>1. \A e \in lasting : e.of \in Members
      BY <2>2 DEF Item
    <3> QED BY <3>1, MemberFacts
  <2>7. MemberInv'
    <3>1. \A e \in lasting : e \in Body(e.of)'
      BY <1>3, <2>2, <2>6
    <3>2. \A m \in Members : Document(m)' \subseteq ever
      BY <1>3, <2>2
    <3> QED BY <2>3, <3>1, <3>2 DEF MemberInv
  <2>8. SingleInv'
    BY <2>2, <2>3, <2>5, <2>6 DEF SingleInv
  <2>9. ListInv' /\ LatestInv' /\ HeadInv'
    BY <2>3, <2>5, <2>6 DEF ListInv, LatestInv, HeadInv, TwoRounds
  <2>10. KeyedInv'
    BY <2>3 DEF KeyedInv
  <2>11. EarliestServed'
    BY <2>3, MemberFacts DEF EarliestServed, Walking
  <2> QED BY <1>5, <2>3, <2>4, <2>7, <2>8, <2>9, <2>10, <2>11 DEF ServedInv
<1> QED BY <1>6, <1>7

\* What stays true of the members while a request goes on.
LEMMA SameMembers ==
  ASSUME ServedInv, Walking, UNCHANGED <<virtual, member, walks>>,
         walk'.lasting = walk.lasting, walk'.ever = walk.ever
  PROVE  /\ \A m \in Members : Document(m)' \subseteq walk'.ever
         /\ \A e \in walk'.lasting : e \in Body(e.of)'
         /\ \A e \in walk.lasting : e.of \in Members /\ e.of \in Nat /\ e.key \in Keys /\ e \in Body(e.of)
         /\ walk.at \in Members /\ walk.at \in Nat /\ walks > 0 /\ walks \in Nat
         /\ \A m \in Members : Document(m) \subseteq walk.ever /\ Body(m) \subseteq Document(m)
                               /\ Document(m) \subseteq Item /\ \A e \in Document(m) : e.of = m
<1>1. ShapeInv /\ MemberInv
  BY DEF ServedInv
<1>2. \A m \in Members : Body(m)' = Body(m) /\ Document(m)' = Document(m)
  BY DEF Body, Document, ItemOf
<1>3. \A e \in walk.lasting : e.of \in Members /\ e.key \in Keys
  <2>1. walk.lasting \subseteq Item
    BY <1>1, WalkFields
  <2> QED BY <2>1 DEF Item
<1>4. \A e \in walk.lasting : e.of \in Nat
  BY <1>3, MemberFacts
<1>5. walk.at \in Members /\ walk.at \in Nat
  BY <1>1, WalkFields DEF Walking
<1>6. walks > 0 /\ walks \in Nat
  BY <1>1 DEF ShapeInv, Walking, NoWalk
<1> QED BY <1>1, <1>2, <1>3, <1>4, <1>5, <1>6, DocumentFacts DEF MemberInv

\* A listing goes on with the next member, or with none it is answered.
LEMMA FurtherServed ==
  ASSUME ServedInv, Walking, walk.do \in {"first", "probe", "merge", "latest"},
         UNCHANGED <<virtual, member, walks>>,
         NEW got \in SUBSET Item, Further(got), got \subseteq walk.ever, \A f \in got : f.of < walk.at + 1,
         walk.do \in {"first", "probe"} => Hit(walk.at) = {},
         walk.do = "merge" => \A e \in walk.lasting : e.of < walk.at + 1 => Covered(e, got),
         walk.do = "latest" =>
           \A e \in walk.lasting : e.of < walk.at + 1 => Covered(e, got) \/ Outdone(e, got)
  PROVE  ServedInv'
<1>1. ShapeInv /\ MemberInv /\ SingleInv /\ KeptInv
  BY DEF ServedInv
<1>2. walk \in Walk /\ UNCHANGED kept
  BY <1>1 DEF ShapeInv, Further, Answer
<1>3. ASSUME walk.do \in {"first", "probe"} PROVE \A e \in walk.lasting : e.key = walk.key => walk.at + 1 <= e.of
  <2> SUFFICES ASSUME NEW e \in walk.lasting, e.key = walk.key PROVE walk.at + 1 <= e.of
    OBVIOUS
  <2>1. walk.at <= e.of /\ e.of \in Nat /\ walk.at \in Nat
    <3>1. walk.at <= e.of
      BY <1>1, <1>3 DEF SingleInv, Single
    <3>2. e \in Item /\ walk.at \in Nat
      BY <1>1, WalkFields
    <3> QED BY <3>1, <3>2, MemberFacts DEF Item
  <2>2. e.of # walk.at
    BY <1>1, <1>3 DEF MemberInv, Hit
  <2> QED BY <2>1, <2>2
<1>4. CASE walk.at + 1 \in Members
  <2>1. walk' = [walk EXCEPT !.at = @ + 1, !.got = got]
    BY <1>4 DEF Further
  <2>2. /\ walk'.at = walk.at + 1 /\ walk'.got = got /\ walk'.do = walk.do /\ walk'.key = walk.key
        /\ walk'.lasting = walk.lasting /\ walk'.ever = walk.ever /\ walk'.heads = walk.heads
        /\ walk' \in Walk
    BY <1>2, <1>4, <2>1 DEF Walk
  <2>3. /\ \A m \in Members : Document(m)' \subseteq walk'.ever
        /\ \A e \in walk'.lasting : e \in Body(e.of)'
        /\ walk.at \in Nat /\ walks > 0 /\ walks \in Nat
    BY <2>2, SameMembers
  <2>4. ShapeInv'
    BY <1>1, <1>2, <2>2, <2>3 DEF ShapeInv
  <2>5. MemberInv'
    BY <1>1, <2>2, <2>3 DEF MemberInv
  <2>6. SingleInv'
    BY <1>1, <1>3, <2>2 DEF SingleInv, Single
  <2>7. ListInv' /\ LatestInv' /\ HeadInv' /\ KeyedInv'
    BY <2>2 DEF ListInv, LatestInv, HeadInv, KeyedInv, TwoRounds, Covered, Outdone
  <2>8. KeptInv'
    BY <2>2 DEF KeptInv
  <2>9. EarliestServed'
    BY <2>2, <2>3 DEF EarliestServed, Walking
  <2> QED BY <2>4, <2>5, <2>6, <2>7, <2>8, <2>9 DEF ServedInv
<1>5. CASE walk.at + 1 \notin Members
  <2>1. walk' = [walk EXCEPT !.at = 0, !.got = got, !.heads = {}]
    BY <1>5 DEF Further, Answer
  <2>2. /\ walk'.at = 0 /\ walk'.got = got /\ walk'.do = walk.do /\ walk'.key = walk.key
        /\ walk'.lasting = walk.lasting /\ walk'.ever = walk.ever /\ walk' \in Walk
    BY <1>2, <2>1 DEF Walk
  <2>3. /\ \A e \in walk.lasting : e.of \in Members /\ e.of \in Nat /\ e.key \in Keys
        /\ walk.at \in Members /\ walk.at \in Nat /\ walks > 0 /\ walks \in Nat
    BY <2>2, SameMembers
  <2>4. \A e \in walk.lasting : e.of < walk.at + 1
    BY <1>5, <2>3, MemberFacts
  <2>5. ASSUME walk.do \in {"first", "probe"}, NEW e \in walk.lasting PROVE walk.key \notin {0, e.key}
    <3>1. walk.key \in Keys /\ walk.key >= 1
      BY <1>1, <2>5, MemberFacts DEF SingleInv, Single
    <3>2. walk.key # e.key
      BY <1>3, <2>3, <2>4, <2>5
    <3> QED BY <3>1, <3>2, MemberFacts
  <2>6. EarliestServed'
    <3> SUFFICES ASSUME NEW e \in walk.lasting, walk.key \in {0, e.key}
                 PROVE  \E f \in got : \/ f.key = e.key /\ f.of <= e.of
                                       \/ f.key > e.key /\ walk.do = "latest"
      BY <2>2 DEF EarliestServed
    <3>1. walk.do \in {"merge", "latest"}
      BY <2>5
    <3> QED BY <2>4, <3>1 DEF Covered, Outdone
  <2>7. ShapeInv'
    BY <1>1, <1>2, <2>2, <2>3 DEF ShapeInv
  <2>8. KeptInv'
    BY <1>1, <1>2, <2>2 DEF KeptInv
  <2> QED BY <2>2, <2>6, <2>7, <2>8, Answered
<1> QED BY <1>4, <1>5

\* One member's answer is the whole answer.
LEMMA HitServed ==
  ASSUME ServedInv, Walking, walk.do \in Single, UNCHANGED <<virtual, member, walks, kept>>,
         NEW excused \in BOOLEAN, walk.do # "route" /\ Hit(walk.at) = {} => excused,
         \/ walk' = [walk EXCEPT !.at = 0, !.got = Hit(walk.at), !.heads = {}] /\ excused = walk.excused
         \/ walk' = [walk EXCEPT !.at = 0, !.got = Hit(walk.at), !.excused = excused]
  PROVE  ServedInv'
<1>1. ShapeInv /\ MemberInv /\ SingleInv /\ KeptInv /\ walk \in Walk
  BY DEF ServedInv, ShapeInv
<1>2. walk.at \in Members /\ walk.at \in Nat
  BY <1>1, WalkFields DEF Walking
<1>3. Hit(walk.at) \subseteq Body(walk.at) /\ \A f \in Hit(walk.at) : f.key = walk.key
  BY DEF Hit
<1>4. Hit(walk.at) \subseteq Item /\ \A f \in Hit(walk.at) : f.of = walk.at
  BY <1>1, <1>2, <1>3, DocumentFacts
<1>5. /\ walk'.at = 0 /\ walk'.got = Hit(walk.at) /\ walk'.do = walk.do /\ walk'.key = walk.key
      /\ walk'.lasting = walk.lasting /\ walk'.ever = walk.ever /\ walk'.excused = excused
      /\ walk' \in Walk
  <2>1. CASE walk' = [walk EXCEPT !.at = 0, !.got = Hit(walk.at), !.heads = {}] /\ excused = walk.excused
    BY <1>1, <1>4, <2>1 DEF Walk
  <2>2. CASE walk' = [walk EXCEPT !.at = 0, !.got = Hit(walk.at), !.excused = excused]
    BY <1>1, <1>4, <2>2 DEF Walk
  <2> QED BY <2>1, <2>2
<1>6. /\ \A e \in walk.lasting : e.of \in Members /\ e.of \in Nat /\ e.key \in Keys /\ e \in Body(e.of)
      /\ Document(walk.at) \subseteq walk.ever /\ Body(walk.at) \subseteq Document(walk.at)
      /\ walks > 0 /\ walks \in Nat
  BY <1>2, <1>5, SameMembers
<1>7. EarliestServed'
  <2> SUFFICES ASSUME ~excused
               PROVE  /\ Hit(walk.at) \subseteq walk.ever
                      /\ \A e \in walk.lasting :
                           walk.key \in {0, e.key} =>
                             \E f \in Hit(walk.at) : f.key = e.key /\ f.of <= e.of
    BY <1>5 DEF EarliestServed
  <2>1. ASSUME NEW e \in walk.lasting, walk.key \in {0, e.key}
        PROVE  \E f \in Hit(walk.at) : f.key = e.key /\ f.of <= e.of
    <3>1. walk.key \in Keys /\ walk.key >= 1 /\ walk.key \in Nat
      BY <1>1, MemberFacts DEF SingleInv
    <3>2. walk.key = e.key
      BY <2>1, <3>1
    <3>3. CASE walk.do = "route"
      <4>1. e.of = walk.at
        BY <1>1, <3>3 DEF SingleInv
      <4>2. e \in Hit(walk.at)
        BY <1>6, <3>2, <4>1 DEF Hit
      <4> QED BY <1>6, <4>2
    <3>4. CASE walk.do # "route"
      <4>1. walk.at <= e.of
        BY <1>1, <3>2, <3>4 DEF SingleInv
      <4>2. PICK f \in Hit(walk.at) : TRUE
        BY <3>4
      <4> QED BY <1>3, <1>4, <3>2, <4>1, <4>2
    <3> QED BY <3>3, <3>4
  <2> QED BY <1>3, <1>6, <2>1
<1>8. ShapeInv'
  BY <1>1, <1>5, <1>6 DEF ShapeInv
<1>9. KeptInv'
  BY <1>1, <1>5 DEF KeptInv
<1> QED BY <1>5, <1>7, <1>8, <1>9, Answered

LEMMA VisitServed ==
  ASSUME ServedInv, Visit
  PROVE  ServedInv'
<1>1. /\ ShapeInv /\ MemberInv /\ SingleInv /\ ListInv /\ LatestInv /\ KeptInv /\ walk \in Walk /\ Walking
      /\ UNCHANGED <<virtual, member, walks>>
  BY DEF ServedInv, ShapeInv, Visit
<1>2. PICK m \in Members : m = walk.at /\ m \in Nat
  BY <1>1, WalkFields DEF Walking
<1>3. walk.got \in SUBSET Item /\ walk.lasting \in SUBSET Item /\ walk.excused \in BOOLEAN
  BY <1>1, WalkFields
<1>4. /\ Body(m) \in SUBSET Item /\ Body(m) \subseteq walk.ever /\ \A e \in Body(m) : e.of = m
      /\ walk.got \subseteq walk.ever /\ \A f \in walk.got : f.of < m
  BY <1>1, <1>2, DocumentFacts DEF MemberInv
<1>5. \A e \in walk.lasting : e.of < m + 1 => e.of < m \/ e \in Body(m)
  <2>1. \A e \in walk.lasting : e.of \in Members /\ e \in Body(e.of)
    BY <1>1, <1>3 DEF MemberInv, Item
  <2>2. \A k \in Members : k < m + 1 => k < m \/ k = m
    BY <1>2, MemberFacts
  <2> QED BY <2>1, <2>2
<1>6. CASE walk.do = "first" /\ Hit(m) # {} /\ Answer(Hit(m))
  BY <1>1, <1>2, <1>3, <1>6, HitServed DEF Answer, Single
<1>7. CASE walk.do = "route" /\ Answer(Hit(m))
  BY <1>1, <1>2, <1>3, <1>7, HitServed DEF Answer, Single
<1>8. CASE walk.do \in {"first", "probe"} /\ Hit(m) = {} /\ Further({})
  BY <1>1, <1>2, <1>8, FurtherServed
<1>9. CASE walk.do = "merge" /\ Further(Merged(walk.got, Body(m)))
  <2>1. PICK got : got = Merged(walk.got, Body(m))
    OBVIOUS
  <2>2. /\ got \subseteq walk.got \cup Body(m) /\ \A f \in got : f.of < m + 1
        /\ \A e \in Body(m) : Covered(e, got)
        /\ \A e \in Item : Covered(e, walk.got) => Covered(e, got)
    BY <1>3, <1>4, <2>1, MergedFacts
  <2>3. \A e \in walk.lasting : e.of < m + 1 => Covered(e, got)
    BY <1>1, <1>2, <1>3, <1>5, <1>9, <2>2 DEF ListInv
  <2>4. got \in SUBSET Item /\ got \subseteq walk.ever
    BY <1>3, <1>4, <2>2
  <2> QED BY <1>1, <1>2, <1>9, <2>1, <2>2, <2>3, <2>4, FurtherServed
<1>10. CASE walk.do = "latest" /\ Further(NewestOf(walk.got, Body(m)))
  <2>1. PICK got : got = NewestOf(walk.got, Body(m))
    OBVIOUS
  <2>2. /\ got \subseteq walk.got \cup Body(m)
        /\ \A e \in Body(m) : Covered(e, got) \/ Outdone(e, got)
        /\ \A e \in Item : Covered(e, walk.got) \/ Outdone(e, walk.got) => Covered(e, got) \/ Outdone(e, got)
    BY <1>3, <1>4, <2>1, NewestFacts
  <2>3. \A e \in walk.lasting : e.of < m + 1 => Covered(e, got) \/ Outdone(e, got)
    BY <1>1, <1>2, <1>3, <1>5, <1>10, <2>2 DEF LatestInv
  <2>4. got \in SUBSET Item /\ got \subseteq walk.ever
    BY <1>3, <1>4, <2>2
  <2>5. \A f \in got : f.of < m + 1
    <3>1. \A f \in got : f.of \in Nat
      BY <2>4, MemberFacts DEF Item
    <3> QED BY <1>2, <1>4, <2>2, <3>1
  <2> QED BY <1>1, <1>2, <1>10, <2>1, <2>3, <2>4, <2>5, FurtherServed
<1>11. CASE walk.do = "probe" /\ walk' = [walk EXCEPT !.round = 2] /\ UNCHANGED kept
  <2>1. /\ walk'.at = walk.at /\ walk'.got = walk.got /\ walk'.do = walk.do /\ walk'.key = walk.key
        /\ walk'.lasting = walk.lasting /\ walk'.ever = walk.ever /\ walk'.heads = walk.heads
        /\ walk'.excused = walk.excused /\ walk' \in Walk
    BY <1>1, <1>11 DEF Walk
  <2>2. /\ \A k \in Members : Document(k)' \subseteq walk'.ever
        /\ \A e \in walk'.lasting : e \in Body(e.of)'
        /\ walks > 0 /\ walks \in Nat
    BY <1>1, <2>1, SameMembers
  <2>3. ShapeInv'
    BY <1>1, <1>11, <2>1, <2>2 DEF ShapeInv
  <2>4. MemberInv'
    BY <1>1, <2>1, <2>2 DEF MemberInv
  <2>5. SingleInv'
    BY <1>1, <2>1 DEF SingleInv
  <2>6. ListInv' /\ LatestInv' /\ HeadInv' /\ KeyedInv' /\ KeptInv'
    BY <1>11, <2>1 DEF ListInv, LatestInv, HeadInv, KeyedInv, KeptInv, TwoRounds
  <2>7. EarliestServed'
    BY <1>1, <2>1 DEF EarliestServed, Walking
  <2> QED BY <2>3, <2>4, <2>5, <2>6, <2>7 DEF ServedInv
<1>12. CASE /\ walk.do = "probe" /\ walk' = [walk EXCEPT !.at = 0, !.got = Hit(m), !.excused = Hit(m) = {}]
            /\ UNCHANGED kept
  <2>1. PICK excused \in BOOLEAN : excused = (Hit(m) = {})
    OBVIOUS
  <2>2. walk' = [walk EXCEPT !.at = 0, !.got = Hit(walk.at), !.excused = excused]
    BY <1>2, <1>12, <2>1
  <2>3. Hit(walk.at) = {} => excused
    BY <1>2, <2>1
  <2> QED BY <1>1, <1>12, <2>2, <2>3, HitServed DEF Single
<1> QED BY <1>2, <1>6, <1>7, <1>8, <1>9, <1>10, <1>11, <1>12 DEF Visit

\* The heads are asked for; then what is kept for them answers, or the second round is
\* begun.
LEMMA AskHeadServed ==
  ASSUME ServedInv, AskHead
  PROVE  ServedInv'
<1>1. /\ ShapeInv /\ MemberInv /\ HeadInv /\ KeptInv /\ walk \in Walk /\ Walking
      /\ walk.do \in TwoRounds /\ walk.round = 1 /\ UNCHANGED <<virtual, member, walks>>
  BY DEF ServedInv, ShapeInv, AskHead
<1>2. PICK m \in Members : m = walk.at /\ m \in Nat
  BY <1>1, WalkFields DEF Walking
<1>3. walk.got = {} /\ walk.lasting \in SUBSET Item /\ walk.heads \in SUBSET HeadOf
  BY <1>1, WalkFields DEF HeadInv
<1> DEFINE asked == walk.heads \cup (IF member[m].up THEN {[of |-> m, doc |-> Document(m)]} ELSE {})
<1>4. PICK heads : heads = asked
  OBVIOUS
<1>5. /\ Document(m) \in SUBSET Item /\ Document(m) \subseteq walk.ever /\ \A e \in Document(m) : e.of = m
      /\ \A e : e \in Body(m) <=> e \in Document(m) /\ member[m].up
  BY <1>1, <1>2, DocumentFacts DEF MemberInv
<1>6. heads \in SUBSET HeadOf
  BY <1>3, <1>4, <1>5 DEF HeadOf
<1>7. \A h \in heads : h.doc \subseteq walk.ever /\ \A e \in h.doc : e.of = h.of
  BY <1>1, <1>4, <1>5 DEF MemberInv
<1>8. /\ \A e \in walk.lasting : e.of \in Members /\ e.of \in Nat /\ e.key \in Keys /\ e \in Body(e.of)
      /\ walks > 0 /\ walks \in Nat
  <2>1. \A e \in walk.lasting : e.of \in Members /\ e.key \in Keys
    BY <1>3 DEF Item
  <2>2. walks > 0 /\ walks \in Nat
    BY <1>1 DEF ShapeInv, Walking, NoWalk
  <2> QED BY <1>1, <2>1, <2>2, MemberFacts DEF MemberInv
<1>9. ASSUME NEW e \in walk.lasting, e.of < m + 1 PROVE \E h \in heads : e \in h.doc
  <2>1. CASE e.of < m
    BY <1>1, <1>2, <1>4, <2>1 DEF HeadInv
  <2>2. CASE e.of = m
    <3>1. [of |-> m, doc |-> Document(m)] \in heads /\ e \in Document(m)
      BY <1>4, <1>5, <1>8, <2>2
    <3> QED BY <3>1
  <2> QED BY <1>2, <1>8, <1>9, <2>1, <2>2
<1>10. ASSUME m + 1 \notin Members, NEW e \in walk.lasting PROVE \E h \in heads : e \in h.doc
  <2>1. e.of < m + 1
    BY <1>2, <1>8, <1>10, MemberFacts
  <2> QED BY <1>9, <2>1
<1>11. ASSUME walk' \in Walk, walk'.at \in Members, walk'.do = walk.do, walk'.heads = heads, walk'.got = {},
              walk'.lasting = walk.lasting, walk'.ever = walk.ever, UNCHANGED kept,
              \/ walk'.round = 1 /\ walk'.at = m + 1
              \/ walk'.round = 2 /\ walk'.at = 1 /\ m + 1 \notin Members
       PROVE  ServedInv'
  <2>1. /\ \A k \in Members : Document(k)' \subseteq walk'.ever
        /\ \A e \in walk'.lasting : e \in Body(e.of)'
    BY <1>1, <1>11, SameMembers
  <2>2. ShapeInv'
    BY <1>1, <1>8, <1>11 DEF ShapeInv
  <2>3. MemberInv'
    BY <1>7, <1>11, <2>1 DEF MemberInv
  <2>4. \A e \in walk'.lasting : ~(e.of < 1)
    BY <1>8, <1>11, MemberFacts
  <2>5. SingleInv' /\ LatestInv'
    BY <1>1, <1>11 DEF SingleInv, LatestInv, Single, TwoRounds
  <2>6. ListInv'
    BY <1>1, <1>11, <2>4 DEF ListInv, TwoRounds
  <2>7. HeadInv'
    BY <1>9, <1>10, <1>11 DEF HeadInv
  <2>8. KeyedInv'
    <3>1. CASE walk'.round = 1
      BY <3>1 DEF KeyedInv
    <3>2. CASE walk'.round = 2
      <4>1. \A h \in heads : ~(h.of < 1)
        BY <1>6, MemberFacts DEF HeadOf
      <4> QED BY <1>11, <3>2, <4>1 DEF KeyedInv
    <3> QED BY <1>11, <3>1, <3>2
  <2>9. KeptInv'
    BY <1>1, <1>11 DEF KeptInv
  <2>10. EarliestServed'
    BY <1>11, MemberFacts DEF EarliestServed, Walking
  <2> QED BY <2>2, <2>3, <2>5, <2>6, <2>7, <2>8, <2>9, <2>10 DEF ServedInv
<1>12. CASE m + 1 \in Members /\ walk' = [walk EXCEPT !.at = m + 1, !.heads = heads] /\ UNCHANGED kept
  <2>1. /\ walk' \in Walk /\ walk'.at = m + 1 /\ walk'.do = walk.do /\ walk'.heads = heads /\ walk'.got = walk.got
        /\ walk'.lasting = walk.lasting /\ walk'.ever = walk.ever /\ walk'.round = walk.round
    BY <1>1, <1>6, <1>12 DEF Walk
  <2> QED BY <1>1, <1>3, <1>11, <1>12, <2>1
<1>13. CASE /\ m + 1 \notin Members /\ walk' = [walk EXCEPT !.at = 1, !.round = 2, !.heads = heads]
            /\ UNCHANGED kept
  <2>1. /\ walk' \in Walk /\ walk'.at = 1 /\ walk'.do = walk.do /\ walk'.heads = heads /\ walk'.got = walk.got
        /\ walk'.lasting = walk.lasting /\ walk'.ever = walk.ever /\ walk'.round = 2
    BY <1>1, <1>6, <1>13, MemberFacts DEF Walk
  <2> QED BY <1>3, <1>11, <1>13, <2>1, MemberFacts
<1>14. CASE /\ m + 1 \notin Members /\ walk.do = "keyed" /\ kept.key = heads /\ UNCHANGED kept
            /\ walk' = [walk EXCEPT !.at = 0, !.heads = {}, !.got = kept.doc, !.excused = kept.spoiled]
  <2>1. kept.doc \in SUBSET Item /\ kept.spoiled \in BOOLEAN
    BY <1>1 DEF ShapeInv
  <2>2. /\ walk' \in Walk /\ walk'.at = 0 /\ walk'.do = walk.do /\ walk'.got = kept.doc
        /\ walk'.lasting = walk.lasting /\ walk'.ever = walk.ever /\ walk'.excused = kept.spoiled
    BY <1>1, <1>14, <2>1 DEF Walk
  <2>3. EarliestServed'
    <3> SUFFICES ASSUME ~kept.spoiled
                 PROVE  kept.doc \subseteq walk.ever /\ \A e \in walk.lasting : Covered(e, kept.doc)
      BY <2>2 DEF EarliestServed, Covered
    <3>1. kept.doc \subseteq walk.ever
      BY <1>1, <1>7, <1>14 DEF KeptInv
    <3> QED BY <1>1, <1>10, <1>14, <3>1 DEF KeptInv
  <2>4. ShapeInv'
    BY <1>1, <1>8, <1>14, <2>2 DEF ShapeInv
  <2>5. KeptInv'
    BY <1>1, <1>14, <2>2 DEF KeptInv
  <2> QED BY <2>2, <2>3, <2>4, <2>5, Answered
<1>15. CASE /\ m + 1 \notin Members /\ walk.do = "timed" /\ heads = {}
            /\ walk' = [walk EXCEPT !.at = 0] /\ Remember({}, {}, FALSE)
  <2>1. /\ walk' \in Walk /\ walk'.at = 0 /\ walk'.do = walk.do /\ walk'.got = walk.got
        /\ walk'.lasting = walk.lasting /\ walk'.ever = walk.ever
    BY <1>1, <1>15 DEF Walk
  <2>2. walk.lasting = {}
    BY <1>10, <1>15
  <2>3. EarliestServed'
    BY <1>3, <2>1, <2>2 DEF EarliestServed
  <2>4. ShapeInv'
    BY <1>1, <1>8, <1>15, <2>1 DEF ShapeInv, Remember
  <2>5. KeptInv'
    BY <1>15, <2>1 DEF KeptInv
  <2> QED BY <2>1, <2>3, <2>4, <2>5, Answered
<1> QED BY <1>2, <1>4, <1>12, <1>13, <1>14, <1>15 DEF AskHead

\* The second round reads the documents: what is made of those that could be read
\* answers, and is kept.
LEMMA CollectServed ==
  ASSUME ServedInv, Collect
  PROVE  ServedInv'
<1>1. /\ ShapeInv /\ MemberInv /\ ListInv /\ HeadInv /\ KeyedInv /\ KeptInv /\ walk \in Walk /\ Walking
      /\ walk.do \in TwoRounds /\ walk.round = 2 /\ UNCHANGED <<virtual, member, walks>>
  BY DEF ServedInv, ShapeInv, Collect
<1>2. PICK m \in Members : m = walk.at /\ m \in Nat
  BY <1>1, WalkFields DEF Walking
<1>3. /\ walk.got \in SUBSET Item /\ walk.lasting \in SUBSET Item /\ walk.heads \in SUBSET HeadOf
      /\ walk.excused \in BOOLEAN
  BY <1>1, WalkFields
<1>4. /\ \A e \in walk.lasting : e.of \in Members /\ e.of \in Nat /\ e.key \in Keys /\ e \in Body(e.of)
      /\ walks > 0 /\ walks \in Nat
  <2>1. \A e \in walk.lasting : e.of \in Members /\ e.key \in Keys
    BY <1>3 DEF Item
  <2>2. walks > 0 /\ walks \in Nat
    BY <1>1 DEF ShapeInv, Walking, NoWalk
  <2> QED BY <1>1, <2>1, <2>2, MemberFacts DEF MemberInv
<1>5. PICK body \in ReadBy(m) :
        LET lost == \E h \in walk.heads : h.of = m /\ walk.do = "keyed" /\ h.doc # body
            got == Merged(walk.got, body)
        IN  IF m + 1 \in Members
              THEN walk' = [walk EXCEPT !.at = m + 1, !.got = got, !.excused = walk.excused \/ lost]
                   /\ UNCHANGED kept
              ELSE /\ walk' = [walk EXCEPT !.at = 0, !.heads = {}, !.got = got,
                                           !.excused = walk.excused \/ lost]
                   /\ Remember(got, walk.heads, walk.excused \/ lost)
  BY <1>2 DEF Collect
<1>6. PICK excused \in BOOLEAN :
        excused = (walk.excused \/ \E h \in walk.heads : h.of = m /\ walk.do = "keyed" /\ h.doc # body)
  OBVIOUS
<1>7. PICK got : got = Merged(walk.got, body)
  OBVIOUS
<1>8. /\ walk.do = "timed" => body = Body(m)
      /\ walk.do = "keyed" => body = {} \/ \E h \in walk.heads : h.of = m /\ body = h.doc
  <2>1. CASE walk.do = "timed"
    BY <1>5, <2>1 DEF ReadBy
  <2>2. CASE walk.do = "keyed"
    BY <1>5, <2>2 DEF ReadBy
  <2> QED BY <1>1, <2>1, <2>2 DEF TwoRounds
<1>9. body \in SUBSET Item /\ body \subseteq walk.ever /\ \A e \in body : e.of = m
  <2>1. CASE walk.do = "timed"
    BY <1>1, <1>2, <1>8, <2>1, DocumentFacts DEF MemberInv
  <2>2. CASE walk.do = "keyed"
    BY <1>1, <1>3, <1>8, <2>2 DEF MemberInv, HeadOf
  <2> QED BY <1>1, <2>1, <2>2 DEF TwoRounds
<1>10. /\ got \subseteq walk.got \cup body /\ walk.got \subseteq got
       /\ \A f \in got : f.of < m + 1
       /\ \A e \in body : Covered(e, got)
       /\ \A e \in Item : Covered(e, walk.got) => Covered(e, got)
  BY <1>1, <1>2, <1>3, <1>7, <1>9, MergedFacts DEF MemberInv
<1>11. got \in SUBSET Item /\ got \subseteq walk.ever
  BY <1>1, <1>3, <1>9, <1>10 DEF MemberInv
<1>12. ASSUME walk.do = "timed", NEW e \in walk.lasting, e.of < m + 1 PROVE Covered(e, got)
  <2>1. CASE e.of < m
    BY <1>1, <1>2, <1>3, <1>10, <1>12, <2>1 DEF ListInv
  <2>2. CASE e.of = m
    BY <1>4, <1>8, <1>10, <1>12, <2>2
  <2> QED BY <1>2, <1>4, <1>12, <2>1, <2>2
<1>13. ASSUME walk.do = "keyed" PROVE \A f \in got : \E h \in walk.heads : f \in h.doc
  BY <1>1, <1>8, <1>10, <1>13 DEF KeyedInv
<1>14. ASSUME walk.do = "keyed", ~excused, NEW h \in walk.heads, h.of < m + 1, NEW e \in h.doc
       PROVE  Covered(e, got)
  <2>1. h.of \in Members /\ h.of \in Nat /\ e \in Item
    BY <1>3, <1>14, MemberFacts DEF HeadOf
  <2>2. CASE h.of < m
    BY <1>1, <1>2, <1>6, <1>10, <1>14, <2>1, <2>2 DEF KeyedInv
  <2>3. CASE h.of = m
    BY <1>6, <1>10, <1>14, <2>3
  <2> QED BY <1>2, <1>14, <2>1, <2>2, <2>3
<1>15. \A e \in walk.lasting : \E h \in walk.heads : e \in h.doc
  BY <1>1 DEF HeadInv
<1>16. CASE m + 1 \in Members
  <2>1. walk' = [walk EXCEPT !.at = m + 1, !.got = got, !.excused = excused] /\ UNCHANGED kept
    BY <1>5, <1>6, <1>7, <1>16
  <2>2. /\ walk' \in Walk /\ walk'.at = m + 1 /\ walk'.do = walk.do /\ walk'.heads = walk.heads
        /\ walk'.got = got /\ walk'.excused = excused /\ walk'.round = walk.round
        /\ walk'.lasting = walk.lasting /\ walk'.ever = walk.ever
    BY <1>1, <1>11, <1>16, <2>1 DEF Walk
  <2>3. /\ \A k \in Members : Document(k)' \subseteq walk'.ever
        /\ \A e \in walk'.lasting : e \in Body(e.of)'
    BY <1>1, <2>2, SameMembers
  <2>4. ShapeInv'
    BY <1>1, <1>4, <2>1, <2>2 DEF ShapeInv
  <2>5. MemberInv'
    BY <1>1, <1>10, <1>11, <2>2, <2>3 DEF MemberInv
  <2>6. SingleInv' /\ LatestInv'
    BY <1>1, <2>2 DEF SingleInv, LatestInv, Single, TwoRounds
  <2>7. ListInv'
    BY <1>1, <1>12, <2>2 DEF ListInv, TwoRounds
  <2>8. HeadInv'
    BY <1>1, <1>15, <2>2 DEF HeadInv
  <2>9. KeyedInv'
    BY <1>13, <1>14, <2>2 DEF KeyedInv
  <2>10. KeptInv'
    BY <1>1, <2>1, <2>2 DEF KeptInv
  <2>11. EarliestServed'
    BY <1>2, <2>2 DEF EarliestServed, Walking
  <2> QED BY <2>4, <2>5, <2>6, <2>7, <2>8, <2>9, <2>10, <2>11 DEF ServedInv
<1>17. CASE m + 1 \notin Members
  <2>1. /\ walk' = [walk EXCEPT !.at = 0, !.heads = {}, !.got = got, !.excused = excused]
        /\ kept' = [key |-> walk.heads, doc |-> got, fresh |-> TRUE, spoiled |-> excused]
    BY <1>5, <1>6, <1>7, <1>17 DEF Remember
  <2>2. /\ walk' \in Walk /\ walk'.at = 0 /\ walk'.do = walk.do /\ walk'.got = got
        /\ walk'.excused = excused /\ walk'.lasting = walk.lasting /\ walk'.ever = walk.ever
    BY <1>1, <1>11, <2>1 DEF Walk
  <2>3. kept'.key = walk.heads /\ kept'.doc = got /\ kept'.spoiled = excused
    BY <2>1
  <2>4. /\ \A e \in walk.lasting : e.of < m + 1
        /\ \A h \in walk.heads : h.of < m + 1
    <3>1. \A h \in walk.heads : h.of \in Members
      BY <1>3 DEF HeadOf
    <3>2. \A k \in Members : k < m + 1
      BY <1>2, <1>17, MemberFacts
    <3> QED BY <1>4, <3>1, <3>2
  <2>5. ASSUME walk.do = "keyed", ~excused PROVE \A h \in walk.heads : \A e \in h.doc : Covered(e, got)
    BY <1>14, <2>4, <2>5
  <2>6. EarliestServed'
    <3> SUFFICES ASSUME ~excused PROVE \A e \in walk.lasting : Covered(e, got)
      BY <1>11, <2>2 DEF EarliestServed, Covered
    <3>1. CASE walk.do = "timed"
      BY <1>12, <2>4, <3>1
    <3>2. CASE walk.do = "keyed"
      BY <1>15, <2>5, <3>2
    <3> QED BY <1>1, <3>1, <3>2 DEF TwoRounds
  <2>7. ShapeInv'
    BY <1>1, <1>3, <1>4, <1>11, <2>1, <2>2 DEF ShapeInv
  <2>8. KeptInv'
    BY <1>13, <2>2, <2>3, <2>5 DEF KeptInv
  <2> QED BY <2>2, <2>6, <2>7, <2>8, Answered
<1> QED BY <1>16, <1>17

\* A change of a member while a request is on: what it takes away did not last.
LEMMA MemberServed ==
  ASSUME ServedInv, Walking, UNCHANGED <<virtual, walks, kept>>, ShapeInv',
         NEW lasting \in SUBSET walk.lasting, NEW ever, walk.ever \subseteq ever,
         walk' = [walk EXCEPT !.lasting = lasting, !.ever = ever],
         \A m \in Members : Document(m)' \subseteq ever,
         \A e \in lasting : e \in Body(e.of)'
  PROVE  ServedInv'
<1>1. /\ MemberInv /\ SingleInv /\ ListInv /\ LatestInv /\ HeadInv /\ KeyedInv /\ KeptInv /\ walk \in Walk
  BY DEF ServedInv, ShapeInv
<1>2. /\ walk'.at = walk.at /\ walk'.got = walk.got /\ walk'.do = walk.do /\ walk'.key = walk.key
      /\ walk'.lasting = lasting /\ walk'.ever = ever /\ walk'.heads = walk.heads
      /\ walk'.excused = walk.excused /\ walk'.round = walk.round
  BY <1>1 DEF Walk
<1>3. MemberInv'
  BY <1>1, <1>2 DEF MemberInv
<1>4. SingleInv'
  BY <1>1, <1>2 DEF SingleInv, Walking
<1>5. ListInv' /\ LatestInv'
  BY <1>1, <1>2 DEF ListInv, LatestInv, Walking
<1>6. HeadInv' /\ KeyedInv'
  BY <1>1, <1>2 DEF HeadInv, KeyedInv, Walking
<1>7. KeptInv'
  BY <1>1, <1>2 DEF KeptInv
<1>8. EarliestServed'
  BY <1>2 DEF EarliestServed, Walking
<1> QED BY <1>3, <1>4, <1>5, <1>6, <1>7, <1>8 DEF ServedInv

LEMMA ChangeServed ==
  ASSUME ServedInv, NEW m \in Members, NEW k \in Keys, NEW rev \in {0, 2}, Change(m, k, rev)
  PROVE  ServedInv'
<1>1. ShapeInv /\ MemberInv /\ Walking /\ walk \in Walk /\ UNCHANGED <<virtual, walks, kept>>
  BY DEF ServedInv, ShapeInv, Change, Changing
<1> DEFINE lasting == {e \in walk.lasting : ~(e.of = m /\ e.key = k)}
           added == IF rev = 0 THEN {} ELSE {[of |-> m, key |-> k, rev |-> rev]}
           ever == walk.ever \cup added
<1>2. walk' = [walk EXCEPT !.lasting = lasting, !.ever = ever]
  BY DEF Change
<1>3. /\ member' \in [Members -> [at : [Keys -> Nat], up : BOOLEAN]]
      /\ \A n \in Members : member'[n].up = member[n].up
      /\ \A n \in Members, j \in Keys :
           member'[n].at[j] = IF n = m /\ j = k THEN rev ELSE member[n].at[j]
  <2>1. member \in [Members -> [at : [Keys -> Nat], up : BOOLEAN]] /\ rev \in Nat
    BY <1>1 DEF ShapeInv
  <2>2. member' = [member EXCEPT ![m].at[k] = rev]
    BY DEF Change
  <2>3. \A n \in Members : n # m => member'[n] = member[n]
    BY <2>1, <2>2
  <2>4. member'[m] = [member[m] EXCEPT !.at[k] = rev] /\ member' \in [Members -> {member'[n] : n \in Members}]
    BY <2>1, <2>2
  <2>5. PICK old \in [at : [Keys -> Nat], up : BOOLEAN] : old = member[m]
    BY <2>1
  <2>6. PICK at \in [Keys -> Nat] : at = [old.at EXCEPT ![k] = rev]
    BY <2>1, <2>5
  <2>7. member'[m] = [old EXCEPT !.at = at]
    BY <2>4, <2>5, <2>6
  <2>8. member'[m] \in [at : [Keys -> Nat], up : BOOLEAN] /\ member'[m].at = at /\ member'[m].up = old.up
    BY <2>5, <2>6, <2>7
  <2>9. \A j \in Keys : at[j] = IF j = k THEN rev ELSE old.at[j]
    BY <2>5, <2>6
  <2> QED BY <2>1, <2>3, <2>4, <2>5, <2>8, <2>9
<1>4. lasting \subseteq walk.lasting /\ walk.lasting \subseteq Item /\ walk.ever \subseteq Item
  BY <1>1, WalkFields
<1>5. ever \subseteq Item
  BY <1>4 DEF Item
<1>6. ShapeInv'
  <2>1. walk' \in Walk /\ (walks = 0 => walk = NoWalk)
    <3> HIDE DEF lasting, ever
    <3> QED BY <1>1, <1>2, <1>4, <1>5 DEF Walk, ShapeInv
  <2>2. walks # 0
    BY <1>1, <2>1 DEF Walking, NoWalk
  <2> QED BY <1>1, <1>3, <2>1, <2>2 DEF ShapeInv
<1>7. ASSUME NEW n \in Members PROVE Document(n)' \subseteq ever
  <2> SUFFICES ASSUME NEW e, e \in Document(n)' PROVE e \in ever
    OBVIOUS
  <2>1. PICK j \in Keys : member'[n].at[j] # 0 /\ e = [of |-> n, key |-> j, rev |-> member'[n].at[j]]
    BY DEF Document, ItemOf
  <2>2. CASE n = m /\ j = k
    BY <1>3, <2>1, <2>2
  <2>3. CASE ~(n = m /\ j = k)
    <3>1. e = ItemOf(n, j) /\ member[n].at[j] # 0
      BY <1>3, <2>1, <2>3 DEF ItemOf
    <3>2. e \in Document(n)
      BY <3>1 DEF Document
    <3> QED BY <1>1, <3>2 DEF MemberInv
  <2> QED BY <2>2, <2>3
<1>8. ASSUME NEW e \in lasting PROVE e \in Body(e.of)'
  <2>1. e \in Item /\ e.of \in Members /\ e.key \in Keys /\ e \in Body(e.of) /\ ~(e.of = m /\ e.key = k)
    BY <1>1, <1>4 DEF MemberInv, Item
  <2>2. PICK n \in Members : n = e.of
    BY <2>1
  <2>3. e \in Document(n) /\ member[n].up
    BY <1>1, <2>1, <2>2, DocumentFacts
  <2>4. PICK j \in Keys : member[n].at[j] # 0 /\ e = ItemOf(n, j)
    BY <2>3 DEF Document
  <2>5. e.key = j /\ e.of = n
    BY <2>4 DEF ItemOf
  <2>6. member'[n].at[j] = member[n].at[j] /\ member'[n].up
    BY <1>3, <2>1, <2>3, <2>5
  <2>7. e \in Document(n)'
    BY <2>4, <2>6 DEF Document, ItemOf
  <2>8. e \in Body(n)'
    BY <2>6, <2>7 DEF Body
  <2> QED BY <2>2, <2>8 DEF Body, Document, ItemOf
<1> HIDE DEF lasting, ever
<1>9. walk.ever \subseteq ever
  BY DEF ever
<1> QED BY <1>1, <1>2, <1>4, <1>6, <1>7, <1>8, <1>9, MemberServed

LEMMA SwitchServed ==
  ASSUME ServedInv, NEW m \in Members, Switch(m)
  PROVE  ServedInv'
<1>1. ShapeInv /\ MemberInv /\ Walking /\ walk \in Walk /\ UNCHANGED <<virtual, walks, kept>>
  BY DEF ServedInv, ShapeInv, Switch, Changing
<1> DEFINE lasting == {e \in walk.lasting : e.of # m}
<1>2. walk' = [walk EXCEPT !.lasting = lasting, !.ever = walk.ever]
  <2>1. walk' = [walk EXCEPT !.lasting = lasting]
    BY DEF Switch
  <2> HIDE DEF lasting
  <2> QED BY <1>1, <2>1 DEF Walk
<1>3. /\ member' \in [Members -> [at : [Keys -> Nat], up : BOOLEAN]]
      /\ \A n \in Members : member'[n].at = member[n].at /\ (n # m => member'[n] = member[n])
  BY <1>1 DEF Switch, ShapeInv
<1>4. lasting \subseteq walk.lasting /\ walk.lasting \subseteq Item
  BY <1>1, WalkFields
<1>5. ShapeInv'
  <2>1. walk' \in Walk /\ (walks = 0 => walk = NoWalk)
    <3> HIDE DEF lasting
    <3> QED BY <1>1, <1>2, <1>4 DEF Walk, ShapeInv
  <2>2. walks # 0
    BY <1>1, <2>1 DEF Walking, NoWalk
  <2> QED BY <1>1, <1>3, <2>1, <2>2 DEF ShapeInv
<1>6. ASSUME NEW n \in Members PROVE Document(n)' = Document(n) /\ (n # m => Body(n)' = Body(n))
  <2>1. Document(n)' = Document(n)
    BY <1>3 DEF Document, ItemOf
  <2>2. n # m => member'[n].up = member[n].up
    BY <1>3
  <2> QED BY <2>1, <2>2 DEF Body
<1>7. \A n \in Members : Document(n)' \subseteq walk.ever
  BY <1>1, <1>6 DEF MemberInv
<1>8. \A e \in lasting : e \in Body(e.of)'
  BY <1>1, <1>4, <1>6 DEF MemberInv, Item
<1> HIDE DEF lasting
<1> QED BY <1>1, <1>2, <1>4, <1>5, <1>7, <1>8, MemberServed

LEMMA SameServed ==
  ASSUME ServedInv, UNCHANGED <<virtual, member, walk, walks>>,
         kept' = kept \/ (~Walking /\ walk.do = "timed" /\ kept' = [kept EXCEPT !.fresh = FALSE])
  PROVE  ServedInv'
<1>1. \A m : Body(m)' = Body(m) /\ Document(m)' = Document(m)
  BY DEF Body, Document, ItemOf
<1>2. MemberInv'
  BY <1>1 DEF ServedInv, MemberInv, Walking
<1>5. SingleInv' /\ ListInv' /\ LatestInv' /\ HeadInv' /\ KeyedInv' /\ EarliestServed'
  BY DEF ServedInv, SingleInv, ListInv, LatestInv, HeadInv, KeyedInv, EarliestServed, Walking
<1>3. KeptInv'
  BY DEF ServedInv, KeptInv
<1>4. ShapeInv'
  <2>1. kept' \in [key : SUBSET HeadOf, doc : SUBSET Item, fresh : BOOLEAN, spoiled : BOOLEAN]
    BY DEF ServedInv, ShapeInv
  <2>2. walks = 0 => kept' = NothingKept
    BY DEF ServedInv, ShapeInv, NoWalk
  <2> QED BY <2>1, <2>2 DEF ServedInv, ShapeInv
<1> QED BY <1>2, <1>3, <1>4, <1>5 DEF ServedInv

LEMMA ServedStep ==
  ASSUME ServedInv, [VirtualNext]_virtualVars
  PROVE  ServedInv'
<1>1. CASE UNCHANGED virtualVars
  BY <1>1, SameServed DEF virtualVars
<1>2. CASE Lapse
  BY <1>2, SameServed DEF Lapse
<1> QED BY <1>1, <1>2, AskServed, VisitServed, AskHeadServed, CollectServed, ChangeServed, SwitchServed
     DEF VirtualNext

LEMMA ServedInit ==
  ASSUME VirtualInit
  PROVE  ServedInv
<1>1. walk = NoWalk /\ kept = NothingKept /\ walks = 0 /\ virtual \in VirtualNames
  BY DEF VirtualInit
<1>2. ShapeInv
  <2>1. walk \in Walk
    BY <1>1 DEF NoWalk, Walk
  <2>2. kept \in [key : SUBSET HeadOf, doc : SUBSET Item, fresh : BOOLEAN, spoiled : BOOLEAN]
    BY <1>1 DEF NothingKept
  <2>3. member \in [Members -> [at : [Keys -> Nat], up : BOOLEAN]]
    <3>1. member \in [Members -> [at : [Keys -> {0, 1}], up : {TRUE}]]
      BY DEF VirtualInit
    <3>2. [Keys -> {0, 1}] \subseteq [Keys -> Nat]
      OBVIOUS
    <3>3. \A n \in Members : member[n] \in [at : [Keys -> Nat], up : BOOLEAN]
      BY <3>1, <3>2
    <3> QED BY <3>1, <3>3
  <2> QED BY <1>1, <2>1, <2>2, <2>3 DEF ShapeInv
<1>3. walk.at = 0 /\ walk.do = "none" /\ walk.got = {} /\ walk.lasting = {}
  BY <1>1 DEF NoWalk
<1> QED BY <1>2, <1>3 DEF ServedInv, Walking, MemberInv, SingleInv, ListInv, LatestInv, HeadInv, KeyedInv,
                          KeptInv, EarliestServed

\* However many members a virtual repository has, and however they are published to,
\* deleted from, fail and come back while it walks them, its answer has the entry of the
\* earliest member for every key that a member served throughout, and nothing that no
\* member had meanwhile; for every way of the formats to walk.
THEOREM EarliestServedAlways == VirtualSpec => []EarliestServed
<1>1. ServedInv => EarliestServed
  BY DEF ServedInv
<1>2. VirtualInit => ServedInv
  BY ServedInit
<1>3. ServedInv /\ [VirtualNext]_virtualVars => ServedInv'
  BY ServedStep
<1> QED BY <1>1, <1>2, <1>3, PTL DEF VirtualSpec

(***************************************************************************)
(* Proxied repositories.                                                   *)
(***************************************************************************)
Ends == {"idle", "ok", "absent", "down", "mismatch", "failed"}
ReaderIn(P, S) ==
  [program : P, pc : Nat, seen : S, last : Nat, got : Nat, old : Nat, end : Ends, floor : Nat,
   covered : BOOLEAN, outdated : BOOLEAN]
ReaderOf(f) == ReaderIn(Remotes[f].reads \cup {<<>>}, [CacheSlots(f) -> Nat] \cup {<<>>})

\* A request is at a step of its program, and has read something once a step before
\* must have; one covered has steps only that the cache can answer.
Steady(f, r) ==
  /\ r \in ReaderOf(f)
  /\ ~r.outdated
  /\ r.covered => r.end \in {"idle", "ok"}
  /\ r.pc # 0 =>
       /\ r.program \in Remotes[f].reads /\ r.pc \in 1..Len(r.program)
       /\ r.seen \in [CacheSlots(f) -> Nat]
       /\ r.end = "idle"
       /\ (\E n \in 1..(r.pc - 1) : Gives(r.program[n])) => r.last # 0
       /\ r.covered => /\ \A n \in DOMAIN r.program : r.program[n].do \in Lasting
                       /\ r.program[r.pc].do \in {"pin", "sound"} => r.got = 0

\* What a covered request reads stays cached.
CoverKept(i) ==
  Reading(i) /\ reader[i].covered =>
    /\ upstream # 0 /\ format # "goproxy"
    /\ \A n \in DOMAIN reader[i].program : Has(reader[i].program[n].at)

\* Nothing older than a request's floor is fresh or on its way.
FloorKept(i) ==
  Reading(i) /\ reader[i].floor # 0 =>
    /\ reachable /\ upstream >= reader[i].floor
    /\ \A s \in MutableSlots(format) : cache[s].fresh => cache[s].rev >= reader[i].floor
    /\ \A j \in Readers : Reading(j) /\ reader[j].got # 0 /\ Now(j).do \notin {"named", "content"}
                            => reader[j].got >= reader[i].floor

RemoteTypeOK ==
  /\ format \in RemoteNames
  /\ upstream \in Nat /\ reachable \in BOOLEAN
  /\ cache \in [CacheSlots(format) -> [rev : Nat, fresh : BOOLEAN]]
  /\ \A s \in CacheSlots(format) : cache[s].fresh => cache[s].rev # 0
  /\ DOMAIN reader = Readers /\ \A i \in Readers : Steady(format, reader[i])

RemoteInv == RemoteTypeOK /\ \A i \in Readers : CoverKept(i) /\ FloorKept(i)
-----------------------------------------------------------------------------
\* A request before it begins.
LEMMA WaitingFields ==
  ASSUME NEW f
  PROVE  /\ Waiting \in ReaderOf(f)
         /\ Waiting.pc = 0 /\ Waiting.end = "idle" /\ Waiting.floor = 0 /\ Waiting.got = 0
         /\ Waiting.covered = FALSE /\ Waiting.outdated = FALSE /\ Waiting.last = 0
<1>1. /\ Waiting.program = <<>> /\ Waiting.seen = <<>> /\ Waiting.old = 0
      /\ Waiting.pc = 0 /\ Waiting.end = "idle" /\ Waiting.floor = 0 /\ Waiting.got = 0
      /\ Waiting.covered = FALSE /\ Waiting.outdated = FALSE /\ Waiting.last = 0
  BY DEF Waiting
<1>2. ASSUME NEW e, NEW P, NEW S, e \in P, e \in S
      PROVE  [program |-> e, pc |-> 0, seen |-> e, last |-> 0, got |-> 0, old |-> 0, end |-> "idle",
              floor |-> 0, covered |-> FALSE, outdated |-> FALSE] \in ReaderIn(P, S)
  BY <1>2 DEF Ends, ReaderIn
<1> DEFINE Pr == Remotes[f].reads \cup {<<>>}
           Se == [CacheSlots(f) -> Nat] \cup {<<>>}
<1>3. <<>> \in Pr /\ <<>> \in Se
  OBVIOUS
<1> HIDE DEF Pr, Se
<1>4. Waiting \in ReaderIn(Pr, Se)
  BY <1>2, <1>3, Zenon DEF Waiting
<1> QED
  BY <1>1, <1>4 DEF ReaderOf, Pr, Se

\* The fields of a request.
LEMMA ReaderFields ==
  ASSUME NEW f, NEW r \in ReaderOf(f)
  PROVE  /\ r.pc \in Nat /\ r.last \in Nat /\ r.got \in Nat /\ r.floor \in Nat
         /\ r.covered \in BOOLEAN /\ r.outdated \in BOOLEAN /\ r.end \in Ends
BY DEF ReaderOf, ReaderIn

\* A request that ends.
LEMMA EndedSteady ==
  ASSUME NEW f, NEW r \in ReaderOf(f), NEW end \in Ends, ~r.outdated,
         r.covered => end \in {"idle", "ok"}
  PROVE  Steady(f, EndedRead(r, end)) /\ EndedRead(r, end).pc = 0
<1>1. r.covered \in BOOLEAN /\ r.outdated \in BOOLEAN
  BY ReaderFields
<1>2. /\ EndedRead(r, end) \in ReaderOf(f) /\ EndedRead(r, end).pc = 0
      /\ EndedRead(r, end).end = end /\ EndedRead(r, end).covered = r.covered
      /\ EndedRead(r, end).outdated = r.outdated
  <2> DEFINE P == Remotes[f].reads \cup {<<>>}
             S == [CacheSlots(f) -> Nat] \cup {<<>>}
  <2>1. Waiting \in ReaderIn(P, S) /\ ReaderOf(f) = ReaderIn(P, S) /\ Waiting.pc = 0
    BY WaitingFields DEF ReaderOf
  <2> HIDE DEF P, S
  <2> QED
    BY <1>1, <2>1 DEF EndedRead, ReaderIn
<1> QED
  BY <1>2 DEF Steady

-----------------------------------------------------------------------------
\* The steps of a program.
LEMMA StepFacts ==
  ASSUME NEW f \in RemoteNames, NEW program \in Remotes[f].reads
  PROVE  /\ Len(program) \in Nat \ {0} /\ DOMAIN program = 1..Len(program)
         /\ \A n \in DOMAIN program :
              /\ program[n].do = "write" => \E m \in 1..(n - 1) : Gives(program[m])
              /\ program[n] \in ReadSteps(f)
              /\ program[n].at \in CacheSlots(f) /\ program[n].by \in CacheSlots(f)
<1>1. /\ Len(program) \in Nat \ {0} /\ DOMAIN program = 1..Len(program)
      /\ \A n \in DOMAIN program :
           program[n].do = "write" => \E m \in 1..(n - 1) : Gives(program[m])
  BY RemoteAssumption, Zenon DEF RemoteAssumption
<1>2. ASSUME NEW n \in DOMAIN program PROVE program[n] \in ReadSteps(f)
  <2>1. program[n] \in {program[k] : k \in DOMAIN program}
    OBVIOUS
  <2> QED
    BY <2>1 DEF ReadSteps
<1>3. ASSUME NEW n \in DOMAIN program
      PROVE  program[n].at \in CacheSlots(f) /\ program[n].by \in CacheSlots(f)
  <2> DEFINE U(p) == UNION {{p[k].at, p[k].by} : k \in DOMAIN p}
  <2>1. {program[n].at, program[n].by} \subseteq U(program)
    OBVIOUS
  <2>2. CacheSlots(f) = UNION {U(p) : p \in Remotes[f].reads}
    BY DEF CacheSlots
  <2> HIDE DEF U
  <2>3. U(program) \subseteq CacheSlots(f)
    BY <2>2
  <2> QED
    BY <2>1, <2>3
<1> QED
  BY <1>1, <1>2, <1>3

\* A request that has done its step.
Done(f, r) ==
  /\ r \in ReaderOf(f)
  /\ ~r.outdated /\ r.end = "idle"
  /\ r.program \in Remotes[f].reads /\ r.pc \in 1..Len(r.program)
  /\ r.seen \in [CacheSlots(f) -> Nat]
  /\ (\E n \in 1..r.pc : Gives(r.program[n])) => r.last # 0
  /\ r.covered => \A n \in DOMAIN r.program : r.program[n].do \in Lasting

\* What stays of a request while it goes on.
Follows(r, next) ==
  next.pc # 0 => /\ next.program = r.program /\ next.covered = r.covered
                 /\ next.floor = r.floor /\ next.got = 0

LEMMA OnwardSteady ==
  ASSUME NEW f \in RemoteNames, NEW r, Done(f, r)
  PROVE  Steady(f, Onward(r)) /\ Follows(r, Onward(r))
<1>1. r \in ReaderOf(f) /\ r.pc \in Nat /\ Len(r.program) \in Nat
  BY StepFacts, ReaderFields DEF Done
<1>2. CASE r.pc < Len(r.program)
  <2> DEFINE o == [r EXCEPT !.pc = @ + 1, !.got = 0, !.old = 0]
  <2>1. /\ o \in ReaderOf(f) /\ o.pc = r.pc + 1 /\ o.got = 0 /\ o.program = r.program
        /\ o.seen = r.seen /\ o.last = r.last /\ o.end = r.end /\ o.floor = r.floor
        /\ o.covered = r.covered /\ o.outdated = r.outdated
    <3> DEFINE P == Remotes[f].reads \cup {<<>>}
               S == [CacheSlots(f) -> Nat] \cup {<<>>}
               n == r.pc + 1
    <3>1. r \in ReaderIn(P, S) /\ ReaderOf(f) = ReaderIn(P, S) /\ n \in Nat
      BY <1>1 DEF ReaderOf
    <3>2. o = [r EXCEPT !.pc = n, !.got = 0, !.old = 0]
      OBVIOUS
    <3> HIDE DEF P, S, n, o
    <3>3. /\ o \in ReaderIn(P, S) /\ o.pc = n /\ o.got = 0 /\ o.program = r.program
          /\ o.seen = r.seen /\ o.last = r.last /\ o.end = r.end /\ o.floor = r.floor
          /\ o.covered = r.covered /\ o.outdated = r.outdated
      BY <3>1, <3>2 DEF ReaderIn
    <3> QED
      BY <3>1, <3>3 DEF n
  <2>2. Onward(r) = o
    BY <1>2 DEF Onward
  <2> HIDE DEF o
  <2>3. o.pc \in 1..Len(o.program) /\ 1..(o.pc - 1) = 1..r.pc
    BY <1>1, <1>2, <2>1
  <2>4. Steady(f, o)
    BY <2>1, <2>3 DEF Steady, Done
  <2> QED
    BY <2>1, <2>2, <2>4 DEF Follows
<1>3. CASE ~(r.pc < Len(r.program))
  <2>1. Onward(r) = EndedRead(r, "ok")
    BY <1>3 DEF Onward
  <2>2. "ok" \in Ends
    BY DEF Ends
  <2> QED
    BY <1>1, <2>1, <2>2, EndedSteady DEF Done, Follows
<1> QED
  BY <1>2, <1>3

LEMMA SkippedSteady ==
  ASSUME NEW f \in RemoteNames, NEW r, Steady(f, r), r.pc # 0, ~Gives(r.program[r.pc])
  PROVE  Steady(f, Onward(r)) /\ Follows(r, Onward(r))
<1>1. r.pc \in Nat /\ r.pc \in 1..Len(r.program)
  BY ReaderFields DEF Steady
<1>2. (\E n \in 1..r.pc : Gives(r.program[n])) => \E n \in 1..(r.pc - 1) : Gives(r.program[n])
  <2> SUFFICES ASSUME NEW n \in 1..r.pc, Gives(r.program[n])
               PROVE  n \in 1..(r.pc - 1)
    OBVIOUS
  <2>1. n # r.pc
    OBVIOUS
  <2> QED
    BY <1>1, <2>1
<1>3. Done(f, r)
  BY <1>1, <1>2 DEF Done, Steady
<1> QED
  BY <1>3, OnwardSteady

LEMMA FailingSteady ==
  ASSUME NEW f \in RemoteNames, NEW r, Steady(f, r), r.pc # 0, ~r.covered, NEW why \in Ends
  PROVE  Steady(f, Failing(r, why)) /\ Follows(r, Failing(r, why))
<1>1. CASE r.program[r.pc].try
  BY <1>1, SkippedSteady DEF Failing, Gives
<1>2. CASE ~r.program[r.pc].try
  BY <1>2, EndedSteady DEF Failing, Steady, Follows
<1> QED
  BY <1>1, <1>2

LEMMA GivenSteady ==
  ASSUME NEW f \in RemoteNames, NEW r, Steady(f, r), r.pc # 0, NEW rev \in Nat \ {0},
         r.program[r.pc].do \in ChangingDocs => ~(rev < r.floor)
  PROVE  Steady(f, Given(r, rev)) /\ Follows(r, Given(r, rev))
<1> DEFINE step == r.program[r.pc]
           late == step.do \in ChangingDocs /\ rev < r.floor
           b == [r EXCEPT !.seen[step.at] = rev, !.last = rev,
                          !.outdated = @ \/ (step.do \in ChangingDocs /\ rev < r.floor)]
<1>1. r \in ReaderOf(f) /\ r.program \in Remotes[f].reads /\ r.pc \in 1..Len(r.program)
      /\ r.seen \in [CacheSlots(f) -> Nat]
  BY DEF Steady
<1>2. step.at \in CacheSlots(f) /\ r.pc \in DOMAIN r.program
  BY <1>1, StepFacts
<1>3. late = FALSE
  OBVIOUS
<1> HIDE DEF step
<1>4. late \in BOOLEAN /\ r.outdated = FALSE /\ rev \in Nat
  BY <1>1, <1>3, ReaderFields DEF Steady
<1> DEFINE seen == [r.seen EXCEPT ![step.at] = rev]
           out == r.outdated \/ late
<1>5. seen \in [CacheSlots(f) -> Nat] /\ out = FALSE
  BY <1>1, <1>2, <1>3, <1>4
<1>6. b = [r EXCEPT !.seen = seen, !.last = rev, !.outdated = out]
  OBVIOUS
<1> HIDE DEF b, seen, out
<1>7. /\ b \in ReaderOf(f) /\ b.last = rev /\ b.pc = r.pc /\ b.program = r.program /\ b.end = r.end
      /\ b.floor = r.floor /\ b.covered = r.covered /\ b.outdated = FALSE
      /\ b.seen \in [CacheSlots(f) -> Nat]
  <2> DEFINE P == Remotes[f].reads \cup {<<>>}
             S == [CacheSlots(f) -> Nat] \cup {<<>>}
  <2>1. r \in ReaderIn(P, S) /\ ReaderOf(f) = ReaderIn(P, S) /\ seen \in S /\ out \in BOOLEAN
    BY <1>1, <1>5 DEF ReaderOf
  <2> HIDE DEF P, S
  <2>2. /\ b \in ReaderIn(P, S) /\ b.last = rev /\ b.pc = r.pc /\ b.program = r.program
        /\ b.end = r.end /\ b.floor = r.floor /\ b.covered = r.covered /\ b.outdated = out
        /\ b.seen = seen
    BY <1>4, <1>6, <2>1 DEF ReaderIn
  <2> QED
    BY <1>5, <2>1, <2>2
<1>8. Done(f, b)
  BY <1>1, <1>7 DEF Steady, Done
<1>9. Given(r, rev) = Onward(b)
  BY DEF Given, b, step
<1> QED
  BY <1>7, <1>8, <1>9, OnwardSteady DEF Follows

-----------------------------------------------------------------------------
\* What the step of a request does to itself, and to the cache.
Moves(i) ==
  /\ DOMAIN reader' = Readers /\ \A j \in Readers \ {i} : reader'[j] = reader[j]
  /\ Steady(format, reader'[i])
  /\ reader'[i].pc # 0 =>
       /\ reader'[i].program = reader[i].program /\ reader'[i].covered = reader[i].covered
       /\ reader'[i].floor = reader[i].floor
       /\ \/ reader'[i].got = 0
          \/ reader'[i].got = upstream
          \/ Now(i)'.do \in {"named", "content"}
OnItsWay(j) == Reading(j) /\ reader[j].got # 0 /\ Now(j).do \notin {"named", "content"}
CacheSafe ==
  /\ cache' \in [CacheSlots(format) -> [rev : Nat, fresh : BOOLEAN]]
  /\ \A s \in CacheSlots(format) : cache'[s].fresh => cache'[s].rev # 0
  /\ format # "goproxy" => \A s \in LastingSlots(format) : Has(s) => Has(s)'
  /\ \A s \in MutableSlots(format) :
       cache'[s].fresh => \/ cache'[s] = cache[s]
                          \/ \E j \in Readers : OnItsWay(j) /\ cache'[s].rev = reader[j].got

LEMMA LastingRead ==
  ASSUME NEW f, NEW program \in Remotes[f].reads,
         \A n \in DOMAIN program : program[n].do \in Lasting, NEW n \in DOMAIN program
  PROVE  program[n].at \in LastingSlots(f)
<1> DEFINE A(p) == {p[k].at : k \in DOMAIN p}
           L == {p \in Remotes[f].reads : \A k \in DOMAIN p : p[k].do \in Lasting}
<1>1. program[n].at \in A(program)
  OBVIOUS
<1>2. program \in L
  OBVIOUS
<1>3. LastingSlots(f) = UNION {A(p) : p \in L}
  BY DEF LastingSlots
<1> HIDE DEF A, L
<1> QED
  BY <1>1, <1>2, <1>3

LEMMA CoverStays ==
  ASSUME RemoteInv, NEW i \in Readers, CacheSafe, UNCHANGED <<format, upstream>>,
         Reading(i), Steady(format, reader'[i]), reader'[i].pc # 0,
         reader'[i].program = reader[i].program, reader'[i].covered => reader[i].covered
  PROVE  CoverKept(i)'
<1> SUFFICES ASSUME reader'[i].covered
             PROVE  /\ upstream # 0 /\ format # "goproxy"
                    /\ \A n \in DOMAIN reader[i].program : Has(reader[i].program[n].at)'
  BY DEF CoverKept, Reading, Has
<1>1. /\ upstream # 0 /\ format # "goproxy"
      /\ \A n \in DOMAIN reader[i].program : Has(reader[i].program[n].at)
  BY DEF RemoteInv, CoverKept
<1>2. \A n \in DOMAIN reader[i].program : reader[i].program[n].at \in LastingSlots(format)
  <2>1. reader[i].program \in Remotes[format].reads
        /\ \A n \in DOMAIN reader[i].program : reader[i].program[n].do \in Lasting
    BY DEF Steady
  <2> QED
    BY <2>1, LastingRead
<1>3. \A s \in LastingSlots(format) : Has(s) => Has(s)'
  BY <1>1 DEF CacheSafe
<1> QED
  BY <1>1, <1>2, <1>3 DEF Has

LEMMA FloorStays ==
  ASSUME RemoteInv, NEW i \in Readers, CacheSafe, UNCHANGED <<format, upstream, reachable>>,
         Reading(i), reader'[i].floor = reader[i].floor,
         \A j \in Readers : OnItsWay(j)' => \/ OnItsWay(j) /\ reader'[j].got = reader[j].got
                                            \/ reader'[j].got = upstream
  PROVE  FloorKept(i)'
<1> SUFFICES ASSUME reader[i].floor # 0
             PROVE  /\ reachable /\ upstream >= reader[i].floor
                    /\ \A s \in MutableSlots(format) :
                         cache'[s].fresh => cache'[s].rev >= reader[i].floor
                    /\ \A j \in Readers : OnItsWay(j)' => reader'[j].got >= reader[i].floor
  BY DEF FloorKept, OnItsWay
<1>1. /\ reachable /\ upstream >= reader[i].floor
      /\ \A s \in MutableSlots(format) : cache[s].fresh => cache[s].rev >= reader[i].floor
      /\ \A j \in Readers : OnItsWay(j) => reader[j].got >= reader[i].floor
  BY DEF RemoteInv, FloorKept, OnItsWay
<1>2. ASSUME NEW s \in MutableSlots(format), cache'[s].fresh
      PROVE  cache'[s].rev >= reader[i].floor
  BY <1>1, <1>2 DEF CacheSafe
<1> QED
  BY <1>1, <1>2

LEMMA MovesKeep ==
  ASSUME RemoteInv, NEW i \in Readers, Reading(i), Moves(i), CacheSafe,
         UNCHANGED <<format, upstream, reachable>>
  PROVE  RemoteInv'
<1>1. ASSUME NEW j \in Readers PROVE Steady(format, reader[j])'
  BY <1>1 DEF Moves, RemoteInv, RemoteTypeOK
<1>2. RemoteTypeOK'
  BY <1>1 DEF RemoteInv, RemoteTypeOK, CacheSafe, Moves
<1>3. \A j \in Readers : OnItsWay(j)' => \/ OnItsWay(j) /\ reader'[j].got = reader[j].got
                                         \/ reader'[j].got = upstream
  <2> SUFFICES ASSUME NEW j \in Readers, OnItsWay(j)'
               PROVE  \/ OnItsWay(j) /\ reader'[j].got = reader[j].got
                      \/ reader'[j].got = upstream
    OBVIOUS
  <2>1. CASE j = i
    <3>1. reader'[i].pc # 0
      <4>1. reader'[i].pc > 0
        BY <2>1 DEF OnItsWay, Reading
      <4> QED
        BY <4>1
    <3> QED
      BY <2>1, <3>1 DEF Moves, OnItsWay
  <2>2. CASE j # i
    BY <2>2 DEF Moves, OnItsWay, Reading, Now
  <2> QED
    BY <2>1, <2>2
<1>4. ASSUME NEW j \in Readers PROVE CoverKept(j)' /\ FloorKept(j)'
  <2>1. CASE ~Reading(j)'
    BY <2>1 DEF CoverKept, FloorKept
  <2>2. CASE Reading(j)'
    <3>1. reader'[j].pc # 0
      <4>1. reader'[j].pc > 0
        BY <2>2 DEF Reading
      <4> QED
        BY <4>1
    <3>2. Reading(j) /\ reader'[j].program = reader[j].program
          /\ reader'[j].covered = reader[j].covered /\ reader'[j].floor = reader[j].floor
      BY <2>2, <3>1 DEF Moves, Reading
    <3>3. CoverKept(j)'
      BY <1>1, <3>1, <3>2, CoverStays
    <3>4. FloorKept(j)'
      BY <1>3, <3>2, FloorStays
    <3> QED
      BY <3>3, <3>4
  <2> QED
    BY <2>1, <2>2
<1> QED
  BY <1>2, <1>4 DEF RemoteInv

LEMMA SlotsWithin ==
  ASSUME NEW f \in RemoteNames
  PROVE  LastingSlots(f) \subseteq CacheSlots(f) /\ MutableSlots(f) \subseteq CacheSlots(f)
<1>1. ASSUME NEW p \in Remotes[f].reads, NEW n \in DOMAIN p PROVE p[n].at \in CacheSlots(f)
  BY StepFacts
<1>2. LastingSlots(f) \subseteq CacheSlots(f)
  BY <1>1 DEF LastingSlots
<1>3. \A step \in ReadSteps(f) : step.at \in CacheSlots(f)
  BY <1>1 DEF ReadSteps
<1>4. MutableSlots(f) \subseteq CacheSlots(f)
  BY <1>3 DEF MutableSlots
<1> QED
  BY <1>2, <1>4

-----------------------------------------------------------------------------
\* The step a request is at.
LEMMA NowFacts ==
  ASSUME RemoteInv, NEW i \in Readers, Reading(i)
  PROVE  /\ format \in RemoteNames /\ Steady(format, reader[i]) /\ reader[i].pc # 0
         /\ Now(i) = reader[i].program[reader[i].pc]
         /\ Now(i) \in ReadSteps(format)
         /\ Now(i).at \in CacheSlots(format) /\ Now(i).by \in CacheSlots(format)
         /\ Now(i).do \in ChangingDocs => Now(i).at \in MutableSlots(format)
         /\ reader[i].got \in Nat /\ reader[i].floor \in Nat /\ reader[i].covered \in BOOLEAN
         /\ reader[i].covered => Now(i).do \in Lasting /\ Has(Now(i).at)
                                 /\ upstream # 0 /\ format # "goproxy"
<1>1. format \in RemoteNames /\ Steady(format, reader[i])
  BY DEF RemoteInv, RemoteTypeOK
<1>2. /\ reader[i].pc \in Nat /\ reader[i].got \in Nat /\ reader[i].floor \in Nat
      /\ reader[i].covered \in BOOLEAN
  BY <1>1, ReaderFields DEF Steady
<1>3. reader[i].pc # 0
  BY <1>2 DEF Reading
<1>4. reader[i].program \in Remotes[format].reads /\ reader[i].pc \in 1..Len(reader[i].program)
  BY <1>1, <1>3 DEF Steady
<1>5. reader[i].pc \in DOMAIN reader[i].program
  BY <1>1, <1>4, StepFacts
<1>6. /\ Now(i) \in ReadSteps(format)
      /\ Now(i).at \in CacheSlots(format) /\ Now(i).by \in CacheSlots(format)
  BY <1>1, <1>4, <1>5, StepFacts DEF Now
<1>7. Now(i).do \in ChangingDocs => Now(i).at \in MutableSlots(format)
  BY <1>6 DEF MutableSlots
<1>8. reader[i].covered => /\ Now(i).do \in Lasting /\ Has(Now(i).at)
                           /\ upstream # 0 /\ format # "goproxy"
  BY <1>1, <1>3, <1>5 DEF Steady, Now, RemoteInv, CoverKept
<1> QED
  BY <1>1, <1>2, <1>3, <1>6, <1>7, <1>8 DEF Now

LEMMA CacheSame ==
  ASSUME RemoteInv, cache' = cache
  PROVE  CacheSafe
BY DEF RemoteInv, RemoteTypeOK, CacheSafe, Has

LEMMA StoreSafe ==
  ASSUME RemoteInv, NEW s \in CacheSlots(format), NEW rev \in Nat \ {0},
         cache' = [cache EXCEPT ![s] = Stored(rev)],
         s \in MutableSlots(format) => \E j \in Readers : OnItsWay(j) /\ rev = reader[j].got
  PROVE  CacheSafe
<1>1. /\ cache \in [CacheSlots(format) -> [rev : Nat, fresh : BOOLEAN]]
      /\ \A t \in CacheSlots(format) : cache[t].fresh => cache[t].rev # 0
  BY DEF RemoteInv, RemoteTypeOK
<1>2. Stored(rev) \in [rev : Nat, fresh : BOOLEAN] /\ Stored(rev).rev = rev
  BY DEF Stored
<1>3. /\ cache' \in [CacheSlots(format) -> [rev : Nat, fresh : BOOLEAN]] /\ cache'[s].rev = rev
      /\ \A t : t # s => cache'[t] = cache[t] \/ t \notin CacheSlots(format)
  BY <1>1, <1>2
<1>4. \A t \in CacheSlots(format) \ {s} : cache'[t] = cache[t]
  BY <1>3
<1>5. \A t \in CacheSlots(format) : cache'[t].fresh => cache'[t].rev # 0
  BY <1>1, <1>3, <1>4
<1>6. LastingSlots(format) \subseteq CacheSlots(format) /\ MutableSlots(format) \subseteq CacheSlots(format)
  BY SlotsWithin DEF RemoteInv, RemoteTypeOK
<1>7. \A t \in LastingSlots(format) : Has(t) => Has(t)'
  BY <1>3, <1>4, <1>6 DEF Has
<1>8. \A t \in MutableSlots(format) :
       cache'[t].fresh => \/ cache'[t] = cache[t]
                          \/ \E j \in Readers : OnItsWay(j) /\ cache'[t].rev = reader[j].got
  BY <1>3, <1>4, <1>6
<1> QED
  BY <1>3, <1>5, <1>7, <1>8 DEF CacheSafe

LEMMA RemoveSafe ==
  ASSUME RemoteInv, NEW s \in CacheSlots(format), cache' = [cache EXCEPT ![s] = Gone],
         format # "goproxy" => s \notin LastingSlots(format)
  PROVE  CacheSafe
<1>1. /\ cache \in [CacheSlots(format) -> [rev : Nat, fresh : BOOLEAN]]
      /\ \A t \in CacheSlots(format) : cache[t].fresh => cache[t].rev # 0
  BY DEF RemoteInv, RemoteTypeOK
<1>2. Gone \in [rev : Nat, fresh : BOOLEAN] /\ Gone.fresh = FALSE
  BY DEF Gone
<1>3. /\ cache' \in [CacheSlots(format) -> [rev : Nat, fresh : BOOLEAN]] /\ cache'[s].fresh = FALSE
      /\ \A t \in CacheSlots(format) \ {s} : cache'[t] = cache[t]
  BY <1>1, <1>2
<1>4. \A t \in CacheSlots(format) : cache'[t].fresh => cache'[t].rev # 0
  BY <1>1, <1>3
<1>5. LastingSlots(format) \subseteq CacheSlots(format) /\ MutableSlots(format) \subseteq CacheSlots(format)
  BY SlotsWithin DEF RemoteInv, RemoteTypeOK
<1>6. format # "goproxy" => \A t \in LastingSlots(format) : Has(t) => Has(t)'
  BY <1>3, <1>5 DEF Has
<1>7. \A t \in MutableSlots(format) : cache'[t].fresh => cache'[t] = cache[t]
  BY <1>3, <1>5
<1> QED
  BY <1>3, <1>4, <1>6, <1>7 DEF CacheSafe

-----------------------------------------------------------------------------
\* How a request goes on.
LEMMA NowAssumed ==
  ASSUME RemoteInv, NEW i \in Readers, Reading(i)
  PROVE  /\ Now(i).do \in {"named", "content", "relist", "write"} =>
              Now(i).at \notin MutableSlots(format)
         /\ format # "goproxy" /\ Now(i).do \in {"match", "drop"} =>
              Now(i).at \notin LastingSlots(format)
         /\ format # "goproxy" /\ Now(i).do = "renew" => Now(i).by \notin LastingSlots(format)
         /\ Now(i).do = "write" => reader[i].last \in Nat \ {0}
<1>1. format \in RemoteNames /\ Now(i) \in ReadSteps(format) /\ Steady(format, reader[i])
      /\ reader[i].pc # 0 /\ Now(i) = reader[i].program[reader[i].pc]
  BY NowFacts
<1>2. \A step \in ReadSteps(format) :
         /\ step.do \in {"named", "content", "relist", "write"} => step.at \notin MutableSlots(format)
         /\ format # "goproxy" /\ step.do \in {"match", "drop"} => step.at \notin LastingSlots(format)
         /\ format # "goproxy" /\ step.do = "renew" => step.by \notin LastingSlots(format)
  BY <1>1, RemoteAssumption, Zenon DEF RemoteAssumption
<1>3. ASSUME Now(i).do = "write" PROVE reader[i].last \in Nat \ {0}
  <2>1. reader[i].program \in Remotes[format].reads /\ reader[i].pc \in 1..Len(reader[i].program)
    BY <1>1 DEF Steady
  <2>2. reader[i].pc \in DOMAIN reader[i].program
    BY <1>1, <2>1, StepFacts
  <2>3. \E m \in 1..(reader[i].pc - 1) : Gives(reader[i].program[m])
    BY <1>1, <1>3, <2>1, <2>2, StepFacts
  <2>4. reader[i].last # 0
    BY <1>1, <2>3 DEF Steady
  <2>5. reader[i].last \in Nat
    BY <1>1, ReaderFields DEF Steady
  <2> QED
    BY <2>4, <2>5
<1> QED
  BY <1>1, <1>2, <1>3

LEMMA FollowMoves ==
  ASSUME RemoteInv, NEW i \in Readers, NEW o, reader' = [reader EXCEPT ![i] = o],
         Steady(format, o), Follows(reader[i], o)
  PROVE  Moves(i)
<1>1. DOMAIN reader = Readers
  BY DEF RemoteInv, RemoteTypeOK
<1>2. DOMAIN reader' = Readers /\ reader'[i] = o /\ \A j \in Readers \ {i} : reader'[j] = reader[j]
  BY <1>1
<1> QED
  BY <1>2 DEF Moves, Follows

LEMMA ServedMoves ==
  ASSUME RemoteInv, NEW i \in Readers, Reading(i), NEW rev \in Nat \ {0}, Served(i, rev),
         Now(i).do \in ChangingDocs => ~(rev < reader[i].floor)
  PROVE  Moves(i)
<1>1. /\ format \in RemoteNames /\ Steady(format, reader[i]) /\ reader[i].pc # 0
      /\ Now(i) = reader[i].program[reader[i].pc]
  BY NowFacts
<1>2. Steady(format, Given(reader[i], rev)) /\ Follows(reader[i], Given(reader[i], rev))
  BY <1>1, GivenSteady
<1> QED
  BY <1>2, FollowMoves DEF Served

LEMMA FailsMoves ==
  ASSUME RemoteInv, NEW i \in Readers, Reading(i), NEW why \in Ends, Fails(i, why),
         ~reader[i].covered
  PROVE  Moves(i)
<1>1. /\ format \in RemoteNames /\ Steady(format, reader[i]) /\ reader[i].pc # 0
  BY NowFacts
<1>2. Steady(format, Failing(reader[i], why)) /\ Follows(reader[i], Failing(reader[i], why))
  BY <1>1, FailingSteady
<1> QED
  BY <1>2, FollowMoves DEF Fails

LEMMA GoOnMoves ==
  ASSUME RemoteInv, NEW i \in Readers, Reading(i), GoOn(i), ~Gives(Now(i))
  PROVE  Moves(i)
<1>1. /\ format \in RemoteNames /\ Steady(format, reader[i]) /\ reader[i].pc # 0
      /\ Now(i) = reader[i].program[reader[i].pc]
  BY NowFacts
<1>2. Steady(format, Onward(reader[i])) /\ Follows(reader[i], Onward(reader[i]))
  BY <1>1, SkippedSteady
<1> QED
  BY <1>2, FollowMoves DEF GoOn

-----------------------------------------------------------------------------
\* The request is answered from the cache.
LEMMA CacheTyped ==
  ASSUME RemoteInv, NEW s \in CacheSlots(format)
  PROVE  cache[s].rev \in Nat /\ cache[s].fresh \in BOOLEAN /\ (cache[s].fresh => Has(s))
BY DEF RemoteInv, RemoteTypeOK, Has

LEMMA FreshEnough ==
  ASSUME RemoteInv, NEW i \in Readers, Reading(i), Now(i).do \in ChangingDocs, cache[Now(i).at].fresh
  PROVE  ~(cache[Now(i).at].rev < reader[i].floor)
<1>1. /\ reader[i].floor \in Nat /\ Now(i).at \in MutableSlots(format)
      /\ Now(i).at \in CacheSlots(format)
  BY NowFacts
<1>2. cache[Now(i).at].rev \in Nat
  BY <1>1, CacheTyped
<1>3. reader[i].floor # 0 => cache[Now(i).at].rev >= reader[i].floor
  BY <1>1 DEF RemoteInv, FloorKept
<1> QED
  BY <1>1, <1>2, <1>3

LEMMA FromCacheKeeps ==
  ASSUME RemoteInv, NEW i \in Readers, FromCache(i)
  PROVE  RemoteInv'
<1>1. Reading(i) /\ Now(i).do \in Fetching /\ OwnCopy(i) /\ UNCHANGED <<format, upstream, reachable>>
  BY DEF FromCache, Takes
<1>2. Now(i).at \in CacheSlots(format) /\ Now(i).by \in CacheSlots(format)
  BY <1>1, NowFacts
<1>3. CASE Now(i).do = "relist"
  <2> DEFINE rev == Relisted(Now(i))
  <2>1. Has(Now(i).at) \/ Has(Now(i).by)
    BY <1>1, <1>2, <1>3, CacheTyped DEF OwnCopy, ChangingDocs
  <2>2. rev \in Nat \ {0}
    BY <1>2, <2>1, CacheTyped DEF Relisted, Has
  <2>3. /\ Served(i, rev)
        /\ cache' = [cache EXCEPT ![Now(i).at] = IF @.fresh THEN @ ELSE Stored(rev)]
    BY <1>3 DEF FromCache
  <2> HIDE DEF rev
  <2>4. Moves(i)
    BY <1>1, <1>3, <2>2, <2>3, ServedMoves DEF ChangingDocs
  <2>5. CacheSafe
    <3>1. CASE cache[Now(i).at].fresh
      <4>1. cache' = cache
        BY <2>3, <3>1 DEF RemoteInv, RemoteTypeOK
      <4> QED
        BY <4>1, CacheSame
    <3>2. CASE ~cache[Now(i).at].fresh
      <4>1. cache' = [cache EXCEPT ![Now(i).at] = Stored(rev)]
        BY <2>3, <3>2
      <4>2. Now(i).at \notin MutableSlots(format)
        BY <1>1, <1>3, NowAssumed
      <4> QED
        BY <1>2, <2>2, <4>1, <4>2, StoreSafe
    <3> QED
      BY <3>1, <3>2
  <2> QED
    BY <1>1, <2>4, <2>5, MovesKeep
<1>4. CASE Now(i).do # "relist"
  <2>1. Served(i, cache[Now(i).at].rev) /\ cache' = cache
    BY <1>4 DEF FromCache
  <2>2. /\ Now(i).do \in ChangingDocs => cache[Now(i).at].fresh
        /\ Has(Now(i).at)
    <3>1. CASE Now(i).do \in ChangingDocs
      BY <1>1, <1>2, <3>1, CacheTyped DEF OwnCopy, ChangingDocs
    <3>2. CASE Now(i).do \in {"pin", "sound"}
      BY <1>1, <3>2 DEF OwnCopy, ChangingDocs
    <3>3. CASE Now(i).do \in {"named", "content"}
      BY <1>1, <3>3 DEF OwnCopy, ChangingDocs
    <3>4. CASE Now(i).do = "verify"
      BY <1>1, <1>2, <3>4, CacheTyped DEF OwnCopy, ChangingDocs
    <3>5. CASE Now(i).do \in {"refetch", "pass"}
      BY <1>1, <3>5 DEF OwnCopy, ChangingDocs
    <3> QED
      BY <1>1, <1>4, <3>1, <3>2, <3>3, <3>4, <3>5 DEF Fetching
  <2>3. cache[Now(i).at].rev \in Nat \ {0}
    BY <1>2, <2>2, CacheTyped DEF Has
  <2>4. Now(i).do \in ChangingDocs => ~(cache[Now(i).at].rev < reader[i].floor)
    BY <1>1, <2>2, FreshEnough
  <2>5. Moves(i)
    BY <1>1, <2>1, <2>3, <2>4, ServedMoves
  <2> QED
    BY <1>1, <2>1, <2>5, CacheSame, MovesKeep
<1> QED
  BY <1>3, <1>4

-----------------------------------------------------------------------------
\* The upstream is asked.
Asked(r, got, old) == [r EXCEPT !.got = got, !.old = old]
LEMMA AskedSteady ==
  ASSUME NEW f, NEW r, Steady(f, r), r.pc # 0, NEW got \in Nat, NEW old \in Nat,
         r.covered => r.program[r.pc].do \notin {"pin", "sound"},
         NEW o, o = Asked(r, got, old)
  PROVE  /\ Steady(f, o) /\ o.pc = r.pc /\ o.program = r.program /\ o.covered = r.covered
         /\ o.floor = r.floor /\ o.got = got
<1> DEFINE P == Remotes[f].reads \cup {<<>>}
           S == [CacheSlots(f) -> Nat] \cup {<<>>}
<1>1. r \in ReaderIn(P, S) /\ ReaderOf(f) = ReaderIn(P, S)
  BY DEF Steady, ReaderOf
<1> HIDE DEF P, S
<1>2. /\ o \in ReaderIn(P, S) /\ o.pc = r.pc /\ o.program = r.program /\ o.covered = r.covered
      /\ o.floor = r.floor /\ o.got = got /\ o.outdated = r.outdated /\ o.end = r.end
      /\ o.last = r.last /\ o.seen = r.seen
  BY <1>1 DEF ReaderIn, Asked
<1>3. Steady(f, o)
  BY <1>1, <1>2 DEF Steady
<1> QED
  BY <1>2, <1>3

LEMMA GetKeeps ==
  ASSUME RemoteInv, NEW i \in Readers, Get(i)
  PROVE  RemoteInv'
<1>1. /\ Reading(i) /\ Now(i).do \in Fetching /\ ~OwnCopy(i) /\ cache' = cache
      /\ UNCHANGED <<format, upstream, reachable>>
  BY DEF Get, Takes
<1>2. /\ Now(i).at \in CacheSlots(format) /\ Now(i).by \in CacheSlots(format)
      /\ format \in RemoteNames /\ Steady(format, reader[i]) /\ reader[i].pc # 0
      /\ Now(i) = reader[i].program[reader[i].pc] /\ reader[i].floor \in Nat
      /\ reader[i].covered => Now(i).do \in Lasting /\ Has(Now(i).at) /\ upstream # 0
  BY <1>1, NowFacts
<1>3. upstream \in Nat /\ cache[Now(i).at].rev \in Nat
  BY <1>2, CacheTyped DEF RemoteInv, RemoteTypeOK
<1>4. reader[i].covered => Now(i).do \in {"fetch", "keep", "flow"}
  <2>1. Has(Now(i).at) => Now(i).do \notin {"pin", "sound"}
    BY <1>1 DEF OwnCopy, ChangingDocs
  <2> QED
    BY <1>1, <1>2, <2>1 DEF Fetching, Lasting, ChangingDocs
<1>5. reader[i].floor # 0 => reachable /\ upstream # 0
  <2>1. reader[i].floor # 0 => reachable /\ upstream >= reader[i].floor
    BY <1>1 DEF RemoteInv, FloorKept
  <2> QED
    BY <1>2, <1>3, <2>1
<1>6. Wanted(i) \in Nat
  <2>1. reader[i].seen \in [CacheSlots(format) -> Nat]
    BY <1>2 DEF Steady
  <2>2. cache[Now(i).by].rev \in Nat /\ reader[i].seen[Now(i).by] \in Nat
    BY <1>2, <2>1, CacheTyped
  <2> QED
    BY <1>3, <2>2 DEF Wanted
<1> DEFINE named == Now(i).do \in {"named", "content"}
           cached == cache[Now(i).at].rev
           got == IF named THEN Wanted(i) ELSE upstream
<1>7. \/ /\ reachable /\ upstream # 0
         /\ reader' = [reader EXCEPT ![i].got = got, ![i].old = cached]
      \/ /\ reachable /\ (upstream = 0 \/ (named /\ Wanted(i) # upstream))
         /\ IF Now(i).do \in {"keep", "relist"} /\ cached # 0
              THEN Served(i, cached) ELSE Fails(i, "absent")
      \/ /\ ~reachable
         /\ IF Now(i).do \in Stale /\ cached # 0
              THEN Served(i, cached) ELSE Fails(i, "down")
  BY DEF Get
<1> HIDE DEF cached, got
<1>8. cached \in Nat /\ got \in Nat /\ (got = upstream \/ named)
  BY <1>3, <1>6 DEF cached, got
<1> HIDE DEF named
<1>9. CASE reader' = [reader EXCEPT ![i].got = got, ![i].old = cached]
  <2> DEFINE o == Asked(reader[i], got, cached)
  <2>1. DOMAIN reader = Readers
    BY DEF RemoteInv, RemoteTypeOK
  <2>2. DOMAIN reader' = Readers /\ reader'[i] = o /\ \A j \in Readers \ {i} : reader'[j] = reader[j]
    BY <1>9, <2>1 DEF Asked
  <2>3. reader[i].covered => reader[i].program[reader[i].pc].do \notin {"pin", "sound"}
    BY <1>2, <1>4
  <2>4. /\ Steady(format, o) /\ o.pc = reader[i].pc /\ o.program = reader[i].program
        /\ o.covered = reader[i].covered /\ o.floor = reader[i].floor /\ o.got = got
    BY <1>2, <1>8, <2>3, AskedSteady
  <2> HIDE DEF o
  <2>5. Now(i)' = Now(i)
    BY <2>2, <2>4 DEF Now
  <2>6. Moves(i)
    BY <1>8, <2>2, <2>4, <2>5 DEF Moves, named
  <2> QED
    BY <1>1, <2>6, CacheSame, MovesKeep
<1>10. ASSUME cached # 0, Served(i, cached), Now(i).do \in ChangingDocs => reader[i].floor = 0
       PROVE  RemoteInv'
  <2>1. Now(i).do \in ChangingDocs => ~(cached < reader[i].floor)
    BY <1>8, <1>10
  <2>2. Moves(i)
    BY <1>1, <1>8, <1>10, <2>1, ServedMoves
  <2> QED
    BY <1>1, <2>2, CacheSame, MovesKeep
<1>11. ASSUME NEW why \in Ends, Fails(i, why), ~reader[i].covered PROVE RemoteInv'
  <2>1. Moves(i)
    BY <1>1, <1>11, FailsMoves
  <2> QED
    BY <1>1, <2>1, CacheSame, MovesKeep
<1>12. CASE /\ reachable /\ (upstream = 0 \/ (named /\ Wanted(i) # upstream))
            /\ IF Now(i).do \in {"keep", "relist"} /\ cached # 0
                 THEN Served(i, cached) ELSE Fails(i, "absent")
  <2>1. ~reader[i].covered
    BY <1>2, <1>4, <1>12 DEF named
  <2>2. Now(i).do \in ChangingDocs => reader[i].floor = 0
    BY <1>5, <1>12 DEF named, ChangingDocs
  <2>3. "absent" \in Ends
    BY DEF Ends
  <2> QED
    BY <1>10, <1>11, <1>12, <2>1, <2>2, <2>3
<1>13. CASE /\ ~reachable
            /\ IF Now(i).do \in Stale /\ cached # 0
                 THEN Served(i, cached) ELSE Fails(i, "down")
  <2>1. reader[i].covered => Now(i).do \in Stale /\ cached # 0
    BY <1>2, <1>4 DEF Stale, Has, cached
  <2>2. "down" \in Ends /\ reader[i].floor = 0
    BY <1>5, <1>13 DEF Ends
  <2> QED
    BY <1>10, <1>11, <1>13, <2>1, <2>2
<1> QED
  BY <1>7, <1>9, <1>12, <1>13

-----------------------------------------------------------------------------
\* The answer is stored.
LEMMA RenewSafe ==
  ASSUME RemoteInv, NEW s \in CacheSlots(format), NEW t \in CacheSlots(format),
         NEW rev \in Nat \ {0},
         cache' = [cache EXCEPT ![s] = Stored(rev), ![t] = Gone],
         format # "goproxy" => t \notin LastingSlots(format),
         \E j \in Readers : OnItsWay(j) /\ rev = reader[j].got
  PROVE  CacheSafe
<1>1. /\ cache \in [CacheSlots(format) -> [rev : Nat, fresh : BOOLEAN]]
      /\ \A u \in CacheSlots(format) : cache[u].fresh => cache[u].rev # 0
  BY DEF RemoteInv, RemoteTypeOK
<1>2. /\ Stored(rev) \in [rev : Nat, fresh : BOOLEAN] /\ Stored(rev).rev = rev
      /\ Gone \in [rev : Nat, fresh : BOOLEAN] /\ Gone.fresh = FALSE
  BY DEF Stored, Gone
<1>3. /\ cache' \in [CacheSlots(format) -> [rev : Nat, fresh : BOOLEAN]]
      /\ cache'[t] = Gone /\ (s # t => cache'[s] = Stored(rev))
      /\ \A u \in CacheSlots(format) \ {s, t} : cache'[u] = cache[u]
  BY <1>1, <1>2
<1>4. \A u \in CacheSlots(format) : cache'[u].fresh => cache'[u].rev # 0
  BY <1>1, <1>2, <1>3
<1>5. LastingSlots(format) \subseteq CacheSlots(format) /\ MutableSlots(format) \subseteq CacheSlots(format)
  BY SlotsWithin DEF RemoteInv, RemoteTypeOK
<1>6. format # "goproxy" => \A u \in LastingSlots(format) : Has(u) => Has(u)'
  BY <1>2, <1>3, <1>5 DEF Has
<1>7. \A u \in MutableSlots(format) :
       cache'[u].fresh => \/ cache'[u] = cache[u]
                          \/ \E j \in Readers : OnItsWay(j) /\ cache'[u].rev = reader[j].got
  BY <1>2, <1>3, <1>5
<1> QED
  BY <1>3, <1>4, <1>6, <1>7 DEF CacheSafe

LEMMA StoreKeeps ==
  ASSUME RemoteInv, NEW i \in Readers, Store(i)
  PROVE  RemoteInv'
<1>1. /\ Reading(i) /\ Now(i).do \in Fetching /\ reader[i].got # 0
      /\ UNCHANGED <<format, upstream, reachable>>
  BY DEF Store, Takes
<1>2. /\ Now(i).at \in CacheSlots(format) /\ Now(i).by \in CacheSlots(format)
      /\ Steady(format, reader[i]) /\ reader[i].pc # 0 /\ reader[i].floor \in Nat
      /\ Now(i) = reader[i].program[reader[i].pc] /\ reader[i].got \in Nat \ {0}
  BY <1>1, NowFacts
<1>3. Now(i).do \notin {"named", "content"} => OnItsWay(i)
  BY <1>1 DEF OnItsWay
<1>4. CASE Now(i).do = "sound" /\ reader[i].seen[Now(i).by] \notin {0, reader[i].got}
  <2>1. Fails(i, "mismatch") /\ cache' = cache
    BY <1>4 DEF Store
  <2>2. ~reader[i].covered
    BY <1>2, <1>4 DEF Steady
  <2>3. "mismatch" \in Ends
    BY DEF Ends
  <2>4. Moves(i)
    BY <1>1, <2>1, <2>2, <2>3, FailsMoves
  <2> QED
    BY <1>1, <2>1, <2>4, CacheSame, MovesKeep
<1>5. CASE ~(Now(i).do = "sound" /\ reader[i].seen[Now(i).by] \notin {0, reader[i].got})
  <2>1. /\ Served(i, reader[i].got)
        /\ cache' = IF Now(i).do = "pass" THEN cache
                    ELSE IF Now(i).do = "renew" /\ reader[i].old # reader[i].got
                    THEN [cache EXCEPT ![Now(i).at] = Stored(reader[i].got), ![Now(i).by] = Gone]
                    ELSE [cache EXCEPT ![Now(i).at] = Stored(reader[i].got)]
    BY <1>5 DEF Store
  <2>2. Now(i).do \in ChangingDocs => ~(reader[i].got < reader[i].floor)
    <3> SUFFICES ASSUME Now(i).do \in ChangingDocs PROVE ~(reader[i].got < reader[i].floor)
      OBVIOUS
    <3>1. OnItsWay(i)
      BY <1>3 DEF ChangingDocs
    <3>2. reader[i].floor # 0 => reader[i].got >= reader[i].floor
      BY <1>1, <3>1 DEF RemoteInv, FloorKept, OnItsWay
    <3> QED
      BY <1>2, <3>2
  <2>3. Moves(i)
    BY <1>1, <1>2, <2>1, <2>2, ServedMoves
  <2>4. CASE Now(i).do = "pass"
    BY <1>1, <2>1, <2>3, <2>4, CacheSame, MovesKeep
  <2>5. CASE Now(i).do = "renew" /\ reader[i].old # reader[i].got
    <3>1. cache' = [cache EXCEPT ![Now(i).at] = Stored(reader[i].got), ![Now(i).by] = Gone]
      BY <2>1, <2>5
    <3>2. format # "goproxy" => Now(i).by \notin LastingSlots(format)
      BY <1>1, <2>5, NowAssumed
    <3>3. \E j \in Readers : OnItsWay(j) /\ reader[i].got = reader[j].got
      BY <1>3, <2>5
    <3>4. CacheSafe
      BY <1>2, <3>1, <3>2, <3>3, RenewSafe
    <3> QED
      BY <1>1, <2>3, <3>4, MovesKeep
  <2>6. CASE Now(i).do # "pass" /\ ~(Now(i).do = "renew" /\ reader[i].old # reader[i].got)
    <3>1. cache' = [cache EXCEPT ![Now(i).at] = Stored(reader[i].got)]
      BY <2>1, <2>6
    <3>2. Now(i).at \in MutableSlots(format) =>
            \E j \in Readers : OnItsWay(j) /\ reader[i].got = reader[j].got
      BY <1>1, <1>3, NowAssumed
    <3>3. CacheSafe
      BY <1>2, <3>1, <3>2, StoreSafe
    <3> QED
      BY <1>1, <2>3, <3>3, MovesKeep
  <2> QED
    BY <2>4, <2>5, <2>6
<1> QED
  BY <1>4, <1>5

\* The other steps.
LEMMA HandleKeeps ==
  ASSUME RemoteInv, NEW i \in Readers, Handle(i)
  PROVE  RemoteInv'
<1>1. Reading(i) /\ UNCHANGED <<format, upstream, reachable>>
  BY DEF Handle, Takes
<1>2. /\ Now(i).at \in CacheSlots(format) /\ format \in RemoteNames
      /\ Steady(format, reader[i]) /\ reader[i].pc # 0
      /\ reader[i].covered => Now(i).do \in Lasting /\ Has(Now(i).at)
  BY <1>1, NowFacts
<1>3. CASE Now(i).do = "match"
  <2>1. ~reader[i].covered /\ ~Gives(Now(i)) /\ "mismatch" \in Ends
    BY <1>2, <1>3 DEF Lasting, Gives, Fetching, ChangingDocs, Ends
  <2>2. CASE Fails(i, "mismatch") /\ cache' = [cache EXCEPT ![Now(i).at] = Gone]
    <3>1. format # "goproxy" => Now(i).at \notin LastingSlots(format)
      BY <1>1, <1>3, NowAssumed
    <3>2. CacheSafe
      BY <1>2, <2>2, <3>1, RemoveSafe
    <3>3. Moves(i)
      BY <1>1, <2>1, <2>2, FailsMoves
    <3> QED
      BY <1>1, <3>2, <3>3, MovesKeep
  <2>3. CASE GoOn(i) /\ cache' = cache
    <3>1. Moves(i)
      BY <1>1, <2>1, <2>3, GoOnMoves
    <3> QED
      BY <1>1, <2>3, <3>1, CacheSame, MovesKeep
  <2> QED
    BY <1>3, <2>2, <2>3 DEF Handle
<1>4. CASE Now(i).do = "cached"
  <2>1. cache' = cache
    BY <1>4 DEF Handle
  <2>2. CASE Has(Now(i).at)
    <3>1. Served(i, cache[Now(i).at].rev)
      BY <1>4, <2>2 DEF Handle
    <3>2. cache[Now(i).at].rev \in Nat \ {0} /\ Now(i).do \notin ChangingDocs
      BY <1>2, <1>4, <2>2, CacheTyped DEF Has, ChangingDocs
    <3>3. Moves(i)
      BY <1>1, <3>1, <3>2, ServedMoves
    <3> QED
      BY <1>1, <2>1, <3>3, CacheSame, MovesKeep
  <2>3. CASE ~Has(Now(i).at)
    <3>1. Fails(i, "absent") /\ "absent" \in Ends /\ ~reader[i].covered
      BY <1>2, <1>4, <2>3 DEF Handle, Ends
    <3>2. Moves(i)
      BY <1>1, <3>1, FailsMoves
    <3> QED
      BY <1>1, <2>1, <3>2, CacheSame, MovesKeep
  <2> QED
    BY <2>2, <2>3
<1>5. CASE Now(i).do = "unless"
  <2>1. cache' = cache /\ ~Gives(Now(i))
    BY <1>5 DEF Handle, Gives, Fetching, ChangingDocs
  <2>2. CASE Has(Now(i).at)
    <3>1. reader' = [reader EXCEPT ![i] = EndedRead(reader[i], "ok")]
      BY <1>5, <2>2 DEF Handle
    <3>2. Steady(format, EndedRead(reader[i], "ok")) /\ EndedRead(reader[i], "ok").pc = 0
      BY <1>2, EndedSteady DEF Steady, Ends
    <3>3. Moves(i)
      BY <3>1, <3>2, FollowMoves DEF Follows
    <3> QED
      BY <1>1, <2>1, <3>3, CacheSame, MovesKeep
  <2>3. CASE ~Has(Now(i).at)
    <3>1. GoOn(i)
      BY <1>5, <2>3 DEF Handle
    <3>2. Moves(i)
      BY <1>1, <2>1, <3>1, GoOnMoves
    <3> QED
      BY <1>1, <2>1, <3>2, CacheSame, MovesKeep
  <2> QED
    BY <2>2, <2>3
<1>6. CASE Now(i).do = "drop"
  <2>1. GoOn(i) /\ cache' = [cache EXCEPT ![Now(i).at] = Gone] /\ ~Gives(Now(i))
    BY <1>6 DEF Handle, Gives, Fetching, ChangingDocs
  <2>2. format # "goproxy" => Now(i).at \notin LastingSlots(format)
    BY <1>1, <1>6, NowAssumed
  <2>3. CacheSafe
    BY <1>2, <2>1, <2>2, RemoveSafe
  <2>4. Moves(i)
    BY <1>1, <2>1, GoOnMoves
  <2> QED
    BY <1>1, <2>3, <2>4, MovesKeep
<1>7. CASE Now(i).do = "write"
  <2>1. GoOn(i) /\ cache' = [cache EXCEPT ![Now(i).at] = Stored(reader[i].last)] /\ ~Gives(Now(i))
    BY <1>7 DEF Handle, Gives, Fetching, ChangingDocs
  <2>2. Now(i).at \notin MutableSlots(format) /\ reader[i].last \in Nat \ {0}
    BY <1>1, <1>7, NowAssumed
  <2>3. CacheSafe
    BY <1>2, <2>1, <2>2, StoreSafe
  <2>4. Moves(i)
    BY <1>1, <2>1, GoOnMoves
  <2> QED
    BY <1>1, <2>3, <2>4, MovesKeep
<1> QED
  BY <1>3, <1>4, <1>5, <1>6, <1>7 DEF Handle

-----------------------------------------------------------------------------
\* A request begins.
Begun(program, seen, floor, covered) ==
  [Waiting EXCEPT !.program = program, !.pc = 1, !.seen = seen, !.floor = floor,
                  !.covered = covered]
LEMMA BegunSteady ==
  ASSUME NEW f \in RemoteNames, NEW program \in Remotes[f].reads, NEW floor \in Nat,
         NEW seen \in [CacheSlots(f) -> Nat], NEW covered \in BOOLEAN,
         covered => \A n \in DOMAIN program : program[n].do \in Lasting,
         NEW o, o = Begun(program, seen, floor, covered)
  PROVE  /\ Steady(f, o) /\ o.pc = 1 /\ o.program = program /\ o.covered = covered
         /\ o.floor = floor /\ o.got = 0
<1> DEFINE P == Remotes[f].reads \cup {<<>>}
           S == [CacheSlots(f) -> Nat] \cup {<<>>}
<1>1. /\ Waiting \in ReaderIn(P, S) /\ ReaderOf(f) = ReaderIn(P, S) /\ program \in P /\ seen \in S
      /\ Waiting.end = "idle" /\ Waiting.got = 0 /\ Waiting.outdated = FALSE
  BY WaitingFields DEF ReaderOf
<1> HIDE DEF P, S
<1>2. /\ o \in ReaderIn(P, S) /\ o.pc = 1 /\ o.program = program /\ o.covered = covered
      /\ o.floor = floor /\ o.got = Waiting.got /\ o.outdated = Waiting.outdated
      /\ o.end = Waiting.end /\ o.seen = seen
  BY <1>1 DEF ReaderIn, Begun
<1>3. o.pc \in 1..Len(o.program) /\ 1..(o.pc - 1) = {}
  <2>1. Len(program) \in Nat \ {0}
    BY StepFacts
  <2> QED
    BY <1>2, <2>1
<1>4. Steady(f, o)
  BY <1>1, <1>2, <1>3 DEF Steady
<1> QED
  BY <1>1, <1>2, <1>4

LEMMA RequestKeeps ==
  ASSUME RemoteInv, NEW i \in Readers, NEW program \in Remotes[format].reads, Request(i, program)
  PROVE  RemoteInv'
<1> DEFINE seen == [s \in CacheSlots(format) |-> 0]
           floor == IF ~Busy /\ reachable /\ \A s \in CacheSlots(format) : ~cache[s].fresh
                      THEN upstream ELSE 0
           covered == /\ upstream # 0 /\ format # "goproxy"
                      /\ \A n \in DOMAIN program :
                           program[n].do \in Lasting /\ Has(program[n].at)
           o == Begun(program, seen, floor, covered)
<1>1. /\ ~Reading(i) /\ UNCHANGED <<format, upstream, reachable, cache>>
      /\ reader' = [reader EXCEPT ![i] = o]
  BY DEF Request, Begun
<1>2. format \in RemoteNames /\ upstream \in Nat /\ DOMAIN reader = Readers
  BY DEF RemoteInv, RemoteTypeOK
<1>3. seen \in [CacheSlots(format) -> Nat] /\ floor \in Nat /\ covered \in BOOLEAN
  BY <1>2
<1>4. floor # 0 => /\ ~Busy /\ reachable /\ floor = upstream
                   /\ \A s \in CacheSlots(format) : ~cache[s].fresh
  OBVIOUS
<1>5. covered => /\ upstream # 0 /\ format # "goproxy"
                 /\ \A n \in DOMAIN program : program[n].do \in Lasting
                 /\ \A n \in DOMAIN program : Has(program[n].at)
  OBVIOUS
<1> HIDE DEF seen, floor, covered
<1>6. /\ Steady(format, o) /\ o.pc = 1 /\ o.program = program /\ o.covered = covered
      /\ o.floor = floor /\ o.got = 0
  BY <1>2, <1>3, <1>5, BegunSteady
<1> HIDE DEF o
<1>7. DOMAIN reader' = Readers /\ reader'[i] = o /\ \A j \in Readers \ {i} : reader'[j] = reader[j]
  BY <1>1, <1>2
<1>8. RemoteTypeOK'
  <2>1. ASSUME NEW j \in Readers PROVE Steady(format, reader[j])'
    BY <1>1, <1>6, <1>7, <2>1 DEF RemoteInv, RemoteTypeOK
  <2> QED
    BY <1>1, <1>7, <2>1 DEF RemoteInv, RemoteTypeOK
<1>9. \A j \in Readers : OnItsWay(j)' => OnItsWay(j) /\ reader'[j].got = reader[j].got
  BY <1>6, <1>7 DEF OnItsWay, Reading, Now
<1>10. CacheSafe
  BY <1>1, CacheSame
<1>11. ASSUME NEW j \in Readers \ {i}, Reading(j)' PROVE CoverKept(j)' /\ FloorKept(j)'
  <2>1. Reading(j) /\ reader'[j] = reader[j] /\ Steady(format, reader'[j])
    BY <1>7, <1>11 DEF Reading, RemoteInv, RemoteTypeOK
  <2>2. reader'[j].pc # 0
    BY <2>1, NowFacts
  <2>3. CoverKept(j)'
    BY <1>1, <1>10, <2>1, <2>2, CoverStays
  <2>4. FloorKept(j)'
    BY <1>1, <1>9, <1>10, <2>1, FloorStays
  <2> QED
    BY <2>3, <2>4
<1>12. CoverKept(i)'
  BY <1>1, <1>5, <1>6, <1>7 DEF CoverKept, Has
<1>13. FloorKept(i)'
  <2> SUFFICES ASSUME floor # 0
               PROVE  /\ reachable /\ upstream >= floor
                      /\ \A s \in MutableSlots(format) : cache[s].fresh => cache[s].rev >= floor
                      /\ \A j \in Readers : OnItsWay(j)' => reader'[j].got >= floor
    BY <1>1, <1>6, <1>7 DEF FloorKept, OnItsWay
  <2>1. MutableSlots(format) \subseteq CacheSlots(format)
    BY <1>2, SlotsWithin
  <2>2. \A j \in Readers : ~OnItsWay(j)'
    BY <1>4, <1>9 DEF Busy, OnItsWay
  <2>3. reachable /\ upstream >= floor
    BY <1>2, <1>4
  <2> QED
    BY <1>4, <2>1, <2>2, <2>3
<1>14. ASSUME NEW j \in Readers PROVE CoverKept(j)' /\ FloorKept(j)'
  BY <1>11, <1>12, <1>13 DEF CoverKept, FloorKept
<1> QED
  BY <1>8, <1>14 DEF RemoteInv

-----------------------------------------------------------------------------
\* Events: the requests they excuse.
Lenient(r, floor, covered) == [r EXCEPT !.floor = floor, !.covered = covered]
LEMMA LenientSteady ==
  ASSUME NEW f, NEW r, Steady(f, r), NEW floor \in Nat, NEW covered \in BOOLEAN,
         covered => r.covered, NEW o, o = Lenient(r, floor, covered)
  PROVE  /\ Steady(f, o) /\ o.pc = r.pc /\ o.program = r.program /\ o.got = r.got
         /\ o.floor = floor /\ o.covered = covered
<1> DEFINE P == Remotes[f].reads \cup {<<>>}
           S == [CacheSlots(f) -> Nat] \cup {<<>>}
<1>1. r \in ReaderIn(P, S) /\ ReaderOf(f) = ReaderIn(P, S)
  BY DEF Steady, ReaderOf
<1> HIDE DEF P, S
<1>2. /\ o \in ReaderIn(P, S) /\ o.pc = r.pc /\ o.program = r.program /\ o.covered = covered
      /\ o.floor = floor /\ o.got = r.got /\ o.outdated = r.outdated /\ o.end = r.end
      /\ o.last = r.last /\ o.seen = r.seen
  BY <1>1 DEF ReaderIn, Lenient
<1>3. Steady(f, o)
  BY <1>1, <1>2 DEF Steady
<1> QED
  BY <1>2, <1>3

\* What an event leaves of the request i.
Relaxed(i, next, floors, covers) ==
  /\ Steady(format, next) /\ next.pc = reader[i].pc /\ next.program = reader[i].program
  /\ next.got = reader[i].got
  /\ next.floor = IF floors /\ Reading(i) THEN 0 ELSE reader[i].floor
  /\ next.covered = IF covers /\ Reading(i) THEN FALSE ELSE reader[i].covered

LEMMA ExcuseRelaxes ==
  ASSUME RemoteInv, NEW floors \in BOOLEAN, NEW covers \in BOOLEAN
  PROVE  /\ DOMAIN Excuse(reader, floors, covers) = Readers
         /\ \A i \in Readers : Relaxed(i, Excuse(reader, floors, covers)[i], floors, covers)
<1>1. DOMAIN Excuse(reader, floors, covers) = Readers
  BY DEF Excuse
<1>2. ASSUME NEW i \in Readers
      PROVE  Relaxed(i, Excuse(reader, floors, covers)[i], floors, covers)
  <2> DEFINE floor == IF floors /\ Reading(i) THEN 0 ELSE reader[i].floor
             covered == IF covers /\ Reading(i) THEN FALSE ELSE reader[i].covered
             o == Lenient(reader[i], floor, covered)
  <2>1. Excuse(reader, floors, covers)[i] = o
    BY DEF Excuse, Lenient
  <2>2. Steady(format, reader[i]) /\ reader[i].floor \in Nat /\ reader[i].covered \in BOOLEAN
    <3>1. Steady(format, reader[i])
      BY DEF RemoteInv, RemoteTypeOK
    <3> QED
      BY <3>1, ReaderFields DEF Steady
  <2>3. floor \in Nat /\ covered \in BOOLEAN /\ (covered => reader[i].covered)
    BY <2>2
  <2> HIDE DEF floor, covered
  <2>4. /\ Steady(format, o) /\ o.pc = reader[i].pc /\ o.program = reader[i].program
        /\ o.got = reader[i].got /\ o.floor = floor /\ o.covered = covered
    BY <2>2, <2>3, LenientSteady
  <2> HIDE DEF o
  <2> QED
    BY <2>1, <2>4 DEF Relaxed, floor, covered
<1> QED
  BY <1>1, <1>2

LEMMA EventKeeps ==
  ASSUME RemoteInv, NEW floors \in BOOLEAN, NEW covers \in BOOLEAN,
         DOMAIN reader' = Readers,
         \A i \in Readers : Relaxed(i, reader'[i], floors, covers),
         format' = format, upstream' \in Nat, reachable' \in BOOLEAN,
         cache' \in [CacheSlots(format) -> [rev : Nat, fresh : BOOLEAN]],
         \A s \in CacheSlots(format) : cache'[s].fresh => cache'[s] = cache[s],
         ~covers => /\ upstream # 0 => upstream' # 0
                    /\ \A s \in CacheSlots(format) : Has(s) => Has(s)',
         ~floors => reachable' = reachable /\ upstream' >= upstream
  PROVE  RemoteInv'
<1>1. RemoteTypeOK'
  <2>1. ASSUME NEW j \in Readers PROVE Steady(format, reader[j])'
    BY <2>1 DEF Relaxed
  <2>2. \A s \in CacheSlots(format) : cache'[s].fresh => cache'[s].rev # 0
    BY DEF RemoteInv, RemoteTypeOK
  <2>3. format \in RemoteNames
    BY DEF RemoteInv, RemoteTypeOK
  <2> QED
    BY <2>1, <2>2, <2>3 DEF RemoteTypeOK
<1>2. ASSUME NEW i \in Readers, Reading(i)', reader'[i].covered
      PROVE  CoverKept(i)'
  <2>1. Reading(i) /\ reader[i].covered /\ ~covers /\ reader'[i].program = reader[i].program
    BY <1>2 DEF Relaxed, Reading
  <2>2. /\ upstream # 0 /\ format # "goproxy"
        /\ \A n \in DOMAIN reader[i].program : Has(reader[i].program[n].at)
    BY <2>1 DEF RemoteInv, CoverKept
  <2>3. reader[i].program \in Remotes[format].reads /\ format \in RemoteNames
    BY <2>1, NowFacts DEF Steady
  <2>4. \A n \in DOMAIN reader[i].program : reader[i].program[n].at \in CacheSlots(format)
    BY <2>3, StepFacts
  <2>5. \A n \in DOMAIN reader[i].program : Has(reader[i].program[n].at)'
    BY <2>1, <2>2, <2>4 DEF Has
  <2> QED
    BY <2>1, <2>2, <2>5 DEF CoverKept, Has
<1>3. ASSUME NEW i \in Readers, Reading(i)', reader'[i].floor # 0
      PROVE  FloorKept(i)'
  <2>1. Reading(i) /\ ~floors /\ reader'[i].floor = reader[i].floor
    BY <1>3 DEF Relaxed, Reading
  <2>2. /\ reachable /\ upstream >= reader[i].floor
        /\ \A s \in MutableSlots(format) : cache[s].fresh => cache[s].rev >= reader[i].floor
        /\ \A j \in Readers : OnItsWay(j) => reader[j].got >= reader[i].floor
    BY <1>3, <2>1 DEF RemoteInv, FloorKept, OnItsWay
  <2>3. \A j \in Readers : OnItsWay(j)' => OnItsWay(j) /\ reader'[j].got = reader[j].got
    BY DEF OnItsWay, Relaxed, Reading, Now
  <2>4. upstream' >= reader[i].floor
    <3>1. upstream \in Nat /\ reader[i].floor \in Nat
      BY <2>1, NowFacts DEF RemoteInv, RemoteTypeOK
    <3> QED
      BY <2>1, <2>2, <3>1
  <2>5. \A s \in MutableSlots(format) : cache'[s].fresh => cache'[s].rev >= reader[i].floor
    <3>1. MutableSlots(format) \subseteq CacheSlots(format)
      BY <2>1, NowFacts, SlotsWithin
    <3> QED
      BY <2>2, <3>1
  <2> QED
    BY <2>1, <2>2, <2>3, <2>4, <2>5 DEF FloorKept, OnItsWay
<1>4. ASSUME NEW i \in Readers PROVE CoverKept(i)' /\ FloorKept(i)'
  BY <1>2, <1>3 DEF CoverKept, FloorKept
<1> QED
  BY <1>1, <1>4 DEF RemoteInv

\* A request without an event that excuses it.
LEMMA SameRelaxes ==
  ASSUME RemoteInv
  PROVE  DOMAIN reader = Readers /\ \A i \in Readers : Relaxed(i, reader[i], FALSE, FALSE)
BY DEF RemoteInv, RemoteTypeOK, Relaxed

LEMMA UploadKeeps == RemoteInv /\ Upload => RemoteInv'
<1> SUFFICES ASSUME RemoteInv, Upload PROVE RemoteInv'
  OBVIOUS
<1>1. upstream' = upstream + 1 /\ UNCHANGED <<format, reachable, cache, reader>>
  BY DEF Upload
<1>2. upstream \in Nat /\ reachable \in BOOLEAN
      /\ cache \in [CacheSlots(format) -> [rev : Nat, fresh : BOOLEAN]]
  BY DEF RemoteInv, RemoteTypeOK
<1>3. upstream' \in Nat /\ upstream' >= upstream /\ upstream' # 0
  BY <1>1, <1>2
<1>4. \A i \in Readers : Relaxed(i, reader'[i], FALSE, FALSE)
  BY <1>1, SameRelaxes
<1>5. DOMAIN reader' = Readers
  BY <1>1, SameRelaxes
<1>6. \A s \in CacheSlots(format) : Has(s) => Has(s)'
  BY <1>1 DEF Has
<1> QED
  BY <1>1, <1>2, <1>3, <1>4, <1>5, <1>6, EventKeeps

LEMMA WithdrawKeeps == RemoteInv /\ Withdraw => RemoteInv'
<1> SUFFICES ASSUME RemoteInv, Withdraw PROVE RemoteInv'
  OBVIOUS
<1>1. /\ upstream' = 0 /\ reader' = Excuse(reader, TRUE, TRUE)
      /\ UNCHANGED <<format, reachable, cache>>
  BY DEF Withdraw
<1>2. reachable \in BOOLEAN /\ cache \in [CacheSlots(format) -> [rev : Nat, fresh : BOOLEAN]]
  BY DEF RemoteInv, RemoteTypeOK
<1>3. DOMAIN reader' = Readers /\ \A i \in Readers : Relaxed(i, reader'[i], TRUE, TRUE)
  BY <1>1, ExcuseRelaxes
<1> QED
  BY <1>1, <1>2, <1>3, EventKeeps

LEMMA OutageKeeps == RemoteInv /\ Outage => RemoteInv'
<1> SUFFICES ASSUME RemoteInv, Outage PROVE RemoteInv'
  OBVIOUS
<1>1. /\ reachable' = ~reachable /\ reader' = Excuse(reader, TRUE, FALSE)
      /\ UNCHANGED <<format, upstream, cache>>
  BY DEF Outage
<1>2. upstream \in Nat /\ cache \in [CacheSlots(format) -> [rev : Nat, fresh : BOOLEAN]]
  BY DEF RemoteInv, RemoteTypeOK
<1>3. DOMAIN reader' = Readers /\ \A i \in Readers : Relaxed(i, reader'[i], TRUE, FALSE)
  BY <1>1, ExcuseRelaxes
<1>4. reachable' \in BOOLEAN /\ \A s \in CacheSlots(format) : Has(s) => Has(s)'
  BY <1>1 DEF Has
<1> QED
  BY <1>1, <1>2, <1>3, <1>4, EventKeeps

LEMMA ExpireKeeps == RemoteInv /\ Expire => RemoteInv'
<1> SUFFICES ASSUME RemoteInv, Expire PROVE RemoteInv'
  OBVIOUS
<1>1. /\ cache' = [s \in DOMAIN cache |-> [cache[s] EXCEPT !.fresh = FALSE]]
      /\ UNCHANGED <<format, upstream, reachable, reader>>
  BY DEF Expire
<1>2. /\ cache \in [CacheSlots(format) -> [rev : Nat, fresh : BOOLEAN]]
      /\ upstream \in Nat /\ reachable \in BOOLEAN
  BY DEF RemoteInv, RemoteTypeOK
<1>3. \A s \in CacheSlots(format) : /\ cache'[s] \in [rev : Nat, fresh : BOOLEAN]
                                    /\ cache'[s].fresh = FALSE /\ cache'[s].rev = cache[s].rev
  BY <1>1, <1>2
<1>4. cache' \in [CacheSlots(format) -> [rev : Nat, fresh : BOOLEAN]]
  BY <1>1, <1>2, <1>3
<1>5. \A s \in CacheSlots(format) : Has(s) => Has(s)'
  BY <1>3 DEF Has
<1>6. DOMAIN reader' = Readers /\ \A i \in Readers : Relaxed(i, reader'[i], FALSE, FALSE)
  BY <1>1, SameRelaxes
<1>7. upstream' >= upstream
  BY <1>1, <1>2
<1> QED
  BY <1>1, <1>2, <1>3, <1>4, <1>5, <1>6, <1>7, EventKeeps

LEMMA PurgeKeeps ==
  ASSUME RemoteInv, NEW all \in BOOLEAN, Purge(all)
  PROVE  RemoteInv'
<1>1. /\ cache' = [s \in DOMAIN cache |->
                     IF all \/ s \in Remotes[format].purge THEN Gone ELSE cache[s]]
      /\ reader' = Excuse(reader, FALSE, TRUE)
      /\ UNCHANGED <<format, upstream, reachable>>
  BY DEF Purge
<1>2. /\ cache \in [CacheSlots(format) -> [rev : Nat, fresh : BOOLEAN]]
      /\ upstream \in Nat /\ reachable \in BOOLEAN
  BY DEF RemoteInv, RemoteTypeOK
<1>3. Gone \in [rev : Nat, fresh : BOOLEAN] /\ Gone.fresh = FALSE
  BY DEF Gone
<1>4. \A s \in CacheSlots(format) : cache'[s] = Gone \/ cache'[s] = cache[s]
  BY <1>1, <1>2
<1>5. cache' \in [CacheSlots(format) -> [rev : Nat, fresh : BOOLEAN]]
  BY <1>1, <1>2, <1>3, <1>4
<1>6. \A s \in CacheSlots(format) : cache'[s].fresh => cache'[s] = cache[s]
  BY <1>3, <1>4
<1>7. DOMAIN reader' = Readers /\ \A i \in Readers : Relaxed(i, reader'[i], FALSE, TRUE)
  BY <1>1, ExcuseRelaxes
<1>8. upstream' >= upstream
  BY <1>1, <1>2
<1> QED
  BY <1>1, <1>2, <1>5, <1>6, <1>7, <1>8, EventKeeps

-----------------------------------------------------------------------------
\* Faults: the answer breaks off or is not stored.
LEMMA SpoiltKeeps ==
  ASSUME RemoteInv, NEW i \in Readers, Reading(i), NEW o,
         reader' = [Excuse(reader, TRUE, TRUE) EXCEPT ![i] = o],
         Steady(format, o), Follows(Excuse(reader, TRUE, TRUE)[i], o),
         cache' = cache \/ cache' = [cache EXCEPT ![Now(i).at] = Gone],
         UNCHANGED <<format, upstream, reachable>>
  PROVE  RemoteInv'
<1> DEFINE rs == Excuse(reader, TRUE, TRUE)
<1>1. DOMAIN rs = Readers /\ \A j \in Readers : Relaxed(j, rs[j], TRUE, TRUE)
  BY ExcuseRelaxes
<1> HIDE DEF rs
<1>2. DOMAIN reader' = Readers /\ reader'[i] = o /\ \A j \in Readers \ {i} : reader'[j] = rs[j]
  BY <1>1 DEF rs
<1>3. ASSUME NEW j \in Readers
      PROVE  /\ Steady(format, reader'[j])
             /\ Reading(j)' => reader'[j].floor = 0 /\ reader'[j].covered = FALSE
  <2>1. CASE j = i
    <3>1. rs[i].floor = 0 /\ rs[i].covered = FALSE
      BY <1>1 DEF Relaxed
    <3>2. Reading(i)' => o.pc # 0
      <4>1. Reading(i)' => o.pc > 0
        BY <1>2 DEF Reading
      <4> QED
        BY <4>1
    <3> QED
      BY <1>2, <2>1, <3>1, <3>2 DEF Follows, rs
  <2>2. CASE j # i
    BY <1>1, <1>2, <2>2 DEF Relaxed, Reading
  <2> QED
    BY <2>1, <2>2
<1>4. /\ cache' \in [CacheSlots(format) -> [rev : Nat, fresh : BOOLEAN]]
      /\ \A s \in CacheSlots(format) : cache'[s].fresh => cache'[s].rev # 0
  <2>1. /\ cache \in [CacheSlots(format) -> [rev : Nat, fresh : BOOLEAN]]
        /\ \A s \in CacheSlots(format) : cache[s].fresh => cache[s].rev # 0
    BY DEF RemoteInv, RemoteTypeOK
  <2>2. Gone \in [rev : Nat, fresh : BOOLEAN] /\ Gone.fresh = FALSE
    BY DEF Gone
  <2> QED
    BY <2>1, <2>2
<1>5. RemoteTypeOK'
  BY <1>2, <1>3, <1>4 DEF RemoteInv, RemoteTypeOK
<1>6. ASSUME NEW j \in Readers PROVE CoverKept(j)' /\ FloorKept(j)'
  BY <1>3 DEF CoverKept, FloorKept
<1> QED
  BY <1>5, <1>6 DEF RemoteInv

\* The excused request is given a revision, or fails.
LEMMA SpoiltRequest ==
  ASSUME RemoteInv, NEW i \in Readers, Reading(i), reader[i].got # 0,
         NEW r, r = Excuse(reader, TRUE, TRUE)[i]
  PROVE  /\ \A why \in Ends : Steady(format, Failing(r, why)) /\ Follows(r, Failing(r, why))
         /\ \A rev \in Nat \ {0} : Steady(format, Given(r, rev)) /\ Follows(r, Given(r, rev))
         /\ r.got \in Nat \ {0}
<1>1. Relaxed(i, r, TRUE, TRUE)
  BY ExcuseRelaxes
<1>2. format \in RemoteNames /\ reader[i].pc # 0 /\ reader[i].got \in Nat
  BY NowFacts
<1>3. Steady(format, r) /\ r.pc # 0 /\ r.floor = 0 /\ ~r.covered /\ r.got = reader[i].got
  BY <1>1, <1>2 DEF Relaxed
<1>4. \A rev \in Nat \ {0} : ~(rev < r.floor)
  <2>1. \A rev \in Nat \ {0} : ~(rev < 0)
    OBVIOUS
  <2> QED
    BY <1>3, <2>1, Zenon
<1>5. ASSUME NEW rev \in Nat \ {0} PROVE Steady(format, Given(r, rev)) /\ Follows(r, Given(r, rev))
  BY <1>2, <1>3, <1>4, GivenSteady
<1> QED
  BY <1>2, <1>3, <1>5, FailingSteady

LEMMA BreakOffKeeps ==
  ASSUME RemoteInv, NEW i \in Readers, BreakOff(i)
  PROVE  RemoteInv'
<1> DEFINE rs == Excuse(reader, TRUE, TRUE)
           cached == cache[Now(i).at].rev
           o == IF Now(i).do = "keep" /\ cached # 0 THEN Given(rs[i], cached)
                ELSE IF Now(i).do \in {"keep", "flow", "refetch", "content"}
                THEN Failing(rs[i], "failed") ELSE Failing(rs[i], "failed")
<1>1. /\ Reading(i) /\ reader[i].got # 0 /\ UNCHANGED <<format, upstream, reachable>>
      /\ reader' = [rs EXCEPT ![i] = o]
      /\ cache' = IF Now(i).do = "flow" THEN [cache EXCEPT ![Now(i).at] = Gone] ELSE cache
  BY DEF BreakOff, Spoil, Takes
<1>2. cached \in Nat
  BY <1>1, NowFacts, CacheTyped
<1>3. Steady(format, o) /\ Follows(rs[i], o)
  BY <1>1, <1>2, SpoiltRequest DEF Ends
<1> QED
  BY <1>1, <1>3, SpoiltKeeps

LEMMA LoseWriteKeeps ==
  ASSUME RemoteInv, NEW i \in Readers, LoseWrite(i)
  PROVE  RemoteInv'
<1> DEFINE rs == Excuse(reader, TRUE, TRUE)
           cached == cache[Now(i).at].rev
           o == IF Now(i).do = "keep" /\ cached # 0 THEN Given(rs[i], cached)
                ELSE IF Now(i).do \in {"keep", "flow", "refetch", "content"}
                THEN Failing(rs[i], "failed") ELSE Given(rs[i], rs[i].got)
<1>1. /\ Reading(i) /\ reader[i].got # 0 /\ UNCHANGED <<format, upstream, reachable>>
      /\ reader' = [rs EXCEPT ![i] = o]
      /\ cache' = IF Now(i).do = "flow" THEN [cache EXCEPT ![Now(i).at] = Gone] ELSE cache
  BY DEF LoseWrite, Spoil, Takes
<1>2. cached \in Nat
  BY <1>1, NowFacts, CacheTyped
<1>3. Steady(format, o) /\ Follows(rs[i], o)
  BY <1>1, <1>2, SpoiltRequest DEF Ends
<1> QED
  BY <1>1, <1>3, SpoiltKeeps

-----------------------------------------------------------------------------
LEMMA RemoteInitInv == RemoteInit => RemoteInv
<1> SUFFICES ASSUME RemoteInit PROVE RemoteInv
  OBVIOUS
<1>1. PICK rev \in {0, 1} : cache = [s \in CacheSlots(format) |-> [rev |-> rev, fresh |-> FALSE]]
  BY DEF RemoteInit
<1>2. /\ format \in RemoteNames /\ upstream = 1 /\ reachable = TRUE
      /\ reader = [i \in Readers |-> Waiting]
  BY DEF RemoteInit
<1>3. \A s \in CacheSlots(format) : cache[s] \in [rev : Nat, fresh : BOOLEAN] /\ cache[s].fresh = FALSE
  BY <1>1
<1>4. cache \in [CacheSlots(format) -> [rev : Nat, fresh : BOOLEAN]]
  BY <1>1, <1>3
<1>5. Steady(format, Waiting) /\ Waiting.pc = 0
  BY WaitingFields DEF Steady
<1>6. DOMAIN reader = Readers /\ \A i \in Readers : reader[i] = Waiting
  BY <1>2
<1>7. RemoteTypeOK
  BY <1>2, <1>3, <1>4, <1>5, <1>6 DEF RemoteTypeOK
<1>8. \A i \in Readers : ~Reading(i)
  BY <1>5, <1>6 DEF Reading
<1> QED
  BY <1>7, <1>8 DEF RemoteInv, CoverKept, FloorKept

LEMMA RemoteStutters == RemoteInv /\ UNCHANGED remoteVars => RemoteInv'
BY DEF RemoteInv, RemoteTypeOK, CoverKept, FloorKept, Reading, Now, Has, remoteVars

LEMMA RemoteNextInv == RemoteInv /\ [RemoteNext]_remoteVars => RemoteInv'
<1> SUFFICES ASSUME RemoteInv, [RemoteNext]_remoteVars PROVE RemoteInv'
  OBVIOUS
<1>1. ASSUME NEW i \in Readers, NEW program \in Remotes[format].reads, Request(i, program)
      PROVE  RemoteInv'
  BY <1>1, RequestKeeps
<1>2. ASSUME NEW i \in Readers, FromCache(i) PROVE RemoteInv'
  BY <1>2, FromCacheKeeps
<1>3. ASSUME NEW i \in Readers, Get(i) PROVE RemoteInv'
  BY <1>3, GetKeeps
<1>4. ASSUME NEW i \in Readers, Store(i) PROVE RemoteInv'
  BY <1>4, StoreKeeps
<1>5. ASSUME NEW i \in Readers, Handle(i) PROVE RemoteInv'
  BY <1>5, HandleKeeps
<1>6. ASSUME NEW i \in Readers, BreakOff(i) PROVE RemoteInv'
  BY <1>6, BreakOffKeeps
<1>7. ASSUME NEW i \in Readers, LoseWrite(i) PROVE RemoteInv'
  BY <1>7, LoseWriteKeeps
<1>8. CASE Upload \/ Withdraw \/ Outage \/ Expire
  BY <1>8, UploadKeeps, WithdrawKeeps, OutageKeeps, ExpireKeeps
<1>9. ASSUME NEW all \in BOOLEAN, Purge(all) PROVE RemoteInv'
  BY <1>9, PurgeKeeps
<1>10. CASE UNCHANGED remoteVars
  BY <1>10, RemoteStutters
<1> QED
  BY <1>1, <1>2, <1>3, <1>4, <1>5, <1>6, <1>7, <1>8, <1>9, <1>10 DEF RemoteNext, Rest

LEMMA RemoteSafe == RemoteSpec => []RemoteInv
BY RemoteInitInv, RemoteNextInv, PTL DEF RemoteSpec

\* A request whose every step can be answered from the cache, all of it cached when it
\* began, is answered (FetchCached and its variants serve an expired copy when the
\* upstream fails): no request beside it, expiry or outage takes its copies away.
THEOREM CachedAnsweredAlways == RemoteSpec => []CachedAnswered
<1>1. RemoteInv => CachedAnswered
  BY DEF RemoteInv, RemoteTypeOK, Steady, CachedAnswered
<1> QED
  BY <1>1, RemoteSafe, PTL

\* A request that begins when no copy is fresh is given no document that changes in a
\* revision older than the upstream had then, whatever overlapping requests store.
THEOREM ExpiredRefetchedAlways == RemoteSpec => []ExpiredRefetched
<1>1. RemoteInv => ExpiredRefetched
  BY DEF RemoteInv, RemoteTypeOK, Steady, ExpiredRefetched
<1> QED
  BY <1>1, RemoteSafe, PTL
=============================================================================
