------------------------- MODULE PackageStoreProofs -------------------------
(* Proofs about hosted package repositories, for every format's programs,   *)
(* any versions and any number of requests, faults and reloads.             *)
EXTENDS PackageStore, PackageRules, FiniteSetTheorems, WellFoundedInduction, TLAPS

(***************************************************************************)
(* The shape of the state.                                                 *)
(***************************************************************************)
EntryOf == {Absent} \cup [by : Nat \ {0}, yanked : BOOLEAN]
Docs == [Versions -> EntryOf]
EndsOf == {"idle", "ok", "refused", "exists", "failed"}
OpsOf == Operations \cup {"none"}
ProgramsOf(n) == (UNION {Programs(n, op) : op \in Operations}) \cup {<<>>}
VersionsOf == Versions \cup {0}
ObjectsOf == 0..MaxReloads + 1
LeftOf(n) == SUBSET Slots[n]
RequestOf(n) ==
  [op : OpsOf, program : ProgramsOf(n), v : VersionsOf, pc : Nat, kept : Docs, left : LeftOf(n),
   object : ObjectsOf, end : EndsOf]

\* A request that began keeps its program; one that returns early has deferred
\* steps left only.
Steady(n, r) ==
  /\ r \in RequestOf(n)
  /\ r.op # "none" => r.op \in Operations /\ r.program \in Programs(n, r.op) /\ r.v \in Versions
  /\ r.op = "none" => r.pc = 0
  /\ r.pc # 0 => r.pc \in 1..Len(r.program) /\ (r.end # "idle" => r.program[r.pc].always)

PackageTypeOK ==
  /\ name \in Names
  /\ immutable \in BOOLEAN /\ shared \in BOOLEAN
  /\ tree \in [Slots[name] -> Docs]
  /\ DOMAIN request = Requests /\ \A i \in Requests : Steady(name, request[i])
  /\ object \in 1..MaxReloads + 1
  /\ mutex \in [ObjectsOf -> Nat]
-----------------------------------------------------------------------------
\* Every set of naturals has a least element.
LEMMA LeastNat ==
  ASSUME NEW T \in SUBSET Nat, T # {}
  PROVE  Min(T) \in T /\ \A y \in T : Min(T) <= y
<1> DEFINE R == OpToRel(<, Nat)
<1>1. IsWellFoundedOn(R, Nat)
  BY NatLessThanWellFounded
<1>2. \A x, y \in Nat : <<x, y>> \in R <=> x < y
  BY DEF OpToRel
<1> HIDE DEF R
<1>3. PICK x \in T : \A y \in T : ~(<<y, x>> \in R)
  BY <1>1, WFMin
<1>4. \A y \in T : ~(y < x)
  BY <1>2, <1>3
<1>5. \A y \in T : x <= y
  BY <1>4
<1>6. \E z \in T : \A y \in T : z <= y
  BY <1>5
<1> QED
  BY <1>6, Zenon DEF Min

LEMMA Following == \A n \in Names : Follows(n)
<1>1. \A n \in Names : n \in DOMAIN Formats
  BY NamesAssumption
<1> QED
  BY <1>1, ProgramsAssumption, Zenon DEF ProgramsAssumption

\* The steps of a program.
LEMMA StepFacts ==
  ASSUME NEW n \in Names, NEW op \in Operations, NEW p \in Programs(n, op)
  PROVE  /\ Len(p) \in Nat \ {0} /\ DOMAIN p = 1..Len(p)
         /\ \E k \in DOMAIN p : p[k].do # "check"
         /\ \A k \in DOMAIN p : /\ p[k].always => p[k].do = "unlock"
                                /\ SlotsOf(p[k]) \subseteq Slots[n]
                                /\ \A s \in Slots[n] : Reads(p[k], s) => s \in Backed(n)
<1>1. /\ Len(p) \in Nat \ {0} /\ DOMAIN p = 1..Len(p)
      /\ \E k \in DOMAIN p : p[k].do # "check"
      /\ \A k \in DOMAIN p : p[k].always => p[k].do = "unlock"
  BY Following, Zenon DEF Follows
<1>2. ASSUME NEW k \in DOMAIN p PROVE SlotsOf(p[k]) \subseteq Slots[n]
  <2> DEFINE U(q) == UNION {SlotsOf(q[j]) : j \in DOMAIN q}
             A == UNION {Field(n, o, {}) : o \in Operations}
  <2>1. p \in Field(n, op, {})
    BY DEF Programs
  <2>2. p \in A
    BY <2>1
  <2>3. n \in DOMAIN Formats
    BY NamesAssumption
  <2>4. Slots[n] = UNION {U(q) : q \in A}
    BY <2>3, Zenon DEF Slots
  <2>5. SlotsOf(p[k]) \subseteq U(p)
    OBVIOUS
  <2> HIDE DEF U, A
  <2>6. U(p) \subseteq Slots[n]
    BY <2>2, <2>4
  <2> QED
    BY <2>5, <2>6
<1>3. ASSUME NEW k \in DOMAIN p, NEW s \in Slots[n], Reads(p[k], s) PROVE s \in Backed(n)
  <2> DEFINE B == {t \in Slots[n] : \E o \in Operations : \E q \in Programs(n, o) :
                     \E j \in DOMAIN q : Reads(q[j], t)}
  <2>1. s \in B
    BY <1>3
  <2>2. Backed(n) = ListedFrom(n) \cup B
    BY Zenon DEF Backed
  <2> HIDE DEF B
  <2> QED
    BY <2>1, <2>2
<1> QED
  BY <1>1, <1>2, <1>3

\* The fields of a request.
LEMMA RequestFields ==
  ASSUME NEW n, NEW r \in RequestOf(n)
  PROVE  /\ r.pc \in Nat /\ r.kept \in Docs /\ r.left \in SUBSET Slots[n] /\ r.object \in ObjectsOf
         /\ r.end \in EndsOf /\ r.op \in Operations \cup {"none"}
BY DEF RequestOf, LeftOf, OpsOf

\* A request before it begins.
LEMMA IdleFields ==
  ASSUME NEW n
  PROVE  /\ Idle \in RequestOf(n) /\ Idle.op = "none" /\ Idle.pc = 0 /\ Idle.end = "idle"
         /\ Idle.kept = Nothing /\ Idle.program = <<>> /\ Idle.left = {} /\ Idle.object = 0
         /\ Nothing \in Docs
<1>1. Absent \in EntryOf
  BY DEF Absent, EntryOf
<1>2. Nothing \in Docs
  BY <1>1 DEF Nothing, Docs
<1>3. "none" \in OpsOf /\ 0 \in VersionsOf /\ {} \in LeftOf(n) /\ 0 \in ObjectsOf
  BY PackageStoreAssumption DEF OpsOf, VersionsOf, LeftOf, ObjectsOf
<1>4. <<>> \in ProgramsOf(n)
  <2> DEFINE A == UNION {Programs(n, op) : op \in Operations}
  <2>1. ProgramsOf(n) = A \cup {<<>>}
    BY Zenon DEF ProgramsOf
  <2> HIDE DEF A
  <2>2. <<>> \in A \cup {<<>>}
    OBVIOUS
  <2> QED
    BY <2>1, <2>2, Zenon
<1>5. ASSUME NEW e \in ProgramsOf(n), NEW k \in Docs
      PROVE  [op |-> "none", program |-> e, v |-> 0, pc |-> 0, kept |-> k, left |-> {},
              object |-> 0, end |-> "idle"] \in RequestOf(n)
  BY <1>3 DEF RequestOf, EndsOf
<1>6. Idle \in RequestOf(n)
  BY <1>2, <1>4, <1>5, Zenon DEF Idle
<1>7. /\ Idle.op = "none" /\ Idle.pc = 0 /\ Idle.end = "idle" /\ Idle.left = {}
      /\ Idle.kept = Nothing /\ Idle.program = <<>> /\ Idle.object = 0
  BY DEF Idle
<1> QED
  BY <1>2, <1>6, <1>7

-----------------------------------------------------------------------------
\* A request goes on, with the end and the memory it then has.
After(n, r, s, end, kept) ==
  /\ s \in RequestOf(n) /\ s.op = r.op /\ s.program = r.program /\ s.v = r.v
  /\ s.object = r.object
  /\ \/ /\ s.pc \in (r.pc + 1)..Len(r.program) /\ s.pc # 0 /\ s.kept = kept /\ s.end = end
        /\ end # "idle" => r.program[s.pc].always
        /\ end = "idle" => \A m \in (r.pc + 1)..(s.pc - 1) : r.program[m].do = "check"
     \/ /\ s.pc = 0 /\ s.kept = Nothing /\ s.end = IF end # "idle" THEN end ELSE "ok"
        /\ end = "idle" => \A m \in (r.pc + 1)..Len(r.program) : r.program[m].do = "check"
Others(i) == DOMAIN request' = Requests /\ \A j \in Requests \ {i} : request'[j] = request[j]

LEMMA RunningFacts ==
  ASSUME PackageTypeOK, NEW i \in Requests, Running(i)
  PROVE  /\ name \in Names /\ Steady(name, request[i]) /\ request[i] \in RequestOf(name)
         /\ request[i].pc # 0 /\ request[i].op # "none" /\ request[i].op \in Operations
         /\ Program(i) \in Programs(name, request[i].op) /\ Version(i) \in Versions
         /\ Len(Program(i)) \in Nat \ {0} /\ DOMAIN Program(i) = 1..Len(Program(i))
         /\ request[i].pc \in Nat /\ request[i].pc \in DOMAIN Program(i)
         /\ request[i].kept \in Docs /\ request[i].end \in EndsOf
         /\ At(i) = Program(i)[request[i].pc]
         /\ SlotsOf(At(i)) \subseteq Slots[name]
         /\ \A s \in Slots[name] : Reads(At(i), s) => s \in Backed(name)
         /\ At(i).do # "unlock" => request[i].end = "idle"
<1>1. name \in Names /\ Steady(name, request[i])
  BY DEF PackageTypeOK
<1>2. request[i] \in RequestOf(name)
  BY <1>1 DEF Steady
<1>3. /\ request[i].pc \in Nat /\ request[i].kept \in Docs /\ request[i].end \in EndsOf
      /\ request[i].op \in Operations \cup {"none"}
  BY <1>2, RequestFields
<1>4. request[i].pc # 0
  BY <1>3 DEF Running
<1>5. /\ request[i].op # "none" /\ request[i].op \in Operations
      /\ Program(i) \in Programs(name, request[i].op) /\ Version(i) \in Versions
      /\ request[i].pc \in 1..Len(Program(i))
      /\ request[i].end # "idle" => Program(i)[request[i].pc].always
  BY <1>1, <1>4 DEF Steady, Program, Version
<1>6. /\ Len(Program(i)) \in Nat \ {0} /\ DOMAIN Program(i) = 1..Len(Program(i))
      /\ \A k \in DOMAIN Program(i) : /\ Program(i)[k].always => Program(i)[k].do = "unlock"
                                      /\ SlotsOf(Program(i)[k]) \subseteq Slots[name]
                                      /\ \A s \in Slots[name] :
                                           Reads(Program(i)[k], s) => s \in Backed(name)
  BY <1>1, <1>5, StepFacts
<1> QED
  BY <1>1, <1>2, <1>3, <1>4, <1>5, <1>6 DEF At

LEMMA ResumeAfter ==
  ASSUME PackageTypeOK, NEW i \in Requests, Running(i), NEW end \in EndsOf, NEW kept \in Docs,
         Resume(i, end, kept)
  PROVE  Others(i) /\ After(name, request[i], request'[i], end, kept)
<1> DEFINE r == request[i]
           rest == Later(i, end # "idle")
           a == [r EXCEPT !.pc = Min(rest), !.kept = kept, !.left = {}, !.end = end]
           final == IF end # "idle" THEN end ELSE "ok"
           b == [r EXCEPT !.pc = 0, !.kept = Nothing, !.left = {}, !.end = final]
<1>1. /\ r \in RequestOf(name) /\ r.pc \in Nat /\ Len(r.program) \in Nat
      /\ Program(i) = r.program
  BY RunningFacts DEF Program
<1>2. {} \in LeftOf(name) /\ Nothing \in Docs
  BY IdleFields DEF LeftOf
<1>3. DOMAIN request = Requests
  BY DEF PackageTypeOK
<1>4. request' = [request EXCEPT ![i] = IF rest # {} THEN a ELSE b]
  BY DEF Resume
<1>5. rest = {n \in r.pc + 1..Len(r.program) : /\ end # "idle" => r.program[n].always
                                               /\ ~Skipped(r.program[n])}
  BY <1>1 DEF Later
<1>6. final \in EndsOf
  BY DEF EndsOf
<1> HIDE DEF a, b, final, rest
<1>7. CASE rest # {}
  <2>1. rest \in SUBSET Nat
    BY <1>1, <1>5
  <2>2. Min(rest) \in rest /\ \A y \in rest : Min(rest) <= y
    BY <1>7, <2>1, LeastNat
  <2> DEFINE m == Min(rest)
  <2>3. m \in (r.pc + 1)..Len(r.program) /\ m \in Nat /\ (end # "idle" => r.program[m].always)
    <3>1. m \in rest /\ m \in Nat
      BY <2>1, <2>2
    <3> HIDE DEF m
    <3> QED
      BY <1>5, <3>1
  <2>4. m # 0
    BY <1>1, <2>3
  <2>5. ASSUME end = "idle", NEW k \in (r.pc + 1)..(m - 1) PROVE r.program[k].do = "check"
    <3>1. k \in (r.pc + 1)..Len(r.program) /\ ~(m <= k)
      BY <1>1, <2>3
    <3>2. k \notin rest
      BY <2>2, <3>1
    <3> QED
      BY <1>5, <2>5, <3>1, <3>2 DEF Skipped
  <2> HIDE DEF m
  <2>6. a = [r EXCEPT !.pc = m, !.kept = kept, !.left = {}, !.end = end]
    BY DEF a, m
  <2> HIDE DEF r
  <2>7. /\ a \in RequestOf(name) /\ a.op = r.op /\ a.program = r.program /\ a.v = r.v
        /\ a.object = r.object /\ a.pc = m /\ a.kept = kept /\ a.end = end
    BY <1>1, <1>2, <2>3, <2>6 DEF RequestOf
  <2>8. After(name, r, a, end, kept)
    BY <2>3, <2>4, <2>5, <2>7 DEF After
  <2>9. Others(i) /\ request'[i] = a
    BY <1>3, <1>4, <1>7 DEF Others
  <2> QED
    BY <2>8, <2>9 DEF r
<1>8. CASE rest = {}
  <2>1. ASSUME end = "idle", NEW k \in (r.pc + 1)..Len(r.program) PROVE r.program[k].do = "check"
    BY <1>5, <1>8, <2>1 DEF Skipped
  <2>2. b = [r EXCEPT !.pc = 0, !.kept = Nothing, !.left = {}, !.end = final]
    BY DEF b
  <2> HIDE DEF r
  <2>3. /\ b \in RequestOf(name) /\ b.op = r.op /\ b.program = r.program /\ b.v = r.v
        /\ b.object = r.object /\ b.pc = 0 /\ b.kept = Nothing /\ b.end = final
    BY <1>1, <1>2, <1>6, <2>2 DEF RequestOf
  <2>4. After(name, r, b, end, kept)
    BY <2>1, <2>3 DEF After, final
  <2>5. Others(i) /\ request'[i] = b
    BY <1>3, <1>4, <1>8 DEF Others
  <2> QED
    BY <2>4, <2>5 DEF r
<1> QED
  BY <1>7, <1>8

LEMMA AfterSteady ==
  ASSUME NEW n \in Names, NEW r, Steady(n, r), r.op # "none", NEW s, NEW end, NEW kept,
         After(n, r, s, end, kept)
  PROVE  Steady(n, s)
<1>1. r.op \in Operations /\ r.program \in Programs(n, r.op) /\ r.v \in Versions /\ r.pc \in Nat
  BY RequestFields DEF Steady
<1>2. s \in RequestOf(n) /\ s.op = r.op /\ s.program = r.program /\ s.v = r.v
  BY DEF After
<1>3. s.pc # 0 => /\ s.pc \in (r.pc + 1)..Len(r.program)
                  /\ s.end = end /\ (end # "idle" => r.program[s.pc].always)
  BY DEF After
<1>4. Len(r.program) \in Nat
  BY <1>1, StepFacts
<1>5. s.pc # 0 => s.pc \in 1..Len(s.program)
  BY <1>1, <1>2, <1>3, <1>4
<1> QED
  BY <1>1, <1>2, <1>3, <1>5 DEF Steady

-----------------------------------------------------------------------------
\* Entries.
LEMMA EntryFacts ==
  /\ Absent \in EntryOf
  /\ \A i \in Requests : Entry(i) \in EntryOf /\ Entry(i).by = i /\ Entry(i) # Absent
<1>1. \A i \in Requests : i \in Nat /\ i # 0
  BY PackageStoreAssumption DEF Requests
<1>2. Absent \in EntryOf /\ Absent.by = 0
  BY DEF Absent, EntryOf
<1>3. \A i \in Requests : Entry(i) \in EntryOf /\ Entry(i).by = i
  BY <1>1 DEF Entry, EntryOf
<1> QED
  BY <1>1, <1>2, <1>3

LEMMA MarkedFacts ==
  ASSUME NEW e \in EntryOf, NEW flag \in BOOLEAN
  PROVE  /\ Marked(e, flag) \in EntryOf /\ Marked(e, flag).by = e.by
         /\ (e = Absent => Marked(e, flag) = Absent)
<1>1. CASE e = Absent
  BY <1>1, EntryFacts DEF Marked
<1>2. CASE e # Absent
  BY <1>2 DEF Marked, EntryOf
<1> QED
  BY <1>1, <1>2

LEMMA RequestsNat == Requests \subseteq Nat \ {0}
BY PackageStoreAssumption DEF Requests

\* What a change leaves of its slot, and where its entries come from.
LEMMA WrittenFacts ==
  ASSUME PackageTypeOK, NEW i \in Requests, Takes(i, Changes)
  PROVE  /\ At(i).at \in Slots[name] /\ Written(i) \in Docs
         /\ \A u \in Versions : Written(i)[u] # Absent =>
              \/ tree[At(i).at][u] # Absent \/ request[i].kept[u] # Absent
              \/ u = Version(i) /\ At(i).do \in {"write", "stream", "put"}
              \/ At(i).do = "enter"
              \/ At(i).do = "heal" /\ tree[At(i).by][u] # Absent
         /\ At(i).do = "write" => Written(i) = [tree[At(i).at] EXCEPT ![Version(i)] = Entry(i)]
         /\ At(i).do = "erase" => Written(i) = [tree[At(i).at] EXCEPT ![Version(i)] = Absent]
<1> DEFINE step == At(i)
           slot == tree[step.at]
           kept == request[i].kept
           v == Version(i)
           W == Written(i)
<1>1. Running(i) /\ step.do \in Changes
  BY DEF Takes
<1>2. /\ kept \in Docs /\ v \in Versions /\ SlotsOf(step) \subseteq Slots[name]
  BY <1>1, RunningFacts
<1>3. step.at \in Slots[name] /\ (step.do = "heal" => step.by \in Slots[name])
  <2>1. step.do \notin {"check", "read", "sole", "several", "lock", "unlock", "need", "tree", "scan"}
    BY <1>1 DEF Changes
  <2>2. step.do = "heal" => SlotsOf(step) = {step.at, step.by}
    BY <2>1 DEF SlotsOf
  <2>3. step.do # "heal" => SlotsOf(step) = {step.at}
    BY <2>1 DEF SlotsOf
  <2> QED
    BY <1>2, <2>2, <2>3
<1>4. slot \in Docs /\ (step.do = "heal" => tree[step.by] \in Docs)
  BY <1>3 DEF PackageTypeOK
<1>5. \A u \in Versions : slot[u] \in EntryOf /\ kept[u] \in EntryOf
  BY <1>2, <1>4 DEF Docs
<1>6. Absent \in EntryOf /\ Entry(i) \in EntryOf /\ Entry(i) # Absent
  BY EntryFacts
<1>7. /\ step.do \in {"write", "stream"} => W = [slot EXCEPT ![v] = Entry(i)]
      /\ step.do = "erase" => W = [slot EXCEPT ![v] = Absent]
      /\ step.do = "enter" => W = [u \in Versions |-> Entry(i)]
      /\ step.do = "put" => W = [kept EXCEPT ![v] = Entry(i)]
      /\ step.do = "cut" => W = [kept EXCEPT ![v] = Absent]
      /\ step.do = "yank" => W = [kept EXCEPT ![v] = Marked(kept[v], TRUE)]
      /\ step.do = "unyank" => W = [kept EXCEPT ![v] = Marked(kept[v], FALSE)]
      /\ step.do = "copy" => W = kept
      /\ step.do = "newest" => W = [u \in Versions |-> IF Newer(kept, u) THEN Absent ELSE kept[u]]
      /\ step.do = "mark" => W = [slot EXCEPT ![v] = Marked(kept[v], TRUE)]
      /\ step.do = "unmark" => W = [slot EXCEPT ![v] = Marked(kept[v], FALSE)]
      /\ step.do = "heal" => W =
           [u \in Versions |->
              IF kept = Nothing \/ (kept[u] # Absent /\ slot[u] # Absent) THEN slot[u]
              ELSE IF kept[u] # Absent THEN tree[step.by][u] ELSE Absent]
  BY DEF Written
<1>8. /\ Marked(kept[v], TRUE) \in EntryOf /\ Marked(kept[v], FALSE) \in EntryOf
      /\ kept[v] = Absent => Marked(kept[v], TRUE) = Absent /\ Marked(kept[v], FALSE) = Absent
  BY <1>2, <1>5, MarkedFacts
<1> DEFINE From(u) == \/ slot[u] # Absent \/ kept[u] # Absent
                      \/ u = v /\ step.do \in {"write", "stream", "put"}
                      \/ step.do = "enter"
                      \/ step.do = "heal" /\ tree[step.by][u] # Absent
<1> HIDE DEF W, slot, kept, v, step
<1>9. CASE step.do \in {"write", "stream", "erase"}
  BY <1>2, <1>3, <1>4, <1>5, <1>6, <1>7, <1>9 DEF Docs, W, slot, kept, v, step
<1>10. CASE step.do \in {"enter", "copy"}
  BY <1>2, <1>3, <1>4, <1>5, <1>6, <1>7, <1>10 DEF Docs, W, slot, kept, v, step
<1>11. CASE step.do \in {"put", "cut"}
  BY <1>2, <1>3, <1>4, <1>5, <1>6, <1>7, <1>11 DEF Docs, W, slot, kept, v, step
<1>12. CASE step.do \in {"yank", "unyank"}
  <2>1. PICK e \in EntryOf : W = [kept EXCEPT ![v] = e] /\ (kept[v] = Absent => e = Absent)
    BY <1>7, <1>8, <1>12
  <2>2. W \in Docs /\ W[v] = e /\ \A u \in Versions \ {v} : W[u] = kept[u]
    BY <1>2, <2>1 DEF Docs
  <2>3. \A u \in Versions : W[u] # Absent => kept[u] # Absent
    BY <2>1, <2>2
  <2> QED
    BY <1>3, <1>12, <2>2, <2>3 DEF W, slot, kept, v, step
<1>13. CASE step.do \in {"mark", "unmark"}
  <2>1. PICK e \in EntryOf : W = [slot EXCEPT ![v] = e] /\ (kept[v] = Absent => e = Absent)
    BY <1>7, <1>8, <1>13
  <2>2. W \in Docs /\ W[v] = e /\ \A u \in Versions \ {v} : W[u] = slot[u]
    BY <1>2, <1>4, <2>1 DEF Docs
  <2>3. \A u \in Versions : W[u] # Absent => slot[u] # Absent \/ kept[u] # Absent
    BY <2>1, <2>2
  <2> QED
    BY <1>3, <1>13, <2>2, <2>3 DEF W, slot, kept, v, step
<1>14. CASE step.do = "newest"
  <2>1. \A u \in Versions : W[u] \in {Absent, kept[u]}
    BY <1>7, <1>14
  <2>2. W \in Docs
    BY <1>5, <1>6, <1>7, <1>14 DEF Docs
  <2> QED
    BY <1>3, <1>14, <2>1, <2>2 DEF W, slot, kept, v, step
<1>15. CASE step.do = "heal"
  <2> DEFINE meta == tree[step.by]
  <2>1. W = [u \in Versions |->
              IF kept = Nothing \/ (kept[u] # Absent /\ slot[u] # Absent) THEN slot[u]
              ELSE IF kept[u] # Absent THEN meta[u] ELSE Absent]
    BY <1>7, <1>15
  <2>2. meta \in Docs
    BY <1>4, <1>15
  <2> HIDE DEF meta
  <2>3. \A u \in Versions : meta[u] \in EntryOf
    BY <2>2 DEF Docs
  <2>4. \A u \in Versions : W[u] \in {slot[u], meta[u], Absent}
    BY <2>1
  <2>5. W \in Docs
    BY <1>5, <1>6, <2>1, <2>3, <2>4 DEF Docs
  <2>6. \A u \in Versions : W[u] # Absent => slot[u] # Absent \/ meta[u] # Absent
    BY <2>4
  <2> QED
    BY <1>3, <1>15, <2>5, <2>6 DEF W, slot, kept, v, step, meta
<1> QED
  BY <1>1, <1>9, <1>10, <1>11, <1>12, <1>13, <1>14, <1>15 DEF Changes, step

-----------------------------------------------------------------------------
\* What each action does to its request.
Goes(i, end, kept) == Others(i) /\ After(name, request[i], request'[i], end, kept)

LEMMA ProceedGoes ==
  ASSUME PackageTypeOK, NEW i \in Requests, Running(i)
  PROVE  /\ Proceed(i) => Goes(i, request[i].end, request[i].kept)
         /\ \A kept \in Docs : ProceedWith(i, kept) => Goes(i, request[i].end, kept)
         /\ \A end \in EndsOf : /\ Return(i, end) /\ request[i].end = "idle" =>
                                     Goes(i, end, request[i].kept)
<1>1. request[i].kept \in Docs /\ request[i].end \in EndsOf
  BY RunningFacts
<1>2. Proceed(i) => Goes(i, request[i].end, request[i].kept)
  BY <1>1, ResumeAfter DEF Proceed, Goes
<1>3. ASSUME NEW kept \in Docs, ProceedWith(i, kept) PROVE Goes(i, request[i].end, kept)
  BY <1>1, <1>3, ResumeAfter DEF ProceedWith, Goes
<1>4. ASSUME NEW end \in EndsOf, Return(i, end), request[i].end = "idle"
      PROVE  Goes(i, end, request[i].kept)
  <2>1. Resume(i, end, request[i].kept)
    BY <1>4 DEF Return, Returning
  <2> QED
    BY <1>1, <2>1, ResumeAfter DEF Goes
<1> QED
  BY <1>2, <1>3, <1>4

\* A question is passed, or the request returns.
Passed(i) ==
  LET step == At(i)
  IN /\ step.do = "guard" => ~(immutable /\ Present(step.at, Version(i)))
     /\ step.do = "refuse" => ~Present(step.at, Version(i))
     /\ step.do = "need" => \E s \in step.by : Present(s, Version(i))
     /\ step.do = "read" => request[i].kept[Version(i)] # Absent
Asks ==
  {"check", "guard", "refuse", "need", "read", "lack", "sole", "several", "unless", "known", "last"}
Declined(i, end) ==
  /\ At(i).do \in Refuses
  /\ end = "exists" => At(i).do \in {"guard", "refuse"} /\ Present(At(i).at, Version(i))
Met(i) == At(i).do = "unless" => Present(At(i).at, Version(i))
LEMMA AskGoes ==
  ASSUME PackageTypeOK, NEW i \in Requests, Ask(i)
  PROVE  /\ Running(i) /\ At(i).do \in Asks /\ request[i].end = "idle"
         /\ UNCHANGED <<name, immutable, shared, object, tree, mutex, faults>>
         /\ \E end \in EndsOf :
              /\ Goes(i, end, request[i].kept)
              /\ end = "idle" => Passed(i)
              /\ end = "ok" => At(i).do \in {"unless", "known", "last"} /\ Met(i)
              /\ end \in {"refused", "exists"} => Declined(i, end)
<1>1. /\ Running(i) /\ At(i).do \in Asks
      /\ UNCHANGED <<name, immutable, shared, object, tree, mutex, faults>>
  BY DEF Ask, Takes, Rest, Asks
<1>2. request[i].end = "idle"
  <2>1. At(i).do # "unlock"
    BY <1>1 DEF Asks
  <2> QED
    BY <1>1, <2>1, RunningFacts
<1>3. "idle" \in EndsOf /\ "refused" \in EndsOf /\ "exists" \in EndsOf /\ "ok" \in EndsOf
  BY DEF EndsOf
<1> DEFINE Fine == \E end \in EndsOf :
                     /\ Goes(i, end, request[i].kept)
                     /\ end = "idle" => Passed(i)
                     /\ end = "ok" => At(i).do \in {"unless", "known", "last"} /\ Met(i)
                     /\ end \in {"refused", "exists"} => Declined(i, end)
<1>4. ASSUME Proceed(i), Passed(i) PROVE Fine
  BY <1>1, <1>2, <1>3, <1>4, ProceedGoes
<1>5. ASSUME NEW end \in {"refused", "exists"}, Return(i, end), Declined(i, end) PROVE Fine
  <2>1. end \in EndsOf /\ end # "idle" /\ end # "ok"
    BY DEF EndsOf
  <2>2. Goes(i, end, request[i].kept)
    BY <1>1, <1>2, <1>5, <2>1, ProceedGoes
  <2> QED
    BY <1>5, <2>1, <2>2
<1>6. ASSUME Return(i, "ok"), At(i).do \in {"unless", "known", "last"}, Met(i) PROVE Fine
  <2>1. Goes(i, "ok", request[i].kept)
    BY <1>1, <1>2, <1>3, <1>6, ProceedGoes
  <2> QED
    BY <1>3, <1>6, <2>1
<1> HIDE DEF Fine
<1>7. Fine
  <2> DEFINE step == At(i)
             v == Version(i)
             others == \E u \in Versions \ {v} : request[i].kept[u] # Absent
             Answer == CASE step.do = "check" -> TRUE
                [] step.do = "guard" -> ~(immutable /\ Present(step.at, v))
                [] step.do = "need" -> \E s \in step.by : Present(s, v)
                [] step.do = "read" -> request[i].kept[v] # Absent
                [] step.do = "sole" -> ~others
                [] step.do = "several" -> others
                [] step.do \in {"refuse", "lack", "unless"} -> ~Present(step.at, v)
                [] step.do \in {"known", "last"} -> \A u \in Versions : ~Present(step.at, u)
  <2>1. Answer => Passed(i)
    <3>1. step.do = "guard" /\ Answer => ~(immutable /\ Present(step.at, v))
      OBVIOUS
    <3>2. step.do = "refuse" /\ Answer => ~Present(step.at, v)
      OBVIOUS
    <3>3. step.do = "need" /\ Answer => \E s \in step.by : Present(s, v)
      OBVIOUS
    <3>4. step.do = "read" /\ Answer => request[i].kept[v] # Absent
      OBVIOUS
    <3> HIDE DEF Answer
    <3> QED
      BY <3>1, <3>2, <3>3, <3>4 DEF Passed
  <2>2. \/ Answer /\ Proceed(i)
        \/ \E end \in {"refused", "exists"} : Return(i, end) /\ Declined(i, end)
        \/ Return(i, "ok") /\ step.do \in {"unless", "known", "last"} /\ Met(i)
    BY DEF Ask, Met, Declined, Refuses
  <2> HIDE DEF Answer
  <2> QED
    BY <1>4, <1>5, <1>6, <2>1, <2>2
<1> QED
  BY <1>1, <1>2, <1>7 DEF Fine

\* A question may fail, or be taken to find nothing (misled).
Asking(i) == Ask(i) \/ FailRead(i) \/ Mislead(i)
StepOf(i) == Advance(i) \/ FailChange(i) \/ FailDelete(i) \/ FailRead(i) \/ Mislead(i)
AnyStep(i) == StepOf(i) \/ CutOff(i) \/ Misread(i)
LEMMA ReadFacts ==
  ASSUME PackageTypeOK, NEW i \in Requests, Unreadable(i)
  PROVE  /\ Running(i) /\ At(i).do \in ReadSteps /\ request[i].end = "idle"
         /\ faults' \in {faults, faults + 1}
<1>1. Running(i) /\ At(i).do \in ReadSteps /\ faults' \in {faults, faults + 1}
  BY DEF Unreadable, Takes
<1>2. At(i).do # "unlock"
  BY <1>1 DEF ReadSteps
<1> QED
  BY <1>1, <1>2, RunningFacts

LEMMA AskingGoes ==
  ASSUME PackageTypeOK, NEW i \in Requests, Asking(i)
  PROVE  /\ Running(i) /\ At(i).do \in Asks \cup ReadSteps /\ request[i].end = "idle"
         /\ UNCHANGED <<name, immutable, shared, object, tree, mutex>>
         /\ faults' \in {faults, faults + 1}
         /\ \E end \in EndsOf :
              /\ Goes(i, end, request[i].kept)
              /\ end = "idle" => At(i).do \in Asks
              /\ end = "idle" /\ (misled' = {} \/ At(i).do \notin {"guard", "refuse"}) => Passed(i)
              /\ end = "ok" => At(i).do \in {"unless", "known", "last"} /\ Met(i)
              /\ end \in {"refused", "exists"} => Declined(i, end)
<1> DEFINE Fine(end) ==
              /\ Goes(i, end, request[i].kept)
              /\ end = "idle" => At(i).do \in Asks
              /\ end = "idle" /\ (misled' = {} \/ At(i).do \notin {"guard", "refuse"}) => Passed(i)
              /\ end = "ok" => At(i).do \in {"unless", "known", "last"} /\ Met(i)
              /\ end \in {"refused", "exists"} => Declined(i, end)
<1>1. CASE Ask(i)
  <2>1. /\ Running(i) /\ At(i).do \in Asks /\ request[i].end = "idle"
        /\ UNCHANGED <<name, immutable, shared, object, tree, mutex, faults>>
    BY <1>1, AskGoes
  <2>2. \E end \in EndsOf : Fine(end)
    BY <1>1, <2>1, AskGoes
  <2> QED
    BY <2>1, <2>2
<1>2. CASE FailRead(i)
  <2>1. /\ Running(i) /\ At(i).do \in ReadSteps /\ request[i].end = "idle"
        /\ faults' \in {faults, faults + 1}
    BY <1>2, ReadFacts DEF FailRead
  <2>2. Return(i, "failed") /\ UNCHANGED <<name, immutable, shared, object, tree, mutex>>
    BY <1>2 DEF FailRead, Rest
  <2>3. "failed" \in EndsOf
    BY DEF EndsOf
  <2>4. Goes(i, "failed", request[i].kept)
    BY <2>1, <2>2, <2>3, ProceedGoes
  <2>5. Fine("failed")
    BY <2>4
  <2> QED
    BY <2>1, <2>2, <2>3, <2>5
<1>3. CASE Mislead(i)
  <2>1. /\ Running(i) /\ At(i).do \in ReadSteps /\ request[i].end = "idle"
        /\ faults' \in {faults, faults + 1}
    BY <1>3, ReadFacts DEF Mislead
  <2>2. /\ IF At(i).do = "need" THEN Return(i, "refused") ELSE Proceed(i)
        /\ UNCHANGED <<name, immutable, shared, object, tree, mutex>>
        /\ misled' = misled \cup {i} /\ At(i).do \notin {"load", "fold", "scan"}
    BY <1>3, <2>1 DEF Mislead, Takes
  <2>3. "idle" \in EndsOf /\ "refused" \in EndsOf
    BY DEF EndsOf
  <2>4. At(i).do \in Asks /\ At(i).do # "read" /\ misled' # {}
    BY <2>1, <2>2 DEF ReadSteps, Asks
  <2>5. CASE At(i).do = "need"
    <3>1. Goes(i, "refused", request[i].kept)
      BY <2>1, <2>2, <2>3, <2>5, ProceedGoes
    <3>2. Fine("refused")
      BY <2>5, <3>1 DEF Declined, Refuses
    <3> QED
      BY <2>1, <2>2, <2>3, <2>4, <3>2
  <2>6. CASE At(i).do # "need"
    <3>1. Goes(i, "idle", request[i].kept)
      BY <2>1, <2>2, <2>6, ProceedGoes
    <3>2. At(i).do \notin {"guard", "refuse"} => Passed(i)
      BY <2>4, <2>6 DEF Passed
    <3>3. Fine("idle")
      BY <2>4, <3>1, <3>2
    <3> QED
      BY <2>1, <2>2, <2>3, <2>4, <3>3
  <2> QED
    BY <2>5, <2>6
<1> QED
  BY <1>1, <1>2, <1>3 DEF Asking

LEMMA GatherGoes ==
  ASSUME PackageTypeOK, NEW i \in Requests, Gather(i)
  PROVE  /\ Running(i) /\ At(i).do \in {"load", "fold"} /\ request[i].end = "idle"
         /\ At(i).at \in Slots[name]
         /\ UNCHANGED <<name, immutable, shared, object, tree, mutex, faults>>
         /\ \E kept \in Docs :
              /\ Goes(i, "idle", kept)
              /\ At(i).do = "load" => kept = tree[At(i).at]
              /\ \A u \in Versions : kept[u] \in {tree[At(i).at][u], request[i].kept[u]}
<1> DEFINE old == request[i].kept
           slot == tree[At(i).at]
           g == [v \in Versions |-> IF At(i).do = "load" \/ old[v] = Absent THEN slot[v] ELSE old[v]]
<1>1. /\ Running(i) /\ At(i).do \in {"load", "fold"}
      /\ UNCHANGED <<name, immutable, shared, object, tree, mutex, faults>>
      /\ ProceedWith(i, g)
  BY DEF Gather, Gathered, Takes, Rest
<1>2. request[i].end = "idle" /\ SlotsOf(At(i)) \subseteq Slots[name] /\ old \in Docs
  BY <1>1, RunningFacts
<1>3. At(i).at \in Slots[name]
  BY <1>1, <1>2 DEF SlotsOf
<1>4. slot \in Docs
  BY <1>3 DEF PackageTypeOK
<1> HIDE DEF slot, old
<1>5. \A v \in Versions : g[v] \in {slot[v], old[v]}
  OBVIOUS
<1>6. g \in Docs
  BY <1>2, <1>4 DEF Docs
<1>7. At(i).do = "load" => g = slot
  BY <1>4 DEF Docs
<1> HIDE DEF g
<1>8. Goes(i, "idle", g)
  BY <1>1, <1>2, <1>6, ProceedGoes
<1> QED
  BY <1>1, <1>2, <1>3, <1>5, <1>6, <1>7, <1>8 DEF slot, old

LEMMA ChangeGoes ==
  ASSUME PackageTypeOK, NEW i \in Requests, Change(i)
  PROVE  /\ Running(i) /\ At(i).do \in Changes /\ request[i].end = "idle" /\ Takes(i, Changes)
         /\ UNCHANGED <<name, immutable, shared, object, mutex, faults>>
         /\ tree' = [tree EXCEPT ![At(i).at] = Written(i)]
         /\ Goes(i, "idle", request[i].kept)
<1>1. /\ Running(i) /\ At(i).do \in Changes /\ Takes(i, Changes) /\ Proceed(i)
      /\ UNCHANGED <<name, immutable, shared, object, mutex, faults>>
      /\ tree' = [tree EXCEPT ![At(i).at] = Written(i)]
  BY DEF Change, Takes, Rest
<1>2. request[i].end = "idle"
  <2>1. At(i).do # "unlock"
    BY <1>1 DEF Changes
  <2> QED
    BY <1>1, <2>1, RunningFacts
<1>3. Goes(i, "idle", request[i].kept)
  BY <1>1, <1>2, ProceedGoes
<1> QED
  BY <1>1, <1>2, <1>3

LEMMA FailChangeGoes ==
  ASSUME PackageTypeOK, NEW i \in Requests, FailChange(i)
  PROVE  /\ Running(i) /\ At(i).do \in Changes /\ request[i].end = "idle"
         /\ UNCHANGED <<name, immutable, shared, object, mutex>>
         /\ At(i).at \in Slots[name]
         /\ \/ tree' = tree
            \/ /\ At(i).do = "stream"
               /\ tree' = [tree EXCEPT ![At(i).at] = [@ EXCEPT ![Version(i)] = Absent]]
         /\ faults' = faults + 1
         /\ \/ At(i).try /\ Goes(i, "idle", request[i].kept)
            \/ ~At(i).try /\ Goes(i, "failed", request[i].kept)
<1>1. /\ Running(i) /\ At(i).do \in Changes /\ Takes(i, Changes)
      /\ IF At(i).try THEN Proceed(i) ELSE Return(i, "failed")
      /\ UNCHANGED <<name, immutable, shared, object, mutex>> /\ faults' = faults + 1
      /\ tree' = IF At(i).do = "stream"
                THEN [tree EXCEPT ![At(i).at] = [@ EXCEPT ![Version(i)] = Absent]]
                ELSE tree
  BY DEF FailChange, Takes, Rest
<1>2. request[i].end = "idle"
  <2>1. At(i).do # "unlock"
    BY <1>1 DEF Changes
  <2> QED
    BY <1>1, <2>1, RunningFacts
<1>3. At(i).try => Goes(i, "idle", request[i].kept)
  BY <1>1, <1>2, ProceedGoes
<1>4. "failed" \in EndsOf
  BY DEF EndsOf
<1>5. ~At(i).try => Goes(i, "failed", request[i].kept)
  BY <1>1, <1>2, <1>4, ProceedGoes
<1>6. At(i).at \in Slots[name]
  BY <1>1, WrittenFacts
<1> QED
  BY <1>1, <1>2, <1>3, <1>5, <1>6

LEMMA RepairGoes ==
  ASSUME PackageTypeOK, NEW i \in Requests, Repair(i)
  PROVE  /\ Running(i) /\ At(i).do = "scan" /\ request[i].end = "idle"
         /\ At(i).at \in Slots[name] /\ At(i).by \in Slots[name]
         /\ UNCHANGED <<name, immutable, shared, object, mutex, faults>>
         /\ \E found \in Docs, metas \in Docs :
              /\ Goes(i, "idle", found)
              /\ tree' = [tree EXCEPT ![At(i).by] = metas]
              /\ \A u \in Versions :
                   /\ found[u] # Absent <=> tree[At(i).at][u] # Absent
                   /\ metas[u] # Absent => tree[At(i).at][u] # Absent \/ tree[At(i).by][u] # Absent
                   /\ found[u] \in {Absent, tree[At(i).at][u], tree[At(i).by][u]}
                   /\ metas[u] \in {Absent, tree[At(i).at][u], tree[At(i).by][u]}
<1> DEFINE files == tree[At(i).at]
           old == tree[At(i).by]
           found == [v \in Versions |->
                       IF files[v] = Absent THEN Absent
                       ELSE IF old[v] = Absent THEN files[v] ELSE old[v]]
           metas == [v \in Versions |-> IF found[v] = Absent THEN old[v] ELSE found[v]]
<1>1. /\ Running(i) /\ At(i).do = "scan"
      /\ UNCHANGED <<name, immutable, shared, object, mutex, faults>>
      /\ ProceedWith(i, found) /\ tree' = [tree EXCEPT ![At(i).by] = metas]
  BY DEF Repair, Scanned, Remake, Takes, Rest
<1>2. request[i].end = "idle" /\ SlotsOf(At(i)) \subseteq Slots[name]
  BY <1>1, RunningFacts
<1>3. At(i).at \in Slots[name] /\ At(i).by \in Slots[name]
  BY <1>1, <1>2 DEF SlotsOf
<1>4. files \in Docs /\ old \in Docs
  BY <1>3 DEF PackageTypeOK
<1>5. \A u \in Versions : files[u] \in EntryOf /\ old[u] \in EntryOf
  BY <1>4 DEF Docs
<1> HIDE DEF files, old
<1>6. \A u \in Versions : /\ found[u] \in {Absent, files[u], old[u]}
                          /\ found[u] # Absent <=> files[u] # Absent
  OBVIOUS
<1>7. found \in Docs
  BY <1>5, EntryFacts DEF Docs
<1>8. \A u \in Versions : metas[u] = IF found[u] = Absent THEN old[u] ELSE found[u]
  OBVIOUS
<1> HIDE DEF found
<1>9. metas \in Docs
  BY <1>5, <1>7 DEF Docs
<1> HIDE DEF metas
<1>10. \A u \in Versions : metas[u] # Absent => files[u] # Absent \/ old[u] # Absent
  BY <1>6, <1>8
<1>11. Goes(i, "idle", found)
  BY <1>1, <1>2, <1>7, ProceedGoes
<1>12. \A u \in Versions : metas[u] \in {Absent, files[u], old[u]}
  BY <1>6, <1>8
<1>13. \A u \in Versions :
        /\ found[u] # Absent <=> files[u] # Absent
        /\ metas[u] # Absent => files[u] # Absent \/ old[u] # Absent
        /\ found[u] \in {Absent, files[u], old[u]} /\ metas[u] \in {Absent, files[u], old[u]}
  BY <1>6, <1>10, <1>12
<1> QED
  BY <1>1, <1>2, <1>3, <1>7, <1>9, <1>11, <1>13, Zenon DEF files, old

\* The slot deleted next.
LEMMA DeleteNextGoes ==
  ASSUME PackageTypeOK, NEW i \in Requests, DeleteNext(i)
  PROVE  /\ Running(i) /\ At(i).do = "tree" /\ request[i].end = "idle"
         /\ UNCHANGED <<name, immutable, shared, object, mutex, faults, request>>
         /\ \E s \in Slots[name] :
              \E doc \in Docs :
                /\ s \in At(i).by
                /\ tree' = [tree EXCEPT ![s] = doc]
                /\ \A u \in Versions : doc[u] \in {Absent, tree[s][u]}
                /\ \A u \in Versions \ Scope(i) : doc[u] = tree[s][u]
<1>1. /\ Running(i) /\ At(i).do = "tree"
      /\ UNCHANGED <<name, immutable, shared, object, mutex, faults, request>>
  BY DEF DeleteNext, Takes, Rest
<1>2. PICK s \in Doomed(i) :
        tree' = [tree EXCEPT ![s] = [v \in Versions |-> IF v \in Scope(i) THEN Absent ELSE @[v]]]
  BY DEF DeleteNext
<1>3. request[i].end = "idle" /\ SlotsOf(At(i)) \subseteq Slots[name]
  BY <1>1, RunningFacts
<1>4. s \in At(i).by /\ s \in Slots[name]
  BY <1>1, <1>2, <1>3 DEF SlotsOf, Doomed
<1>5. tree[s] \in Docs
  BY <1>4 DEF PackageTypeOK
<1> DEFINE old == tree[s]
           doc == [v \in Versions |-> IF v \in Scope(i) THEN Absent ELSE old[v]]
<1>6. tree' = [tree EXCEPT ![s] = doc]
  BY <1>2
<1> HIDE DEF old
<1>7. \A u \in Versions : old[u] \in EntryOf
  BY <1>5 DEF Docs, old
<1>8. doc \in Docs
  BY <1>7, EntryFacts DEF Docs
<1>9. /\ \A u \in Versions : doc[u] \in {Absent, old[u]}
      /\ \A u \in Versions \ Scope(i) : doc[u] = old[u]
  OBVIOUS
<1> HIDE DEF doc
<1> QED
  BY <1>1, <1>3, <1>4, <1>6, <1>8, <1>9 DEF old

LEMMA DeleteEndGoes ==
  ASSUME PackageTypeOK, NEW i \in Requests, DeleteEnd(i)
  PROVE  /\ Running(i) /\ At(i).do = "tree" /\ request[i].end = "idle" /\ Doomed(i) = {}
         /\ UNCHANGED <<name, immutable, shared, object, tree, mutex, faults>>
         /\ \E end \in {"idle", "failed"} :
              /\ Goes(i, end, request[i].kept)
              /\ end = "failed" => request[i].left # {} /\ ~At(i).try
<1>1. /\ Running(i) /\ At(i).do = "tree" /\ Doomed(i) = {}
      /\ UNCHANGED <<name, immutable, shared, object, tree, mutex, faults>>
      /\ IF request[i].left = {} \/ At(i).try THEN Proceed(i) ELSE Return(i, "failed")
  BY DEF DeleteEnd, Takes, Rest
<1>2. request[i].end = "idle" /\ "failed" \in EndsOf
  BY <1>1, RunningFacts DEF EndsOf
<1>3. CASE request[i].left = {} \/ At(i).try
  <2>1. Goes(i, "idle", request[i].kept)
    BY <1>1, <1>2, <1>3, ProceedGoes
  <2> QED
    BY <1>1, <1>2, <2>1
<1>4. CASE ~(request[i].left = {} \/ At(i).try)
  <2>1. Goes(i, "failed", request[i].kept)
    BY <1>1, <1>2, <1>4, ProceedGoes
  <2> QED
    BY <1>1, <1>2, <1>4, <2>1
<1> QED
  BY <1>3, <1>4

\* A request that stays at its step: its other fields do not change.
Stays(r, s) ==
  /\ s.op = r.op /\ s.program = r.program /\ s.v = r.v /\ s.object = r.object /\ s.pc = r.pc
  /\ s.kept = r.kept /\ s.end = r.end
LEMMA FailDeleteGoes ==
  ASSUME PackageTypeOK, NEW i \in Requests, FailDelete(i)
  PROVE  /\ Running(i) /\ At(i).do = "tree"
         /\ UNCHANGED <<name, immutable, shared, object, tree, mutex>> /\ faults' = faults + 1
         /\ Others(i) /\ request'[i] \in RequestOf(name) /\ Stays(request[i], request'[i])
<1>1. /\ Running(i) /\ At(i).do = "tree"
      /\ UNCHANGED <<name, immutable, shared, object, tree, mutex>> /\ faults' = faults + 1
  BY DEF FailDelete, Takes, Rest
<1>2. PICK s \in Doomed(i) : request' = [request EXCEPT ![i].left = @ \cup {s}]
  BY DEF FailDelete
<1> DEFINE r == request[i]
           left == r.left \cup {s}
           o == [r EXCEPT !.left = left]
<1>3. r \in RequestOf(name) /\ SlotsOf(At(i)) \subseteq Slots[name] /\ DOMAIN request = Requests
  BY <1>1, RunningFacts DEF PackageTypeOK
<1>4. s \in Slots[name]
  BY <1>1, <1>2, <1>3 DEF SlotsOf, Doomed
<1>5. left \in LeftOf(name)
  BY <1>3, <1>4, RequestFields DEF LeftOf
<1>6. Others(i) /\ request'[i] = o
  BY <1>2, <1>3 DEF Others
<1> HIDE DEF r, left
<1>7. /\ o \in RequestOf(name) /\ o.op = r.op /\ o.program = r.program /\ o.v = r.v
      /\ o.object = r.object /\ o.pc = r.pc /\ o.kept = r.kept /\ o.end = r.end
  BY <1>3, <1>5 DEF RequestOf
<1> QED
  BY <1>1, <1>6, <1>7 DEF Stays, r

-----------------------------------------------------------------------------
\* Mutexes.
LEMMA MutexOf ==
  ASSUME PackageTypeOK, NEW i \in Requests, Running(i)
  PROVE  Mutex(i) \in ObjectsOf /\ i \in Nat /\ i # 0
<1>1. request[i].object \in ObjectsOf
  BY RunningFacts, RequestFields
<1>2. 0 \in ObjectsOf
  BY PackageStoreAssumption DEF ObjectsOf
<1> QED
  BY <1>1, <1>2, RequestsNat DEF Mutex

LEMMA AcquireGoes ==
  ASSUME PackageTypeOK, NEW i \in Requests, Acquire(i)
  PROVE  /\ Running(i) /\ At(i).do = "lock" /\ request[i].end = "idle"
         /\ UNCHANGED <<name, immutable, shared, object, tree, faults>>
         /\ mutex[Mutex(i)] = 0 /\ Mutex(i) \in ObjectsOf
         /\ mutex' = [mutex EXCEPT ![Mutex(i)] = i] /\ mutex' \in [ObjectsOf -> Nat]
         /\ Goes(i, "idle", request[i].kept)
<1>1. /\ Running(i) /\ At(i).do = "lock" /\ Proceed(i) /\ mutex[Mutex(i)] = 0
      /\ UNCHANGED <<name, immutable, shared, object, tree, faults>>
      /\ mutex' = [mutex EXCEPT ![Mutex(i)] = i]
  BY DEF Acquire, Takes, Rest
<1>2. request[i].end = "idle"
  BY <1>1, RunningFacts
<1>3. Goes(i, "idle", request[i].kept)
  BY <1>1, <1>2, ProceedGoes
<1>4. Mutex(i) \in ObjectsOf /\ i \in Nat
  BY <1>1, MutexOf
<1>5. mutex' \in [ObjectsOf -> Nat]
  BY <1>1, <1>4 DEF PackageTypeOK
<1> QED
  BY <1>1, <1>2, <1>3, <1>4, <1>5

LEMMA ReleaseGoes ==
  ASSUME PackageTypeOK, NEW i \in Requests, Release(i)
  PROVE  /\ Running(i) /\ At(i).do = "unlock"
         /\ UNCHANGED <<name, immutable, shared, object, tree, faults>>
         /\ Mutex(i) \in ObjectsOf /\ mutex' \in [ObjectsOf -> Nat]
         /\ \A l \in ObjectsOf : mutex'[l] = IF l = Mutex(i) /\ mutex[l] = i THEN 0 ELSE mutex[l]
         /\ request[i].end \in EndsOf /\ Goes(i, request[i].end, request[i].kept)
<1>1. /\ Running(i) /\ At(i).do = "unlock" /\ Proceed(i)
      /\ UNCHANGED <<name, immutable, shared, object, tree, faults>>
      /\ mutex' = [mutex EXCEPT ![Mutex(i)] = IF @ = i THEN 0 ELSE @]
  BY DEF Release, Takes, Rest
<1>2. Goes(i, request[i].end, request[i].kept) /\ request[i].end \in EndsOf
  BY <1>1, ProceedGoes, RunningFacts
<1>3. Mutex(i) \in ObjectsOf /\ mutex \in [ObjectsOf -> Nat]
  BY <1>1, MutexOf DEF PackageTypeOK
<1> DEFINE x == IF mutex[Mutex(i)] = i THEN 0 ELSE mutex[Mutex(i)]
<1>4. mutex' = [mutex EXCEPT ![Mutex(i)] = x] /\ x \in Nat
  BY <1>1, <1>3
<1>5. mutex' \in [ObjectsOf -> Nat]
  BY <1>3, <1>4
<1>6. \A l \in ObjectsOf : mutex'[l] = IF l = Mutex(i) /\ mutex[l] = i THEN 0 ELSE mutex[l]
  BY <1>3, <1>4
<1> QED
  BY <1>1, <1>2, <1>3, <1>5, <1>6

\* A request begins at the first step that is one of its own.
Started(n, r, op, program, v, obj) ==
  /\ r.op = op /\ r.program = program /\ r.v = v /\ r.object = obj /\ r.kept = Nothing
  /\ r.end = "idle" /\ r.pc \in 1..Len(program) /\ r.pc # 0
  /\ \A m \in 1..(r.pc - 1) : program[m].do = "check"
LEMMA BeginGoes ==
  ASSUME PackageTypeOK, NEW i \in Requests, MayBegin(i), NEW op \in Operations,
         NEW program \in Programs(name, op), NEW v \in Versions, Begin(i, op, program, v)
  PROVE  /\ ~Running(i) /\ request[i].op = "none"
         /\ UNCHANGED <<name, immutable, shared, tree, object, mutex, faults>>
         /\ Others(i) /\ request'[i] \in RequestOf(name)
         /\ Started(name, request'[i], op, program, v, object)
<1> DEFINE T == {n \in DOMAIN program : ~Skipped(program[n])}
           pc == Min(T)
           r == [Idle EXCEPT !.op = op, !.program = program, !.v = v, !.object = object, !.pc = pc]
<1>1. /\ name \in Names /\ Len(program) \in Nat \ {0} /\ DOMAIN program = 1..Len(program)
      /\ \E k \in DOMAIN program : program[k].do # "check"
  BY StepFacts DEF PackageTypeOK
<1>2. T \in SUBSET Nat /\ T # {}
  BY <1>1 DEF Skipped
<1>3. pc \in T /\ \A y \in T : pc <= y
  BY <1>2, LeastNat
<1>4. pc \in 1..Len(program) /\ pc \in Nat /\ pc # 0
  BY <1>1, <1>3
<1>5. ASSUME NEW m \in 1..(pc - 1) PROVE program[m].do = "check"
  <2>1. m \in DOMAIN program /\ ~(pc <= m)
    BY <1>1, <1>4
  <2>2. m \notin T
    BY <1>3, <2>1
  <2> QED
    BY <2>1, <2>2 DEF Skipped
<1> HIDE DEF pc, T
<1>6. /\ request' = [request EXCEPT ![i] = r]
      /\ UNCHANGED <<name, immutable, shared, tree, object, mutex, faults>>
  BY DEF Begin, pc, T
<1>7. /\ op \in OpsOf /\ program \in ProgramsOf(name) /\ v \in VersionsOf /\ object \in ObjectsOf
  <2> DEFINE A == UNION {Programs(name, o) : o \in Operations}
  <2>1. ProgramsOf(name) = A \cup {<<>>}
    BY Zenon DEF ProgramsOf
  <2>2. program \in A
    OBVIOUS
  <2> HIDE DEF A
  <2>3. program \in ProgramsOf(name)
    BY <2>1, <2>2
  <2>4. object \in ObjectsOf
    BY PackageStoreAssumption DEF PackageTypeOK, ObjectsOf
  <2> QED
    BY <2>3, <2>4 DEF OpsOf, VersionsOf
<1>8. Idle \in RequestOf(name) /\ Idle.kept = Nothing /\ Idle.end = "idle"
  BY IdleFields
<1>9. /\ r \in RequestOf(name) /\ r.op = op /\ r.program = program /\ r.v = v
      /\ r.object = object /\ r.pc = pc /\ r.kept = Nothing /\ r.end = "idle"
  BY <1>4, <1>7, <1>8 DEF RequestOf
<1> HIDE DEF r
<1>10. Others(i) /\ request'[i] = r
  BY <1>6 DEF Others, PackageTypeOK
<1>11. request[i].op = "none"
  BY DEF MayBegin
<1>12. ~Running(i)
  BY <1>11 DEF PackageTypeOK, Steady, Running
<1> QED
  BY <1>4, <1>5, <1>6, <1>9, <1>10, <1>11, <1>12 DEF Started

\* A crash ends the requests that run.
LEMMA CrashGoes ==
  ASSUME PackageTypeOK, Crash
  PROVE  /\ UNCHANGED <<name, immutable, shared, object>> /\ faults' = faults + 1
         /\ mutex' \in [ObjectsOf -> Nat] /\ \A l \in ObjectsOf : mutex'[l] = 0
         /\ DOMAIN request' = Requests
         /\ \A i \in Requests : ~Running(i) => request'[i] = request[i]
         /\ \A i \in Requests :
              Running(i) => /\ request'[i] \in RequestOf(name) /\ request'[i].op = request[i].op
                            /\ request'[i].program = request[i].program
                            /\ request'[i].v = request[i].v /\ request'[i].pc = 0
                            /\ request'[i].object = request[i].object
                            /\ request'[i].end = "failed" /\ request'[i].kept = Nothing
<1>1. /\ name' = name /\ immutable' = immutable /\ shared' = shared /\ object' = object
      /\ faults' = faults + 1
      /\ mutex' = [l \in DOMAIN mutex |-> 0]
      /\ request' = [i \in Requests |-> IF Running(i) THEN CutShort(request[i]) ELSE request[i]]
  BY DEF Crash
<1>2. mutex' \in [ObjectsOf -> Nat] /\ \A l \in ObjectsOf : mutex'[l] = 0
  BY <1>1 DEF PackageTypeOK
<1>3. DOMAIN request' = Requests /\ \A i \in Requests : ~Running(i) => request'[i] = request[i]
  BY <1>1
<1>4. ASSUME NEW i \in Requests, Running(i)
      PROVE  /\ request'[i] \in RequestOf(name) /\ request'[i].op = request[i].op
             /\ request'[i].program = request[i].program
             /\ request'[i].v = request[i].v /\ request'[i].pc = 0
             /\ request'[i].object = request[i].object /\ request'[i].end = "failed"
             /\ request'[i].kept = Nothing
  <2> DEFINE r == request[i]
             o == CutShort(r)
  <2>1. request'[i] = o
    BY <1>1, <1>4
  <2>2. r \in RequestOf(name)
    BY <1>4, RunningFacts
  <2>3. {} \in LeftOf(name) /\ Nothing \in Docs /\ "failed" \in EndsOf
    BY IdleFields DEF LeftOf, EndsOf
  <2> HIDE DEF r
  <2>4. /\ o \in RequestOf(name) /\ o.op = r.op /\ o.program = r.program /\ o.v = r.v
        /\ o.pc = 0 /\ o.object = r.object /\ o.end = "failed" /\ o.kept = Nothing
    BY <2>2, <2>3 DEF RequestOf, CutShort
  <2> QED
    BY <2>1, <2>4 DEF r
<1> QED
  BY <1>1, <1>2, <1>3, <1>4

LEMMA CrashTree == Crash => (tree' = tree /\ torn' = torn) \/ \E i \in Requests : Tear(i)
BY DEF Crash, LeftByCrash

\* What a write that is cut off leaves.
LEMMA TearGoes ==
  ASSUME PackageTypeOK, NEW i \in Requests, Tear(i)
  PROVE  /\ Running(i) /\ At(i).do \in Changes /\ At(i).do # "erase" /\ request[i].end = "idle"
         /\ At(i).at \in Slots[name] /\ torn' # {}
         /\ \E doc \in Docs :
              /\ tree' = [tree EXCEPT ![At(i).at] = doc]
              /\ \A u \in Versions : doc[u] \in {Absent, Written(i)[u]}
              /\ At(i).do \in OwnFile => doc = Written(i)
<1>1. /\ Running(i) /\ At(i).do \in Changes /\ At(i).do # "erase" /\ Takes(i, Changes)
      /\ torn' = torn \cup {At(i).at}
  BY DEF Tear, Takes
<1>2. request[i].end = "idle"
  <2>1. At(i).do # "unlock"
    BY <1>1 DEF Changes
  <2> QED
    BY <1>1, <2>1, RunningFacts
<1>3. At(i).at \in Slots[name] /\ Written(i) \in Docs
  BY <1>1, WrittenFacts
<1>4. PICK left \in IF At(i).do \in OwnFile \/ Written(i) = Nothing
                       THEN {Written(i)} ELSE Parts(Written(i)) :
        tree' = [tree EXCEPT ![At(i).at] = left]
  BY DEF Tear
<1> DEFINE w == Written(i)
<1> HIDE DEF w
<1>5. w \in Docs /\ left \in IF At(i).do \in OwnFile \/ w = Nothing THEN {w} ELSE Parts(w)
  BY <1>3, <1>4 DEF w
<1>6. CASE left = w
  BY <1>1, <1>2, <1>3, <1>4, <1>5, <1>6 DEF w
<1>7. CASE At(i).do \notin OwnFile /\ left \in Parts(w)
  <2>1. PICK seen : left = [v \in Versions |-> IF v \in seen THEN w[v] ELSE Absent]
    BY <1>7 DEF Parts
  <2>2. \A v \in Versions : w[v] \in EntryOf /\ Absent \in EntryOf
    BY <1>5, EntryFacts DEF Docs
  <2>3. left \in Docs /\ \A u \in Versions : left[u] \in {Absent, w[u]}
    BY <2>1, <2>2 DEF Docs
  <2> QED
    BY <1>1, <1>2, <1>3, <1>4, <1>7, <2>3 DEF w
<1> QED
  BY <1>5, <1>6, <1>7

\* What a request leaves in the slot of its step: what it wrote, or a part of it.
LeavesDoc(i, doc) ==
  /\ Running(i) /\ At(i).do \in Changes /\ request[i].end = "idle"
  /\ At(i).at \in Slots[name] /\ doc \in Docs
  /\ tree' = [tree EXCEPT ![At(i).at] = doc]
  /\ \A u \in Versions : doc[u] \in {Absent, Written(i)[u]}
  /\ At(i).do \in {"write", "erase"} => doc = Written(i)

LEMMA ChangeLeaves ==
  ASSUME PackageTypeOK, NEW i \in Requests, Change(i)
  PROVE  LeavesDoc(i, Written(i))
<1>1. /\ Running(i) /\ At(i).do \in Changes /\ request[i].end = "idle" /\ Takes(i, Changes)
      /\ tree' = [tree EXCEPT ![At(i).at] = Written(i)]
  BY ChangeGoes
<1>2. At(i).at \in Slots[name] /\ Written(i) \in Docs
  BY <1>1, WrittenFacts
<1> QED
  BY <1>1, <1>2 DEF LeavesDoc

LEMMA TearLeaves ==
  ASSUME PackageTypeOK, NEW i \in Requests, Tear(i)
  PROVE  \E doc \in Docs : LeavesDoc(i, doc)
<1>1. /\ Running(i) /\ At(i).do \in Changes /\ At(i).do # "erase" /\ request[i].end = "idle"
      /\ At(i).at \in Slots[name]
  BY TearGoes
<1>2. PICK doc \in Docs :
        /\ tree' = [tree EXCEPT ![At(i).at] = doc]
        /\ \A u \in Versions : doc[u] \in {Absent, Written(i)[u]}
        /\ At(i).do \in OwnFile => doc = Written(i)
  BY TearGoes
<1>3. "write" \in OwnFile
  BY DEF OwnFile
<1> QED
  BY <1>1, <1>2, <1>3 DEF LeavesDoc

LEMMA CutOffGoes ==
  ASSUME PackageTypeOK, NEW i \in Requests, CutOff(i)
  PROVE  /\ Running(i) /\ At(i).do \in Changes /\ request[i].end = "idle" /\ Tear(i)
         /\ UNCHANGED <<name, immutable, shared, object, mutex>>
         /\ faults' = faults + 1 /\ torn' # {}
         /\ \/ At(i).try /\ Goes(i, "idle", request[i].kept)
            \/ ~At(i).try /\ Goes(i, "failed", request[i].kept)
<1>1. /\ Tear(i) /\ faults' = faults + 1
      /\ IF At(i).try THEN Proceed(i) ELSE Return(i, "failed")
      /\ UNCHANGED <<name, immutable, shared, object, mutex>>
  BY DEF CutOff
<1>2. Running(i) /\ At(i).do \in Changes /\ request[i].end = "idle" /\ torn' # {}
  BY <1>1, TearGoes
<1>3. At(i).try => Goes(i, "idle", request[i].kept)
  BY <1>1, <1>2, ProceedGoes
<1>4. "failed" \in EndsOf
  BY DEF EndsOf
<1>5. ~At(i).try => Goes(i, "failed", request[i].kept)
  BY <1>1, <1>2, <1>4, ProceedGoes
<1> QED
  BY <1>1, <1>2, <1>3, <1>5

\* What a read that sees a part only leaves.
LEMMA MisreadGoes ==
  ASSUME PackageTypeOK, NEW i \in Requests, Misread(i)
  PROVE  /\ Running(i) /\ At(i).do \in {"load", "fold", "scan"} /\ request[i].end = "idle"
         /\ UNCHANGED <<name, immutable, shared, object, mutex, torn>>
         /\ misread' = misread \cup {i} /\ At(i).at \in Slots[name]
         /\ faults' = faults + 1 \/ (faults' = faults /\ torn # {})
         /\ \E kept \in Docs :
              /\ Goes(i, "idle", kept)
              /\ \/ /\ At(i).do # "scan" /\ tree' = tree
                    /\ \A u \in Versions :
                         kept[u] \in {Absent, tree[At(i).at][u], request[i].kept[u]}
                 \/ /\ At(i).do = "scan" /\ At(i).by \in Slots[name]
                    /\ \A u \in Versions :
                         /\ kept[u] # Absent => tree[At(i).at][u] # Absent
                         /\ kept[u] \in {Absent, tree[At(i).at][u], tree[At(i).by][u]}
                    /\ \E metas \in Docs :
                         /\ tree' = [tree EXCEPT ![At(i).by] = metas]
                         /\ \A u \in Versions :
                              /\ metas[u] # Absent =>
                                   tree[At(i).at][u] # Absent \/ tree[At(i).by][u] # Absent
                              /\ metas[u] \in {Absent, tree[At(i).at][u], tree[At(i).by][u]}
<1> DEFINE old == request[i].kept
           slot == tree[At(i).at]
<1>1. /\ Unreadable(i) /\ misread' = misread \cup {i}
      /\ UNCHANGED <<name, immutable, shared, object, mutex, torn>>
      /\ \/ /\ At(i).do \in {"load", "fold"} /\ tree' = tree
            /\ \E kept \in Parts(Gathered(i)) : ProceedWith(i, kept)
         \/ /\ At(i).do = "scan"
            /\ \E found \in Parts(Scanned(i)) : ProceedWith(i, found) /\ Remake(i, found)
  BY DEF Misread, Takes
<1>2. /\ Running(i) /\ request[i].end = "idle" /\ At(i).do \in {"load", "fold", "scan"}
  BY <1>1, ReadFacts
<1>3. SlotsOf(At(i)) \subseteq Slots[name] /\ old \in Docs
  BY <1>2, RunningFacts
<1>4. faults' = faults + 1 \/ (faults' = faults /\ torn # {})
  BY <1>1 DEF Unreadable
<1>5. At(i).at \in Slots[name] /\ (At(i).do = "scan" => At(i).by \in Slots[name])
  BY <1>2, <1>3 DEF SlotsOf
<1>6. slot \in Docs
  BY <1>5 DEF PackageTypeOK
<1>7. ASSUME NEW doc, NEW part \in Parts(doc)
      PROVE  /\ \A u \in Versions : part[u] \in {Absent, doc[u]}
             /\ doc \in Docs => part \in Docs
  <2>1. PICK seen : part = [v \in Versions |-> IF v \in seen THEN doc[v] ELSE Absent]
    BY DEF Parts
  <2>2. doc \in Docs => \A v \in Versions : doc[v] \in EntryOf /\ Absent \in EntryOf
    BY EntryFacts DEF Docs
  <2> QED
    BY <2>1, <2>2 DEF Docs
<1>8. CASE At(i).do \in {"load", "fold"}
  <2> DEFINE g == [v \in Versions |-> IF At(i).do = "load" \/ old[v] = Absent THEN slot[v] ELSE old[v]]
  <2>1. PICK kept \in Parts(g) : ProceedWith(i, kept)
    BY <1>1, <1>8 DEF Gathered
  <2> HIDE DEF slot, old
  <2>2. g \in Docs /\ \A u \in Versions : g[u] \in {slot[u], old[u]}
    BY <1>3, <1>6 DEF Docs
  <2> HIDE DEF g
  <2>3. kept \in Docs /\ \A u \in Versions : kept[u] \in {Absent, slot[u], old[u]}
    BY <1>7, <2>1, <2>2
  <2>4. Goes(i, "idle", kept)
    BY <1>2, <2>1, <2>3, ProceedGoes
  <2>5. At(i).do # "scan" /\ tree' = tree
    BY <1>1, <1>8
  <2> QED
    BY <1>1, <1>2, <1>4, <1>5, <2>3, <2>4, <2>5, Zenon DEF slot, old
<1>9. CASE At(i).do = "scan"
  <2> DEFINE by == tree[At(i).by]
             all == [v \in Versions |->
                       IF slot[v] = Absent THEN Absent
                       ELSE IF by[v] = Absent THEN slot[v] ELSE by[v]]
  <2>1. PICK found \in Parts(all) : ProceedWith(i, found) /\ Remake(i, found)
    BY <1>1, <1>9 DEF Scanned
  <2> DEFINE metas == [v \in Versions |-> IF found[v] = Absent THEN by[v] ELSE found[v]]
  <2>2. tree' = [tree EXCEPT ![At(i).by] = metas]
    BY <2>1 DEF Remake
  <2>3. by \in Docs
    BY <1>5, <1>9 DEF PackageTypeOK
  <2> HIDE DEF slot, old, by
  <2>4. /\ all \in Docs
        /\ \A u \in Versions : all[u] \in {Absent, slot[u], by[u]} /\ (all[u] # Absent => slot[u] # Absent)
    BY <1>6, <2>3, EntryFacts DEF Docs
  <2> HIDE DEF all
  <2>5. found \in Docs /\ \A u \in Versions : found[u] \in {Absent, all[u]}
    BY <1>7, <2>1, <2>4
  <2>6. \A u \in Versions : /\ found[u] \in {Absent, slot[u], by[u]}
                            /\ found[u] # Absent => slot[u] # Absent
    BY <2>4, <2>5
  <2>7. /\ metas \in Docs
        /\ \A u \in Versions : /\ metas[u] # Absent => slot[u] # Absent \/ by[u] # Absent
                               /\ metas[u] \in {Absent, slot[u], by[u]}
    BY <2>3, <2>5, <2>6 DEF Docs
  <2> HIDE DEF metas
  <2>8. Goes(i, "idle", found)
    BY <1>2, <2>1, <2>5, ProceedGoes
  <2> QED
    BY <1>1, <1>2, <1>4, <1>5, <1>9, <2>2, <2>5, <2>6, <2>7, <2>8, Zenon DEF slot, by
<1> QED
  BY <1>2, <1>8, <1>9

-----------------------------------------------------------------------------
\* The steps of the specification, and what each adds to the history of writes
\* that were cut off and reads that misled a request.
LEMMA NextCases ==
  ASSUME [Next]_vars
  PROVE  \/ \E i \in Requests : MayBegin(i) /\
              \E op \in Operations, v \in Versions :
                \E program \in Programs(name, op) : Begin(i, op, program, v)
         \/ \E i \in Requests : AnyStep(i)
         \/ Crash \/ Reload \/ Done \/ UNCHANGED vars
BY DEF Next, AnyStep, StepOf

LEMMA LapsesGrow ==
  ASSUME [Next]_vars
  PROVE  /\ torn \subseteq torn' /\ misled \subseteq misled' /\ misread \subseteq misread'
         /\ \A i \in Requests : AnyStep(i) => StepOf(i) \/ torn' # {} \/ misread' # {}
         /\ Crash => tree' = tree \/ torn' # {}
<1> DEFINE Grow == torn \subseteq torn' /\ misled \subseteq misled' /\ misread \subseteq misread'
           Same == UNCHANGED <<torn, misled, misread>>
<1>1. ASSUME NEW i, Tear(i) PROVE torn \subseteq torn' /\ torn' # {}
  <2>1. torn' = torn \cup {At(i).at}
    BY <1>1, Zenon DEF Tear
  <2> QED
    BY <2>1
<1>2. ASSUME NEW i \in Requests, StepOf(i) PROVE Grow
  <2>1. ASSUME Advance(i) PROVE Same
    <3>1. Ask(i) \/ Gather(i) => Same
      BY Zenon DEF Ask, Gather, Rest
    <3>2. Change(i) \/ Repair(i) => Same
      BY Zenon DEF Change, Repair, Rest
    <3>3. DeleteNext(i) \/ DeleteEnd(i) => Same
      BY Zenon DEF DeleteNext, DeleteEnd, Rest
    <3>4. Acquire(i) \/ Release(i) => Same
      BY Zenon DEF Acquire, Release, Rest
    <3> QED
      BY <2>1, <3>1, <3>2, <3>3, <3>4, Zenon DEF Advance
  <2>2. FailChange(i) \/ FailDelete(i) \/ FailRead(i) => Same
    BY Zenon DEF FailChange, FailDelete, FailRead, Rest
  <2>3. ASSUME Mislead(i) PROVE Grow
    <3>1. torn' = torn /\ misread' = misread /\ misled' = misled \cup {i}
      BY <2>3, Zenon DEF Mislead
    <3> QED
      BY <3>1
  <2> HIDE DEF Grow
  <2>4. Same => Grow
    BY DEF Grow
  <2> QED
    BY <1>2, <2>1, <2>2, <2>3, <2>4, Zenon DEF StepOf
<1>3. ASSUME NEW i \in Requests, CutOff(i) PROVE Grow /\ torn' # {}
  <2>1. Tear(i) /\ misled' = misled /\ misread' = misread
    BY <1>3, Zenon DEF CutOff
  <2> QED
    BY <1>1, <2>1
<1>4. ASSUME NEW i \in Requests, Misread(i) PROVE Grow /\ misread' # {}
  <2>1. torn' = torn /\ misled' = misled /\ misread' = misread \cup {i}
    BY <1>4, Zenon DEF Misread
  <2> QED
    BY <2>1
<1>5. ASSUME Crash PROVE Grow /\ (tree' = tree \/ torn' # {})
  <2>1. misled' = misled /\ misread' = misread
    BY <1>5, Zenon DEF Crash
  <2> QED
    BY <1>1, <1>5, <2>1, CrashTree
<1>6. ASSUME NEW i \in Requests, NEW op, NEW v, NEW program, Begin(i, op, program, v) PROVE Grow
  <2>1. Same
    BY <1>6, Zenon DEF Begin, Rest
  <2> QED
    BY <2>1
<1>7. Reload \/ Done \/ UNCHANGED vars => Grow
  <2>1. Reload \/ Done \/ UNCHANGED vars => Same
    BY Zenon DEF Reload, Done, vars
  <2> QED
    BY <2>1
<1> HIDE DEF Grow
<1>8. Grow
  BY <1>2, <1>3, <1>4, <1>5, <1>6, <1>7, NextCases, Zenon DEF AnyStep
<1>9. \A i \in Requests : AnyStep(i) => StepOf(i) \/ torn' # {} \/ misread' # {}
  BY <1>3, <1>4, Zenon DEF AnyStep
<1>10. Crash => tree' = tree \/ torn' # {}
  BY <1>5, Zenon
<1> QED
  BY <1>8, <1>9, <1>10 DEF Grow

-----------------------------------------------------------------------------
\* A request that began stays what it is.
Keeps ==
  /\ name' = name
  /\ \A i \in Requests :
       request[i].op # "none" => /\ request'[i].op = request[i].op /\ request'[i].v = request[i].v
                                 /\ request'[i].program = request[i].program
                                 /\ request'[i].object = request[i].object
SteadyAll == DOMAIN request = Requests /\ \A i \in Requests : Steady(name, request[i])

LEMMA GoesSteady ==
  ASSUME PackageTypeOK, NEW i \in Requests, Running(i), NEW end, NEW kept, Goes(i, end, kept),
         name' = name
  PROVE  SteadyAll' /\ Keeps
<1>1. /\ Others(i) /\ After(name, request[i], request'[i], end, kept)
      /\ Steady(name, request[i]) /\ request[i].op # "none" /\ name \in Names
  BY RunningFacts DEF Goes
<1>2. Steady(name, request'[i])
  BY <1>1, AfterSteady
<1>3. \A j \in Requests \ {i} : Steady(name, request'[j])
  BY <1>1 DEF Others, PackageTypeOK
<1>4. SteadyAll'
  BY <1>1, <1>2, <1>3 DEF SteadyAll, Others
<1>5. Keeps
  BY <1>1 DEF Keeps, Others, After
<1> QED
  BY <1>4, <1>5

\* The slots a step writes stay documents.
LEMMA TreeTyped ==
  ASSUME PackageTypeOK, NEW s \in Slots[name], NEW doc \in Docs, name' = name,
         tree' = [tree EXCEPT ![s] = doc]
  PROVE  /\ tree' \in [Slots[name'] -> Docs] /\ tree'[s] = doc
         /\ \A t \in Slots[name] \ {s} : tree'[t] = tree[t]
BY DEF PackageTypeOK

LEMMA TypeInit == Init => PackageTypeOK
<1> SUFFICES ASSUME Init PROVE PackageTypeOK
  OBVIOUS
<1>1. name \in Names /\ immutable \in BOOLEAN /\ shared \in BOOLEAN
  BY DEF Init
<1>2. tree \in [Slots[name] -> Docs]
  BY IdleFields DEF Init
<1>3. object \in 1..MaxReloads + 1 /\ mutex \in [ObjectsOf -> Nat]
  BY PackageStoreAssumption DEF Init, ObjectsOf
<1>4. DOMAIN request = Requests /\ \A i \in Requests : request[i] = Idle
  BY DEF Init
<1>5. Steady(name, Idle)
  BY IdleFields DEF Steady
<1> QED
  BY <1>1, <1>2, <1>3, <1>4, <1>5, Zenon DEF PackageTypeOK

\* One step of a request.
LEMMA TypeAdvance ==
  ASSUME PackageTypeOK, NEW i \in Requests, StepOf(i)
  PROVE  PackageTypeOK' /\ Keeps
<1> DEFINE Old == name \in Names /\ immutable \in BOOLEAN /\ shared \in BOOLEAN
                    /\ object \in 1..MaxReloads + 1
<1>0. /\ Old /\ mutex \in [ObjectsOf -> Nat] /\ tree \in [Slots[name] -> Docs]
  BY DEF PackageTypeOK
<1>a. ASSUME SteadyAll', UNCHANGED <<name, immutable, shared, object>>,
             tree' \in [Slots[name'] -> Docs], mutex' \in [ObjectsOf -> Nat]
      PROVE  PackageTypeOK'
  BY <1>0, <1>a DEF PackageTypeOK, SteadyAll
<1> HIDE DEF Old
<1>1. CASE Asking(i)
  <2>1. PICK end \in EndsOf : Goes(i, end, request[i].kept)
    BY <1>1, AskingGoes
  <2>2. Running(i) /\ UNCHANGED <<name, immutable, shared, object, tree, mutex>>
    BY <1>1, AskingGoes
  <2>3. SteadyAll' /\ Keeps
    BY <2>1, <2>2, GoesSteady
  <2> QED
    BY <1>0, <1>a, <2>2, <2>3
<1>2. CASE Gather(i)
  <2>1. PICK kept \in Docs : Goes(i, "idle", kept)
    BY <1>2, GatherGoes
  <2>2. Running(i) /\ UNCHANGED <<name, immutable, shared, object, tree, mutex, faults>>
    BY <1>2, GatherGoes
  <2>3. SteadyAll' /\ Keeps
    BY <2>1, <2>2, GoesSteady
  <2> QED
    BY <1>0, <1>a, <2>2, <2>3
<1>3. CASE Change(i)
  <2>1. /\ Running(i) /\ Takes(i, Changes) /\ Goes(i, "idle", request[i].kept)
        /\ UNCHANGED <<name, immutable, shared, object, mutex, faults>>
        /\ tree' = [tree EXCEPT ![At(i).at] = Written(i)]
    BY <1>3, ChangeGoes
  <2>2. At(i).at \in Slots[name] /\ Written(i) \in Docs
    BY <2>1, WrittenFacts
  <2>3. tree' \in [Slots[name'] -> Docs]
    BY <2>1, <2>2, TreeTyped
  <2>4. SteadyAll' /\ Keeps
    BY <2>1, GoesSteady
  <2> QED
    BY <1>0, <1>a, <2>1, <2>3, <2>4
<1>4. CASE Repair(i)
  <2>1. PICK found \in Docs, metas \in Docs :
          Goes(i, "idle", found) /\ tree' = [tree EXCEPT ![At(i).by] = metas]
    BY <1>4, RepairGoes
  <2>2. /\ Running(i) /\ At(i).by \in Slots[name]
        /\ UNCHANGED <<name, immutable, shared, object, mutex, faults>>
    BY <1>4, RepairGoes
  <2>3. tree' \in [Slots[name'] -> Docs]
    BY <2>1, <2>2, TreeTyped
  <2>4. SteadyAll' /\ Keeps
    BY <2>1, <2>2, GoesSteady
  <2> QED
    BY <1>0, <1>a, <2>2, <2>3, <2>4
<1>5. CASE DeleteNext(i)
  <2>1. PICK s \in Slots[name], doc \in Docs : tree' = [tree EXCEPT ![s] = doc]
    BY <1>5, DeleteNextGoes
  <2>2. Running(i) /\ UNCHANGED <<name, immutable, shared, object, mutex, faults, request>>
    BY <1>5, DeleteNextGoes
  <2>3. tree' \in [Slots[name'] -> Docs]
    BY <2>1, <2>2, TreeTyped
  <2>4. SteadyAll' /\ Keeps
    BY <2>2 DEF SteadyAll, Keeps, PackageTypeOK
  <2> QED
    BY <1>0, <1>a, <2>2, <2>3, <2>4
<1>6. CASE DeleteEnd(i)
  <2>1. PICK end \in {"idle", "failed"} : Goes(i, end, request[i].kept)
    BY <1>6, DeleteEndGoes
  <2>2. Running(i) /\ UNCHANGED <<name, immutable, shared, object, tree, mutex, faults>>
    BY <1>6, DeleteEndGoes
  <2>3. SteadyAll' /\ Keeps
    BY <2>1, <2>2, GoesSteady
  <2> QED
    BY <1>0, <1>a, <2>2, <2>3
<1>7. CASE Acquire(i)
  <2>1. /\ Running(i) /\ UNCHANGED <<name, immutable, shared, object, tree, faults>>
        /\ mutex' \in [ObjectsOf -> Nat] /\ Goes(i, "idle", request[i].kept)
    BY <1>7, AcquireGoes
  <2>2. SteadyAll' /\ Keeps
    BY <2>1, GoesSteady
  <2> QED
    BY <1>0, <1>a, <2>1, <2>2
<1>8. CASE Release(i)
  <2>1. /\ Running(i) /\ UNCHANGED <<name, immutable, shared, object, tree, faults>>
        /\ mutex' \in [ObjectsOf -> Nat] /\ Goes(i, request[i].end, request[i].kept)
    BY <1>8, ReleaseGoes
  <2>2. SteadyAll' /\ Keeps
    BY <2>1, GoesSteady
  <2> QED
    BY <1>0, <1>a, <2>1, <2>2
<1>9. CASE FailChange(i)
  <2>1. /\ Running(i) /\ At(i).at \in Slots[name]
        /\ UNCHANGED <<name, immutable, shared, object, mutex>>
        /\ \/ tree' = tree
           \/ tree' = [tree EXCEPT ![At(i).at] = [@ EXCEPT ![Version(i)] = Absent]]
        /\ Goes(i, "idle", request[i].kept) \/ Goes(i, "failed", request[i].kept)
    BY <1>9, FailChangeGoes
  <2>2. tree' \in [Slots[name'] -> Docs]
    <3> DEFINE old == tree[At(i).at]
               doc == [old EXCEPT ![Version(i)] = Absent]
    <3>1. old \in Docs
      BY <2>1 DEF PackageTypeOK
    <3>2. doc \in Docs
      BY <3>1, EntryFacts DEF Docs
    <3>3. tree' = tree \/ tree' = [tree EXCEPT ![At(i).at] = doc]
      BY <2>1
    <3> HIDE DEF doc
    <3> QED
      BY <1>0, <2>1, <3>2, <3>3
  <2>3. SteadyAll' /\ Keeps
    BY <2>1, GoesSteady
  <2> QED
    BY <1>0, <1>a, <2>1, <2>2, <2>3
<1>10. CASE FailDelete(i)
  <2>1. /\ Running(i) /\ UNCHANGED <<name, immutable, shared, object, tree, mutex>>
        /\ Others(i) /\ request'[i] \in RequestOf(name) /\ Stays(request[i], request'[i])
    BY <1>10, FailDeleteGoes
  <2>2. Steady(name, request[i])
    BY <2>1, RunningFacts
  <2>3. Steady(name, request'[i])
    BY <2>1, <2>2 DEF Steady, Stays
  <2>4. \A j \in Requests \ {i} : Steady(name, request'[j])
    BY <2>1 DEF Others, PackageTypeOK
  <2>5. SteadyAll'
    BY <2>1, <2>3, <2>4 DEF SteadyAll, Others
  <2>6. Keeps
    BY <2>1 DEF Keeps, Others, Stays
  <2> QED
    BY <1>0, <1>a, <2>1, <2>5, <2>6
<1> QED
  BY <1>1, <1>2, <1>3, <1>4, <1>5, <1>6, <1>7, <1>8, <1>9, <1>10 DEF StepOf, Advance, Asking

LEMMA TypeNext ==
  PackageTypeOK /\ [Next]_vars => PackageTypeOK' /\ Keeps
<1> SUFFICES ASSUME PackageTypeOK, [Next]_vars PROVE PackageTypeOK' /\ Keeps
  OBVIOUS
<1>1. ASSUME NEW i \in Requests, MayBegin(i), NEW op \in Operations, NEW v \in Versions,
             NEW program \in Programs(name, op), Begin(i, op, program, v)
      PROVE  PackageTypeOK' /\ Keeps
  <2>1. /\ request[i].op = "none"
        /\ UNCHANGED <<name, immutable, shared, tree, object, mutex, faults>>
        /\ Others(i) /\ request'[i] \in RequestOf(name)
        /\ Started(name, request'[i], op, program, v, object)
    BY <1>1, BeginGoes
  <2>2. op # "none"
    BY DEF Operations
  <2>3. Steady(name, request'[i])
    BY <2>1, <2>2 DEF Steady, Started
  <2>4. \A j \in Requests \ {i} : Steady(name, request'[j])
    BY <2>1 DEF Others, PackageTypeOK
  <2>5. PackageTypeOK'
    BY <2>1, <2>3, <2>4 DEF PackageTypeOK, Others
  <2>6. Keeps
    BY <2>1 DEF Keeps, Others
  <2> QED
    BY <2>5, <2>6
<1>2. ASSUME NEW i \in Requests, StepOf(i)
      PROVE  PackageTypeOK' /\ Keeps
  BY <1>2, TypeAdvance
<1>7. ASSUME NEW i \in Requests, Tear(i), name' = name PROVE tree' \in [Slots[name'] -> Docs]
  <2>1. At(i).at \in Slots[name] /\ \E doc \in Docs : tree' = [tree EXCEPT ![At(i).at] = doc]
    BY <1>7, TearGoes
  <2> QED
    BY <1>7, <2>1, TreeTyped
<1>8. ASSUME NEW i \in Requests, CutOff(i) \/ Misread(i) PROVE PackageTypeOK' /\ Keeps
  <2>1. /\ Running(i) /\ UNCHANGED <<name, immutable, shared, object, mutex>>
        /\ \E end, kept : Goes(i, end, kept)
    <3>1. CASE CutOff(i)
      BY <3>1, CutOffGoes
    <3>2. CASE Misread(i)
      BY <3>2, MisreadGoes
    <3> QED
      BY <1>8, <3>1, <3>2
  <2>2. SteadyAll' /\ Keeps
    BY <2>1, GoesSteady
  <2>3. tree' \in [Slots[name'] -> Docs]
    <3>1. CASE CutOff(i)
      BY <1>7, <2>1, <3>1, CutOffGoes
    <3>2. CASE Misread(i)
      <4>1. \/ tree' = tree
            \/ At(i).by \in Slots[name] /\ \E metas \in Docs : tree' = [tree EXCEPT ![At(i).by] = metas]
        BY <3>2, MisreadGoes
      <4> QED
        BY <2>1, <4>1, TreeTyped DEF PackageTypeOK
    <3> QED
      BY <1>8, <3>1, <3>2
  <2> QED
    BY <2>1, <2>2, <2>3 DEF PackageTypeOK, SteadyAll
<1>3. CASE Crash
  <2>0. tree' \in [Slots[name'] -> Docs]
    <3>1. name' = name /\ (tree' = tree \/ \E i \in Requests : Tear(i))
      BY <1>3, CrashGoes, CrashTree
    <3> QED
      BY <1>7, <3>1 DEF PackageTypeOK
  <2>1. /\ UNCHANGED <<name, immutable, shared, object>> /\ mutex' \in [ObjectsOf -> Nat]
        /\ DOMAIN request' = Requests
        /\ \A i \in Requests : ~Running(i) => request'[i] = request[i]
    BY <1>3, CrashGoes
  <2>2. \A i \in Requests :
           Running(i) => /\ request'[i] \in RequestOf(name) /\ request'[i].op = request[i].op
                         /\ request'[i].program = request[i].program
                         /\ request'[i].object = request[i].object
                         /\ request'[i].v = request[i].v /\ request'[i].pc = 0
    BY <1>3, CrashGoes
  <2>3. \A i \in Requests : Steady(name, request[i])
    BY DEF PackageTypeOK
  <2>4. \A i \in Requests : Steady(name, request'[i])
    BY <2>1, <2>2, <2>3 DEF Steady
  <2>5. PackageTypeOK'
    BY <2>0, <2>1, <2>4 DEF PackageTypeOK
  <2>6. Keeps
    BY <2>1, <2>2 DEF Keeps
  <2> QED
    BY <2>5, <2>6
<1>4. CASE Reload
  <2>1. /\ UNCHANGED <<name, immutable, shared, tree, request, mutex, faults>>
        /\ object \in 1..MaxReloads + 1 /\ object <= MaxReloads /\ object' = object + 1
    BY <1>4 DEF Reload, PackageTypeOK
  <2>2. object' \in 1..MaxReloads + 1
    BY <2>1, PackageStoreAssumption
  <2>3. Keeps
    BY <2>1 DEF Keeps
  <2> QED
    BY <2>1, <2>2, <2>3 DEF PackageTypeOK
<1>5. CASE UNCHANGED vars
  BY <1>5 DEF vars, PackageTypeOK, Keeps
<1>6. CASE Done
  BY <1>5, <1>6 DEF Done
<1>9. (\E i \in Requests : CutOff(i) \/ Mislead(i) \/ Misread(i)) => PackageTypeOK' /\ Keeps
  BY <1>2, <1>8 DEF StepOf
<1>10. (\E i \in Requests : Advance(i) \/ FailChange(i) \/ FailDelete(i) \/ FailRead(i)) =>
         PackageTypeOK' /\ Keeps
  BY <1>2 DEF StepOf
<1> QED
  BY <1>1, <1>3, <1>4, <1>5, <1>6, <1>9, <1>10, Zenon DEF Next

\* What a hosted repository keeps has its shape: a document per slot of the
\* format, and each running request at a step of a program of its operation,
\* which it keeps from its beginning; past an early return that step is
\* deferred.
THEOREM PackageTypeCorrect == Spec => []PackageTypeOK
<1>1. Init => PackageTypeOK
  BY TypeInit
<1>2. PackageTypeOK /\ [Next]_vars => PackageTypeOK'
  BY TypeNext
<1> QED
  BY <1>1, <1>2, PTL DEF Spec

-----------------------------------------------------------------------------
(***************************************************************************)
(* A listed version has its file, or a removal of it began. In the formats *)
(* whose listings are more than the files themselves: every slot versions  *)
(* are listed from, or a program reads, and every document a request keeps *)
(* in memory, has versions with a file (or being removed) only; and a      *)
(* request past the write of its file, or past a question that found its   *)
(* version, is about such a version.                                       *)
(***************************************************************************)
Sure(v) == Present(File, v) \/ Removed(v)
FirstFormat == name \notin EntryFirst /\ ~(ListedFrom(name) \subseteq {File})
BackedSure == \A s \in Backed(name) \cap Slots[name], v \in Versions : Present(s, v) => Sure(v)
KeptSure(i) == Running(i) => \A v \in Versions : request[i].kept[v] # Absent => Sure(v)
PastVouch(r) == \E m \in 1..(r.pc - 1) : Vouches(name, r.program[m])
Vouched(i) == Running(i) /\ request[i].end = "idle" /\ PastVouch(request[i]) => Sure(Version(i))
FirstInv == FirstFormat => BackedSure /\ \A i \in Requests : KeptSure(i) /\ Vouched(i)

\* A removal that began has begun for good.
LEMMA RemovedStays ==
  ASSUME PackageTypeOK, PackageTypeOK', Keeps, NEW v, Removed(v)
  PROVE  Removed(v)'
<1>1. PICK i \in Begun : (request[i].op \in Removals /\ Version(i) = v) \/ Sweeps(i)
  BY DEF Removed
<1>2. i \in Requests /\ request[i].op # "none"
  BY <1>1 DEF Begun
<1>3. /\ request'[i].op = request[i].op /\ request'[i].v = request[i].v /\ name' = name
      /\ request'[i].program = request[i].program
  BY <1>2 DEF Keeps
<1>4. i \in Begun'
  BY <1>2, <1>3 DEF Begun
<1>5. Sweeps(i) => Sweeps(i)'
  BY <1>3 DEF Sweeps, Program, File
<1> QED
  BY <1>1, <1>3, <1>4, <1>5 DEF Removed, Version

\* What the running request's step may do.
LEMMA StepFirst ==
  ASSUME PackageTypeOK, FirstFormat, NEW i \in Requests, Running(i)
  PROVE  /\ At(i).do \in Changes /\ At(i).at = File =>
              At(i).do = "write" \/ (At(i).do = "erase" /\ request[i].op \in Removals)
         /\ At(i).do = "enter" => At(i).at \notin Backed(name)
         /\ At(i).do = "scan" => At(i).by # File
         /\ At(i).do = "tree" /\ File \in At(i).by =>
              Sweeps(i) \/ (request[i].op \in Removals /\ At(i).at = "version")
         /\ At(i).do \in {"write", "stream", "put"} /\ At(i).at \in Backed(name) =>
              At(i).at = File \/ Sweeps(i) \/ PastVouch(request[i])
         /\ At(i).do \in {"load", "fold", "scan"} => At(i).at \in Backed(name)
         /\ At(i).do \in {"scan", "heal"} => At(i).by \in Backed(name)
<1> DEFINE p == Program(i)
           k == request[i].pc
           op == request[i].op
<1>1. /\ name \in Names /\ op \in Operations /\ p \in Programs(name, op) /\ k \in DOMAIN p
      /\ At(i) = p[k] /\ SlotsOf(At(i)) \subseteq Slots[name]
      /\ \A s \in Slots[name] : Reads(At(i), s) => s \in Backed(name)
  BY RunningFacts
<1>2. File = Formats[name].file
  BY DEF File
<1>3. FileFirst(name, op, p)
  <2>1. name \notin EntryFirst /\ ~(ListedFrom(name) \subseteq {Formats[name].file})
    BY <1>2 DEF FirstFormat
  <2> QED
    BY <1>1, <2>1, Following, Zenon DEF Follows
<1>4. SweepsAll(name, p) => Sweeps(i)
  BY <1>2, Zenon DEF SweepsAll, Sweeps
<1>5. /\ At(i).do \in Changes /\ At(i).at = File =>
              At(i).do = "write" \/ (At(i).do = "erase" /\ op \in Removals)
      /\ At(i).do = "enter" => At(i).at \notin Backed(name)
      /\ At(i).do = "scan" => At(i).by # File
      /\ At(i).do = "tree" /\ File \in At(i).by =>
              SweepsAll(name, p) \/ (op \in Removals /\ At(i).at = "version")
      /\ At(i).do \in {"write", "stream", "put"} /\ At(i).at \in Backed(name) =>
              \/ At(i).at = File \/ SweepsAll(name, p)
              \/ \E m \in 1..(k - 1) : Vouches(name, p[m])
  BY <1>1, <1>2, <1>3, Zenon DEF FileFirst
<1>6. (\E m \in 1..(k - 1) : Vouches(name, p[m])) => PastVouch(request[i])
  BY DEF PastVouch, Program
<1>7. At(i).do \in {"load", "fold", "scan"} => At(i).at \in Slots[name]
  BY <1>1 DEF SlotsOf
<1>8. At(i).do \in {"scan", "heal"} => At(i).by \in Slots[name]
  BY <1>1 DEF SlotsOf
<1>10. /\ At(i).do \in {"load", "fold", "scan"} => At(i).at \in Backed(name)
       /\ At(i).do \in {"scan", "heal"} => At(i).by \in Backed(name)
  BY <1>1, <1>7, <1>8 DEF Reads
<1> QED
  BY <1>4, <1>5, <1>6, <1>10

\* A write leaves the files of other versions alone.
LEMMA SureWritten ==
  ASSUME PackageTypeOK, FirstFormat, NEW i \in Requests, NEW doc, LeavesDoc(i, doc),
         name' = name, NEW v \in Versions, Present(File, v), ~Removed(v)
  PROVE  Present(File, v)'
<1>1. /\ Running(i) /\ At(i).do \in Changes /\ At(i).at \in Slots[name] /\ doc \in Docs
      /\ tree' = [tree EXCEPT ![At(i).at] = doc]
      /\ At(i).do \in {"write", "erase"} => doc = Written(i)
  BY DEF LeavesDoc
<1>2. /\ At(i).do = "write" => Written(i) = [tree[At(i).at] EXCEPT ![Version(i)] = Entry(i)]
      /\ At(i).do = "erase" => Written(i) = [tree[At(i).at] EXCEPT ![Version(i)] = Absent]
  <2>1. At(i).do # "unlock"
    BY <1>1 DEF Changes
  <2>2. Takes(i, Changes)
    BY <1>1, <2>1 DEF LeavesDoc, Takes
  <2> QED
    BY <2>2, WrittenFacts
<1>3. tree'[At(i).at] = doc /\ \A t \in Slots[name] \ {At(i).at} : tree'[t] = tree[t]
  BY <1>1, TreeTyped
<1>4. File' = File /\ File \in Slots[name] /\ tree[File][v] # Absent
  <2>1. name \in Names
    BY DEF PackageTypeOK
  <2>2. Formats[name].file \in Slots[name]
    BY <2>1, Following, Zenon DEF Follows
  <2> QED
    BY <2>2 DEF File, Present
<1>5. ASSUME request[i].op \in Removals PROVE Version(i) # v
  <2>1. i \in Begun
    BY <1>1, RunningFacts DEF Begun
  <2> QED
    BY <1>5, <2>1 DEF Removed
<1>6. CASE At(i).at # File
  BY <1>3, <1>4, <1>6 DEF Present
<1>7. CASE At(i).at = File
  <2> DEFINE old == tree[File]
  <2>1. old \in Docs /\ Version(i) \in Versions
    BY <1>1, <1>4, RunningFacts DEF PackageTypeOK
  <2>2. At(i).do = "write" \/ (At(i).do = "erase" /\ request[i].op \in Removals)
    BY <1>1, <1>7, StepFirst
  <2> HIDE DEF old
  <2>3. CASE At(i).do = "write"
    <3>1. tree'[File] = [old EXCEPT ![Version(i)] = Entry(i)]
      BY <1>1, <1>2, <1>3, <1>7, <2>3 DEF old
    <3>2. tree'[File][v] = Entry(i) \/ tree'[File][v] = old[v]
      BY <2>1, <3>1 DEF Docs
    <3> QED
      BY <1>4, <3>2, EntryFacts DEF old, Present
  <2>4. CASE At(i).do = "erase" /\ request[i].op \in Removals
    <3>1. tree'[File] = [old EXCEPT ![Version(i)] = Absent] /\ Version(i) # v
      BY <1>1, <1>2, <1>3, <1>5, <1>7, <2>4 DEF old
    <3>2. tree'[File][v] = old[v]
      BY <2>1, <3>1 DEF Docs
    <3> QED
      BY <1>4, <3>2 DEF old, Present
  <2> QED
    BY <2>2, <2>3, <2>4
<1> QED
  BY <1>6, <1>7

\* The file of a version goes with a removal only.
LEMMA SureStays ==
  ASSUME PackageTypeOK, PackageTypeOK', Keeps, FirstFormat, NEW i \in Requests,
         AnyStep(i), NEW v \in Versions, Sure(v)
  PROVE  Sure(v)'
<1>1. Removed(v) => Removed(v)'
  BY RemovedStays
<1>2. CASE Removed(v)
  BY <1>1, <1>2 DEF Sure
<1>3. ASSUME Present(File, v), ~Removed(v) PROVE Present(File, v)'
  <2>1. File' = File /\ File \in Slots[name]
    <3>1. name' = name /\ name \in Names
      BY DEF Keeps, PackageTypeOK
    <3>2. Formats[name].file \in Slots[name]
      BY <3>1, Following, Zenon DEF Follows
    <3> QED
      BY <3>1, <3>2 DEF File
  <2>2. Present(File, v)' <=> tree'[File][v] # Absent
    BY <2>1 DEF Present
  <2>3. tree[File][v] # Absent
    BY <1>3 DEF Present
  <2>4. ASSUME Running(i), request[i].op \in Removals PROVE Version(i) # v
    <3>1. i \in Begun
      BY <2>4, RunningFacts DEF Begun
    <3> QED
      BY <1>3, <2>4, <3>1 DEF Removed
  <2>5. ASSUME Running(i) PROVE ~Sweeps(i)
    <3>1. i \in Begun
      BY <2>5, RunningFacts DEF Begun
    <3> QED
      BY <1>3, <3>1 DEF Removed
  <2>6. CASE tree' = tree
    BY <2>1, <2>2, <2>3, <2>6
  <2>7. CASE Change(i)
    BY <1>3, <2>7, ChangeLeaves, SureWritten DEF Keeps
  <2>8. CASE Repair(i)
    <3>1. PICK metas \in Docs : tree' = [tree EXCEPT ![At(i).by] = metas]
      BY <2>8, RepairGoes
    <3>2. Running(i) /\ At(i).do = "scan" /\ At(i).by \in Slots[name] /\ name' = name
      BY <2>8, RepairGoes
    <3>3. At(i).by # File
      BY <3>2, StepFirst
    <3>4. tree'[File] = tree[File]
      BY <2>1, <3>1, <3>2, <3>3, TreeTyped
    <3> QED
      BY <2>2, <2>3, <3>4
  <2>9. CASE DeleteNext(i)
    <3>1. /\ Running(i) /\ At(i).do = "tree" /\ name' = name
      BY <2>9, DeleteNextGoes
    <3>2. PICK s \in Slots[name], doc \in Docs :
                /\ s \in At(i).by
                /\ tree' = [tree EXCEPT ![s] = doc]
                /\ \A u \in Versions \ Scope(i) : doc[u] = tree[s][u]
      BY <2>9, DeleteNextGoes
    <3>3. tree'[s] = doc /\ \A t \in Slots[name] \ {s} : tree'[t] = tree[t]
      BY <3>1, <3>2, TreeTyped
    <3>4. CASE s # File
      BY <2>1, <2>2, <2>3, <3>3, <3>4
    <3>5. CASE s = File
      <4>1. request[i].op \in Removals /\ At(i).at = "version"
        BY <2>5, <3>1, <3>2, <3>5, StepFirst
      <4>4. v \notin Scope(i)
        BY <2>4, <3>1, <4>1 DEF Scope
      <4> QED
        BY <2>2, <2>3, <3>2, <3>3, <3>5, <4>4
    <3> QED
      BY <3>4, <3>5
  <2>10. CASE FailChange(i)
    <3>1. /\ Running(i) /\ At(i).do \in Changes /\ At(i).at \in Slots[name]
          /\ \/ tree' = tree
             \/ /\ At(i).do = "stream"
                /\ tree' = [tree EXCEPT ![At(i).at] = [@ EXCEPT ![Version(i)] = Absent]]
      BY <2>10, FailChangeGoes
    <3>2. CASE At(i).do = "stream"
      <4>1. At(i).at # File
        BY <3>1, <3>2, StepFirst
      <4>2. tree'[File] = tree[File]
        BY <2>1, <3>1, <4>1 DEF PackageTypeOK
      <4> QED
        BY <2>2, <2>3, <4>2
    <3> QED
      BY <2>6, <3>1, <3>2
  <2>11. CASE FailDelete(i) \/ Asking(i) \/ Gather(i) \/ DeleteEnd(i) \/ Acquire(i) \/ Release(i)
    <3>1. tree' = tree
      BY <2>11, FailDeleteGoes, AskingGoes, GatherGoes, DeleteEndGoes, AcquireGoes, ReleaseGoes
    <3> QED
      BY <2>6, <3>1
  <2>12. CASE CutOff(i)
    <3>1. PICK doc \in Docs : LeavesDoc(i, doc)
      BY <2>12, CutOffGoes, TearLeaves
    <3> QED
      BY <1>3, <3>1, SureWritten DEF Keeps
  <2>13. CASE Misread(i)
    <3>1. /\ Running(i) /\ name' = name
          /\ \/ tree' = tree
             \/ /\ At(i).do = "scan" /\ At(i).by \in Slots[name]
                /\ \E metas \in Docs : tree' = [tree EXCEPT ![At(i).by] = metas]
      BY <2>13, MisreadGoes
    <3>2. CASE At(i).do = "scan" /\ At(i).by \in Slots[name]
      <4>1. At(i).by # File
        BY <3>1, <3>2, StepFirst
      <4>2. tree'[File] = tree[File]
        BY <2>1, <3>1, <3>2, <4>1, TreeTyped
      <4> QED
        BY <2>2, <2>3, <4>2
    <3> QED
      BY <2>6, <3>1, <3>2
  <2> QED
    BY <2>7, <2>8, <2>9, <2>10, <2>11, <2>12, <2>13 DEF AnyStep, StepOf, Advance, Asking
<1> QED
  BY <1>2, <1>3 DEF Sure

\* The request that takes the step.
LEMMA FirstGoes ==
  ASSUME PackageTypeOK, PackageTypeOK', Keeps, FirstFormat, FirstInv, NEW i \in Requests, Running(i),
         \A v \in Versions : Sure(v) => Sure(v)',
         NEW end \in EndsOf, NEW kept \in Docs, Goes(i, end, kept),
         end = "idle" => request[i].end = "idle",
         \A v \in Versions : kept[v] # Absent => Sure(v),
         end = "idle" /\ Vouches(name, At(i)) => Sure(Version(i))'
  PROVE  KeptSure(i)' /\ Vouched(i)'
<1> DEFINE r == request[i]
           s == request'[i]
<1>1. /\ s.op = r.op /\ s.program = r.program /\ s.v = r.v
      /\ \/ /\ s.pc \in (r.pc + 1)..Len(r.program) /\ s.pc # 0 /\ s.kept = kept /\ s.end = end
            /\ end = "idle" => \A m \in (r.pc + 1)..(s.pc - 1) : r.program[m].do = "check"
         \/ s.pc = 0
  BY DEF Goes, After
<1>2. /\ r.pc \in Nat /\ r.pc # 0 /\ Version(i) \in Versions /\ Len(r.program) \in Nat
      /\ At(i) = r.program[r.pc]
  BY RunningFacts DEF Program
<1>3. name' = name /\ Version(i)' = Version(i) /\ i \in Requests
  BY <1>1 DEF Keeps, Version
<1>4. Running(i)' => s.pc # 0
  BY DEF Running
<1>5. KeptSure(i)'
  <2> SUFFICES ASSUME Running(i)', NEW v \in Versions, request'[i].kept[v] # Absent PROVE Sure(v)'
    BY DEF KeptSure
  <2> QED
    BY <1>1, <1>4
<1>6. Vouched(i)'
  <2> SUFFICES ASSUME Running(i)', request'[i].end = "idle", PastVouch(request[i])'
               PROVE  Sure(Version(i))'
    BY DEF Vouched
  <2>1. PICK m \in 1..(s.pc - 1) : Vouches(name, r.program[m])
    BY <1>1, <1>3 DEF PastVouch
  <2>2. end = "idle" /\ s.pc \in (r.pc + 1)..Len(r.program)
    BY <1>1, <1>4
  <2>3. r.program[m].do # "check"
    BY <2>1 DEF Vouches
  <2>4. m \notin (r.pc + 1)..(s.pc - 1)
    BY <1>1, <1>4, <2>2, <2>3
  <2>5. m = r.pc \/ m \in 1..(r.pc - 1)
    BY <1>2, <2>1, <2>2, <2>4
  <2>6. CASE m = r.pc
    BY <1>2, <2>1, <2>2, <2>6
  <2>7. CASE m \in 1..(r.pc - 1)
    <3>1. PastVouch(r) /\ r.end = "idle"
      BY <2>1, <2>2, <2>7 DEF PastVouch
    <3>2. Sure(Version(i))
      BY <3>1 DEF FirstInv, Vouched
    <3> QED
      BY <1>2, <1>3, <3>2 DEF Sure
  <2> QED
    BY <2>5, <2>6, <2>7
<1> QED
  BY <1>5, <1>6

\* The other requests.
LEMMA FirstOthers ==
  ASSUME PackageTypeOK, Keeps, FirstFormat, FirstInv, NEW j \in Requests,
         \A v \in Versions : Sure(v) => Sure(v)', request'[j] = request[j]
  PROVE  KeptSure(j)' /\ Vouched(j)'
<1>1. /\ name' = name /\ (Running(j)' <=> Running(j)) /\ Version(j)' = Version(j)
      /\ PastVouch(request[j])' <=> PastVouch(request[j])
  BY DEF Keeps, Running, Version, PastVouch
<1>2. KeptSure(j) /\ Vouched(j)
  BY DEF FirstInv
<1>3. KeptSure(j)'
  BY <1>1, <1>2 DEF KeptSure
<1>4. Vouched(j)'
  <2> SUFFICES ASSUME Running(j)', request'[j].end = "idle", PastVouch(request[j])'
               PROVE  Sure(Version(j))'
    BY DEF Vouched
  <2>1. Sure(Version(j)) /\ Version(j) \in Versions
    BY <1>1, <1>2, RunningFacts DEF Vouched
  <2> QED
    BY <1>1, <2>1 DEF Sure
<1> QED
  BY <1>3, <1>4

\* The slots.
LEMMA FirstSlots ==
  ASSUME PackageTypeOK, Keeps, FirstFormat, FirstInv,
         \A v \in Versions : Sure(v) => Sure(v)',
         \A s \in Backed(name) \cap Slots[name], v \in Versions :
           tree'[s][v] # Absent => tree[s][v] # Absent \/ Sure(v) \/ Sure(v)'
  PROVE  BackedSure'
<1>1. name' = name
  BY DEF Keeps
<1>2. BackedSure
  BY DEF FirstInv
<1> SUFFICES ASSUME NEW s \in Backed(name) \cap Slots[name], NEW v \in Versions, tree'[s][v] # Absent
             PROVE  Sure(v)'
  BY <1>1 DEF BackedSure, Present
<1>3. tree[s][v] # Absent => Sure(v)
  BY <1>2 DEF BackedSure, Present
<1> QED
  BY <1>3

\* What a write leaves in the slots has its file, or got it by this write.
LEMMA FirstWrite ==
  ASSUME PackageTypeOK, Keeps, FirstFormat, FirstInv, NEW i \in Requests,
         NEW doc, LeavesDoc(i, doc)
  PROVE  /\ \A s \in Backed(name) \cap Slots[name], v \in Versions :
              tree'[s][v] # Absent => tree[s][v] # Absent \/ Sure(v) \/ Sure(v)'
         /\ Vouches(name, At(i)) => Sure(Version(i))'
<1>1. /\ Running(i) /\ At(i).do \in Changes /\ request[i].end = "idle"
      /\ At(i).at \in Slots[name] /\ doc \in Docs
      /\ tree' = [tree EXCEPT ![At(i).at] = doc]
      /\ \A u \in Versions : doc[u] \in {Absent, Written(i)[u]}
      /\ At(i).do = "write" => doc = Written(i)
  BY DEF LeavesDoc
<1>2. /\ At(i).at \in Slots[name] /\ Written(i) \in Docs
      /\ \A u \in Versions : Written(i)[u] # Absent =>
            \/ tree[At(i).at][u] # Absent \/ request[i].kept[u] # Absent
            \/ u = Version(i) /\ At(i).do \in {"write", "stream", "put"}
            \/ At(i).do = "enter"
            \/ At(i).do = "heal" /\ tree[At(i).by][u] # Absent
      /\ At(i).do = "write" => Written(i) = [tree[At(i).at] EXCEPT ![Version(i)] = Entry(i)]
  <2>1. At(i).do # "unlock"
    BY <1>1 DEF Changes
  <2>2. Takes(i, Changes)
    BY <1>1, <2>1 DEF Takes
  <2> QED
    BY <2>2, WrittenFacts
<1>3. name' = name /\ \A j \in Requests : KeptSure(j) /\ Vouched(j)
  BY DEF Keeps, FirstInv
<1>4. /\ tree'[At(i).at] = doc
      /\ \A t \in Slots[name] \ {At(i).at} : tree'[t] = tree[t]
  BY <1>1, <1>3, TreeTyped
<1>5. Version(i) \in Versions /\ i \in Begun /\ request[i].op # "none"
  BY <1>1, RunningFacts DEF Begun
<1>6. Version(i)' = Version(i) /\ File' = File
  BY <1>3, <1>5 DEF Keeps, Version, File
<1>7. ASSUME At(i).do = "write", At(i).at = File PROVE Sure(Version(i))'
  <2>1. tree[File] \in Docs
    BY <1>2, <1>7 DEF PackageTypeOK
  <2>2. tree'[File][Version(i)] = Entry(i)
    BY <1>1, <1>2, <1>4, <1>5, <1>7, <2>1 DEF Docs
  <2>3. tree'[File][Version(i)] # Absent
    BY <2>2, EntryFacts
  <2> QED
    BY <1>6, <2>3 DEF Sure, Present
<1>8. Vouches(name, At(i)) => Sure(Version(i))'
  <2>1. At(i).do # "need"
    BY <1>1 DEF Changes
  <2> QED
    BY <1>7, <2>1 DEF Vouches, File
<1>9. ASSUME NEW s \in Backed(name) \cap Slots[name], NEW v \in Versions, tree'[s][v] # Absent,
             s = At(i).at
      PROVE  tree[s][v] # Absent \/ Sure(v) \/ Sure(v)'
  <2>1. Written(i)[v] # Absent /\ At(i).at \in Backed(name)
    BY <1>1, <1>4, <1>9
  <2>2. request[i].kept[v] # Absent => Sure(v)
    BY <1>1, <1>3 DEF KeptSure
  <2>3. At(i).do # "enter"
    BY <1>1, <2>1, StepFirst
  <2>4. At(i).do = "heal" /\ tree[At(i).by][v] # Absent => Sure(v)
    <3> SUFFICES ASSUME At(i).do = "heal", tree[At(i).by][v] # Absent PROVE Sure(v)
      OBVIOUS
    <3>1. At(i).by \in Backed(name)
      BY <1>1, StepFirst
    <3>2. At(i).by \in Slots[name]
      BY <1>1, RunningFacts DEF SlotsOf
    <3> QED
      BY <3>1, <3>2 DEF FirstInv, BackedSure, Present
  <2>5. ASSUME At(i).do \in {"write", "stream", "put"}, v = Version(i) PROVE Sure(v) \/ Sure(v)'
    <3>1. At(i).at = File \/ Sweeps(i) \/ PastVouch(request[i])
      BY <1>1, <2>1, <2>5, StepFirst
    <3>2. CASE At(i).at = File
      <4>1. At(i).do = "write"
        BY <1>1, <2>5, <3>2, StepFirst
      <4> QED
        BY <1>6, <1>7, <2>5, <3>2, <4>1 DEF Sure
    <3>3. CASE Sweeps(i)
      BY <1>5, <3>3 DEF Removed, Sure
    <3>4. CASE PastVouch(request[i])
      BY <1>1, <1>3, <2>5, <3>4 DEF Vouched
    <3> QED
      BY <3>1, <3>2, <3>3, <3>4
  <2> QED
    BY <1>2, <1>9, <2>1, <2>2, <2>3, <2>4, <2>5
<1>10. \A s \in Backed(name) \cap Slots[name], v \in Versions :
         tree'[s][v] # Absent => tree[s][v] # Absent \/ Sure(v) \/ Sure(v)'
  BY <1>4, <1>9
<1> QED
  BY <1>8, <1>10

LEMMA FirstAdvance ==
  ASSUME PackageTypeOK, PackageTypeOK', Keeps, FirstFormat, FirstInv, NEW i \in Requests,
         AnyStep(i)
  PROVE  FirstInv'
<1> DEFINE v0 == Version(i)
<1>1. \A v \in Versions : Sure(v) => Sure(v)'
  BY SureStays
<1>2. /\ name' = name /\ \A j \in Requests : KeptSure(j) /\ Vouched(j)
      /\ BackedSure
  BY DEF Keeps, FirstInv
<1>a. ASSUME Others(i), KeptSure(i)' /\ Vouched(i)',
             \A s \in Backed(name) \cap Slots[name], v \in Versions :
               tree'[s][v] # Absent => tree[s][v] # Absent \/ Sure(v) \/ Sure(v)'
      PROVE  FirstInv'
  <2>1. \A j \in Requests \ {i} : KeptSure(j)' /\ Vouched(j)'
    BY <1>1, <1>a, FirstOthers DEF Others
  <2>2. BackedSure'
    BY <1>1, <1>a, FirstSlots
  <2> QED
    BY <1>a, <2>1, <2>2 DEF FirstInv
<1>b. ASSUME NEW end \in EndsOf, Running(i), Goes(i, end, request[i].kept),
             end = "idle" => request[i].end = "idle",
             end = "idle" /\ Vouches(name, At(i)) => Sure(Version(i))'
      PROVE  Others(i) /\ KeptSure(i)' /\ Vouched(i)'
  <2>1. request[i].kept \in Docs /\ \A v \in Versions : request[i].kept[v] # Absent => Sure(v)
    BY <1>2, <1>b, RunningFacts DEF KeptSure
  <2> QED
    BY <1>1, <1>b, <2>1, FirstGoes DEF Goes
<1>3. "idle" \in EndsOf /\ "failed" \in EndsOf
  BY DEF EndsOf
<1>4. ASSUME Running(i), NEW s \in Backed(name) \cap Slots[name], NEW v \in Versions,
             tree[s][v] # Absent
      PROVE  Sure(v)
  BY <1>2, <1>4 DEF BackedSure, Present
<1>5. ASSUME Running(i), At(i).do \in {"load", "fold", "scan"}, At(i).at \in Slots[name]
      PROVE  \A v \in Versions : tree[At(i).at][v] # Absent => Sure(v)
  BY <1>4, <1>5, StepFirst
<1>6. CASE Asking(i)
  <2>1. PICK end \in EndsOf :
          /\ Goes(i, end, request[i].kept)
          /\ end = "idle" => At(i).do \in Asks
          /\ end = "idle" /\ At(i).do \notin {"guard", "refuse"} => Passed(i)
    BY <1>6, AskingGoes
  <2>2. Running(i) /\ request[i].end = "idle" /\ tree' = tree
    BY <1>6, AskingGoes
  <2>3. ASSUME end = "idle", Vouches(name, At(i)) PROVE Sure(Version(i))'
    <3>1. At(i).do = "need" /\ At(i).by \subseteq Backed(name)
      BY <2>1, <2>3 DEF Vouches, Asks
    <3>2. PICK s \in At(i).by : Present(s, Version(i))
      BY <2>1, <2>3, <3>1 DEF Passed
    <3>3. SlotsOf(At(i)) \subseteq Slots[name] /\ Version(i) \in Versions
      BY <2>2, RunningFacts
    <3>4. s \in Slots[name]
      BY <3>1, <3>2, <3>3 DEF SlotsOf
    <3>5. Sure(Version(i))
      BY <1>4, <2>2, <3>1, <3>2, <3>3, <3>4 DEF Present
    <3>6. Version(i)' = Version(i)
      BY <2>1 DEF Goes, After, Version
    <3> QED
      BY <1>1, <3>3, <3>5, <3>6 DEF Sure
  <2>4. Others(i) /\ KeptSure(i)' /\ Vouched(i)'
    BY <1>b, <2>1, <2>2, <2>3
  <2> QED
    BY <1>a, <2>2, <2>4
<1>7. CASE Gather(i)
  <2>1. /\ Running(i) /\ At(i).do \in {"load", "fold"} /\ request[i].end = "idle"
        /\ At(i).at \in Slots[name] /\ tree' = tree
    BY <1>7, GatherGoes
  <2>2. PICK kept \in Docs :
          /\ Goes(i, "idle", kept)
          /\ \A u \in Versions : kept[u] \in {tree[At(i).at][u], request[i].kept[u]}
    BY <1>7, GatherGoes
  <2>3. \A v \in Versions : request[i].kept[v] # Absent => Sure(v)
    BY <1>2, <2>1 DEF KeptSure
  <2>4. \A v \in Versions : tree[At(i).at][v] # Absent => Sure(v)
    BY <1>5, <2>1
  <2>5. \A v \in Versions : kept[v] # Absent => Sure(v)
    BY <2>2, <2>3, <2>4
  <2>6. ~Vouches(name, At(i))
    BY <2>1 DEF Vouches
  <2>7. Others(i) /\ KeptSure(i)' /\ Vouched(i)'
    BY <1>1, <1>3, <2>1, <2>2, <2>5, <2>6, FirstGoes DEF Goes
  <2> QED
    BY <1>a, <2>1, <2>7
<1>8. CASE Change(i)
  <2>1. /\ Running(i) /\ At(i).do \in Changes /\ request[i].end = "idle" /\ Takes(i, Changes)
        /\ tree' = [tree EXCEPT ![At(i).at] = Written(i)]
        /\ Goes(i, "idle", request[i].kept)
    BY <1>8, ChangeGoes
  <2>2. LeavesDoc(i, Written(i))
    BY <1>8, ChangeLeaves
  <2>3. /\ \A t \in Backed(name) \cap Slots[name], v \in Versions :
             tree'[t][v] # Absent => tree[t][v] # Absent \/ Sure(v) \/ Sure(v)'
        /\ Vouches(name, At(i)) => Sure(Version(i))'
    BY <2>2, FirstWrite
  <2>4. Others(i) /\ KeptSure(i)' /\ Vouched(i)'
    BY <1>3, <1>b, <2>1, <2>3
  <2> QED
    BY <1>a, <2>3, <2>4
<1>9. CASE Repair(i)
  <2>1. /\ Running(i) /\ At(i).do = "scan" /\ request[i].end = "idle"
        /\ At(i).at \in Slots[name] /\ At(i).by \in Slots[name]
    BY <1>9, RepairGoes
  <2>2. PICK found \in Docs, metas \in Docs :
          /\ Goes(i, "idle", found)
          /\ tree' = [tree EXCEPT ![At(i).by] = metas]
          /\ \A u \in Versions :
               /\ found[u] # Absent => tree[At(i).at][u] # Absent
               /\ metas[u] # Absent => tree[At(i).at][u] # Absent \/ tree[At(i).by][u] # Absent
    BY <1>9, RepairGoes
  <2>3. \A v \in Versions : tree[At(i).at][v] # Absent => Sure(v)
    BY <1>5, <2>1
  <2>4. tree'[At(i).by] = metas /\ \A t \in Slots[name] \ {At(i).by} : tree'[t] = tree[t]
    BY <1>2, <2>1, <2>2, TreeTyped
  <2>5. ~Vouches(name, At(i))
    BY <2>1 DEF Vouches
  <2>6. Others(i) /\ KeptSure(i)' /\ Vouched(i)'
    BY <1>1, <1>3, <2>1, <2>2, <2>3, <2>5, FirstGoes DEF Goes
  <2>7. \A s \in Backed(name) \cap Slots[name], v \in Versions :
           tree'[s][v] # Absent => tree[s][v] # Absent \/ Sure(v) \/ Sure(v)'
    BY <2>2, <2>3, <2>4
  <2> QED
    BY <1>a, <2>6, <2>7
<1>10. CASE DeleteNext(i)
  <2>1. Running(i) /\ request' = request
    BY <1>10, DeleteNextGoes
  <2>2. PICK s \in Slots[name], doc \in Docs :
          /\ tree' = [tree EXCEPT ![s] = doc]
          /\ \A u \in Versions : doc[u] \in {Absent, tree[s][u]}
    BY <1>10, DeleteNextGoes
  <2>3. tree'[s] = doc /\ \A t \in Slots[name] \ {s} : tree'[t] = tree[t]
    BY <1>2, <2>2, TreeTyped
  <2>4. KeptSure(i)' /\ Vouched(i)' /\ Others(i)
    BY <1>1, <2>1, FirstOthers DEF Others, PackageTypeOK
  <2>5. \A t \in Backed(name) \cap Slots[name], v \in Versions :
           tree'[t][v] # Absent => tree[t][v] # Absent \/ Sure(v) \/ Sure(v)'
    BY <2>2, <2>3
  <2> QED
    BY <1>a, <2>4, <2>5
<1>11. CASE DeleteEnd(i)
  <2>1. PICK end \in {"idle", "failed"} : Goes(i, end, request[i].kept)
    BY <1>11, DeleteEndGoes
  <2>2. Running(i) /\ At(i).do = "tree" /\ request[i].end = "idle" /\ tree' = tree
    BY <1>11, DeleteEndGoes
  <2>3. ~Vouches(name, At(i))
    BY <2>2 DEF Vouches
  <2>4. Others(i) /\ KeptSure(i)' /\ Vouched(i)'
    BY <1>3, <1>b, <2>1, <2>2, <2>3
  <2> QED
    BY <1>a, <2>2, <2>4
<1>12. CASE Acquire(i)
  <2>1. /\ Running(i) /\ At(i).do = "lock" /\ request[i].end = "idle" /\ tree' = tree
        /\ Goes(i, "idle", request[i].kept)
    BY <1>12, AcquireGoes
  <2>2. ~Vouches(name, At(i))
    BY <2>1 DEF Vouches
  <2>3. Others(i) /\ KeptSure(i)' /\ Vouched(i)'
    BY <1>3, <1>b, <2>1, <2>2
  <2> QED
    BY <1>a, <2>1, <2>3
<1>13. CASE Release(i)
  <2>1. /\ Running(i) /\ At(i).do = "unlock" /\ tree' = tree
        /\ request[i].end \in EndsOf /\ Goes(i, request[i].end, request[i].kept)
    BY <1>13, ReleaseGoes
  <2>2. ~Vouches(name, At(i))
    BY <2>1 DEF Vouches
  <2>3. Others(i) /\ KeptSure(i)' /\ Vouched(i)'
    BY <1>b, <2>1, <2>2
  <2> QED
    BY <1>a, <2>1, <2>3
<1>14. CASE FailChange(i)
  <2>1. /\ Running(i) /\ At(i).do \in Changes /\ At(i).at \in Slots[name]
        /\ request[i].end = "idle"
        /\ \/ tree' = tree
           \/ tree' = [tree EXCEPT ![At(i).at] = [@ EXCEPT ![Version(i)] = Absent]]
        /\ \/ At(i).try /\ Goes(i, "idle", request[i].kept)
           \/ ~At(i).try /\ Goes(i, "failed", request[i].kept)
    BY <1>14, FailChangeGoes
  <2>2. At(i).try => ~Vouches(name, At(i))
    <3>1. At(i).do # "need"
      BY <2>1 DEF Changes
    <3> QED
      BY <3>1 DEF Vouches
  <2>3. Others(i) /\ KeptSure(i)' /\ Vouched(i)'
    <3>1. CASE At(i).try /\ Goes(i, "idle", request[i].kept)
      BY <1>3, <1>b, <2>1, <2>2, <3>1
    <3>2. CASE ~At(i).try /\ Goes(i, "failed", request[i].kept)
      BY <1>3, <1>b, <2>1, <3>2
    <3> QED
      BY <2>1, <3>1, <3>2
  <2>4. \A t \in Backed(name) \cap Slots[name], v \in Versions :
           tree'[t][v] # Absent => tree[t][v] # Absent \/ Sure(v) \/ Sure(v)'
    <3> DEFINE old == tree[At(i).at]
               doc == [old EXCEPT ![Version(i)] = Absent]
    <3>1. old \in Docs
      BY <2>1 DEF PackageTypeOK
    <3>2. doc \in Docs /\ \A v \in Versions : doc[v] # Absent => old[v] # Absent
      BY <3>1, EntryFacts DEF Docs
    <3>3. tree' = tree \/ tree' = [tree EXCEPT ![At(i).at] = doc]
      BY <2>1
    <3> HIDE DEF doc
    <3>4. CASE tree' = [tree EXCEPT ![At(i).at] = doc]
      <4>1. tree'[At(i).at] = doc /\ \A t \in Slots[name] \ {At(i).at} : tree'[t] = tree[t]
        BY <1>2, <2>1, <3>2, <3>4, TreeTyped
      <4> QED
        BY <3>2, <4>1
    <3> QED
      BY <3>3, <3>4
  <2> QED
    BY <1>a, <2>3, <2>4
<1>15. CASE FailDelete(i)
  <2>1. /\ Running(i) /\ tree' = tree /\ Others(i) /\ Stays(request[i], request'[i])
    BY <1>15, FailDeleteGoes
  <2>2. /\ Running(i)' <=> Running(i)
        /\ Version(i)' = Version(i) /\ Version(i) \in Versions
        /\ PastVouch(request[i])' <=> PastVouch(request[i])
        /\ request'[i].kept = request[i].kept /\ request'[i].end = request[i].end
    BY <1>2, <2>1, RunningFacts DEF Running, Version, PastVouch, Stays
  <2>3. KeptSure(i)'
    BY <1>1, <1>2, <2>2 DEF KeptSure
  <2>4. Vouched(i)'
    <3> SUFFICES ASSUME Running(i)', request'[i].end = "idle", PastVouch(request[i])'
                 PROVE  Sure(Version(i))'
      BY DEF Vouched
    <3>1. Sure(Version(i))
      BY <1>2, <2>2 DEF Vouched
    <3> QED
      BY <1>1, <2>2, <3>1 DEF Sure
  <2> QED
    BY <1>a, <2>1, <2>3, <2>4
<1>16. CASE CutOff(i)
  <2>1. /\ Running(i) /\ request[i].end = "idle" /\ Tear(i)
        /\ \/ At(i).try /\ Goes(i, "idle", request[i].kept)
           \/ ~At(i).try /\ Goes(i, "failed", request[i].kept)
    BY <1>16, CutOffGoes
  <2>2. PICK doc \in Docs : LeavesDoc(i, doc)
    BY <2>1, TearLeaves
  <2>3. /\ \A t \in Backed(name) \cap Slots[name], v \in Versions :
             tree'[t][v] # Absent => tree[t][v] # Absent \/ Sure(v) \/ Sure(v)'
        /\ Vouches(name, At(i)) => Sure(Version(i))'
    BY <2>2, FirstWrite
  <2>4. Others(i) /\ KeptSure(i)' /\ Vouched(i)'
    <3>1. CASE At(i).try /\ Goes(i, "idle", request[i].kept)
      BY <1>3, <1>b, <2>1, <2>3, <3>1
    <3>2. CASE ~At(i).try /\ Goes(i, "failed", request[i].kept)
      BY <1>3, <1>b, <2>1, <3>2
    <3> QED
      BY <2>1, <3>1, <3>2
  <2> QED
    BY <1>a, <2>3, <2>4
<1>17. CASE Misread(i)
  <2>1. /\ Running(i) /\ At(i).do \in {"load", "fold", "scan"} /\ request[i].end = "idle"
        /\ At(i).at \in Slots[name]
    BY <1>17, MisreadGoes
  <2>2. PICK kept \in Docs :
          /\ Goes(i, "idle", kept)
          /\ \/ /\ At(i).do # "scan" /\ tree' = tree
                /\ \A u \in Versions : kept[u] \in {Absent, tree[At(i).at][u], request[i].kept[u]}
             \/ /\ At(i).do = "scan" /\ At(i).by \in Slots[name]
                /\ \A u \in Versions : kept[u] # Absent => tree[At(i).at][u] # Absent
                /\ \E metas \in Docs :
                     /\ tree' = [tree EXCEPT ![At(i).by] = metas]
                     /\ \A u \in Versions :
                          metas[u] # Absent => tree[At(i).at][u] # Absent \/ tree[At(i).by][u] # Absent
    BY <1>17, MisreadGoes
  <2>3. \A v \in Versions : tree[At(i).at][v] # Absent => Sure(v)
    BY <1>5, <2>1
  <2>4. \A v \in Versions : request[i].kept[v] # Absent => Sure(v)
    BY <1>2, <2>1 DEF KeptSure
  <2>5. \A v \in Versions : kept[v] # Absent => Sure(v)
    BY <2>2, <2>3, <2>4
  <2>6. ~Vouches(name, At(i))
    BY <2>1 DEF Vouches
  <2>7. Others(i) /\ KeptSure(i)' /\ Vouched(i)'
    BY <1>1, <1>3, <2>1, <2>2, <2>5, <2>6, FirstGoes DEF Goes
  <2>8. \A s \in Backed(name) \cap Slots[name], v \in Versions :
           tree'[s][v] # Absent => tree[s][v] # Absent \/ Sure(v) \/ Sure(v)'
    <3>1. CASE tree' = tree
      BY <3>1
    <3>2. CASE At(i).at \in Slots[name] /\ At(i).by \in Slots[name] /\ tree' # tree
      <4>1. PICK metas \in Docs :
              /\ tree' = [tree EXCEPT ![At(i).by] = metas]
              /\ \A u \in Versions :
                   metas[u] # Absent => tree[At(i).at][u] # Absent \/ tree[At(i).by][u] # Absent
        BY <2>2, <3>2
      <4>2. tree'[At(i).by] = metas /\ \A t \in Slots[name] \ {At(i).by} : tree'[t] = tree[t]
        BY <1>2, <3>2, <4>1, TreeTyped
      <4> QED
        BY <2>3, <4>1, <4>2
    <3> QED
      BY <2>1, <2>2, <3>1, <3>2
  <2> QED
    BY <1>a, <2>7, <2>8
<1> QED
  BY <1>6, <1>7, <1>8, <1>9, <1>10, <1>11, <1>12, <1>13, <1>14, <1>15, <1>16, <1>17
  DEF AnyStep, StepOf, Advance, Asking

LEMMA FirstInit == Init => FirstInv
<1> SUFFICES ASSUME Init PROVE FirstInv
  OBVIOUS
<1>1. BackedSure
  <2>1. \A s \in Slots[name], v \in Versions : tree[s][v] = Absent
    BY DEF Init, Nothing
  <2> QED
    BY <2>1 DEF BackedSure, Present
<1>2. ASSUME NEW i \in Requests PROVE ~Running(i)
  <2>1. request[i].pc = 0
    BY IdleFields DEF Init
  <2> QED
    BY <2>1 DEF Running
<1> QED
  BY <1>1, <1>2 DEF FirstInv, KeptSure, Vouched

LEMMA FirstNext ==
  ASSUME PackageTypeOK, PackageTypeOK', Keeps, FirstInv, [Next]_vars
  PROVE  FirstInv'
<1>1. name' = name
  BY DEF Keeps
<1>2. FirstFormat' <=> FirstFormat
  BY <1>1 DEF FirstFormat, File
<1>3. CASE ~FirstFormat
  BY <1>2, <1>3 DEF FirstInv
<1>4. ASSUME FirstFormat, tree' = tree,
             \A j \in Requests : request'[j] = request[j] \/ ~Running(j)' \/
               (request'[j].kept = Nothing /\ ~PastVouch(request[j])')
      PROVE  FirstInv'
  <2>1. \A v \in Versions : Sure(v) => Sure(v)'
    BY <1>1, <1>4, RemovedStays DEF Sure, Present, File
  <2>2. BackedSure'
    BY <1>4, <2>1, FirstSlots
  <2>3. ASSUME NEW j \in Requests PROVE KeptSure(j)' /\ Vouched(j)'
    <3>1. CASE request'[j] = request[j]
      BY <1>4, <2>1, <3>1, FirstOthers
    <3>2. CASE ~Running(j)'
      BY <3>2 DEF KeptSure, Vouched
    <3>3. CASE request'[j].kept = Nothing /\ ~PastVouch(request[j])'
      BY <3>3 DEF KeptSure, Vouched, Nothing
    <3> QED
      BY <1>4, <3>1, <3>2, <3>3
  <2> QED
    BY <2>2, <2>3 DEF FirstInv
<1>5. ASSUME FirstFormat, NEW i \in Requests, MayBegin(i), NEW op \in Operations, NEW v \in Versions,
             NEW program \in Programs(name, op), Begin(i, op, program, v)
      PROVE  FirstInv'
  <2>1. Others(i) /\ tree' = tree /\ Started(name, request'[i], op, program, v, object)
    BY <1>5, BeginGoes
  <2>2. ~PastVouch(request[i])'
    <3>1. ASSUME NEW m \in 1..(request'[i].pc - 1) PROVE ~Vouches(name, program[m])
      BY <2>1 DEF Started, Vouches
    <3> QED
      BY <1>1, <2>1, <3>1 DEF PastVouch, Started
  <2>3. request'[i].kept = Nothing
    BY <2>1 DEF Started
  <2> QED
    BY <1>4, <1>5, <2>1, <2>2, <2>3 DEF Others
<1>6. ASSUME FirstFormat, NEW i \in Requests, AnyStep(i)
      PROVE  FirstInv'
  BY <1>6, FirstAdvance
<1>7. ASSUME FirstFormat, Crash PROVE FirstInv'
  <2>1. \A j \in Requests : request'[j] = request[j] \/ ~Running(j)'
    <3>1. \A j \in Requests : request'[j] = request[j] \/ request'[j].pc = 0
      BY <1>7, CrashGoes
    <3> QED
      BY <3>1 DEF Running
  <2>2. CASE tree' = tree
    BY <1>4, <1>7, <2>1, <2>2
  <2>3. ASSUME NEW i \in Requests, Tear(i) PROVE FirstInv'
    <3>1. PICK doc \in Docs : LeavesDoc(i, doc)
      BY <2>3, TearLeaves
    <3>2. \A v \in Versions : Sure(v) => Sure(v)'
      BY <1>1, <1>7, <3>1, RemovedStays, SureWritten DEF Sure
    <3>3. BackedSure'
      BY <1>7, <3>1, <3>2, FirstSlots, FirstWrite
    <3>4. ASSUME NEW j \in Requests PROVE KeptSure(j)' /\ Vouched(j)'
      <4>1. CASE request'[j] = request[j]
        BY <1>7, <3>2, <4>1, FirstOthers
      <4>2. CASE ~Running(j)'
        BY <4>2 DEF KeptSure, Vouched
      <4> QED
        BY <2>1, <4>1, <4>2
    <3> QED
      BY <3>3, <3>4 DEF FirstInv
  <2> QED
    BY <1>7, <2>2, <2>3, CrashTree
<1>8. ASSUME FirstFormat, Reload \/ Done \/ UNCHANGED vars PROVE FirstInv'
  <2>1. tree' = tree /\ request' = request
    BY <1>8 DEF Reload, Done, vars
  <2> QED
    BY <1>4, <1>8, <2>1
<1>9. ASSUME FirstFormat, NEW i \in Requests,
             CutOff(i) \/ Mislead(i) \/ Misread(i) \/
               Advance(i) \/ FailChange(i) \/ FailDelete(i) \/ FailRead(i)
      PROVE  FirstInv'
  BY <1>6, <1>9 DEF AnyStep, StepOf
<1> QED
  BY <1>3, <1>5, <1>7, <1>8, <1>9, Zenon DEF Next

LEMMA FirstListed ==
  ASSUME PackageTypeOK, FirstInv
  PROVE  ListedResolves
<1> SUFFICES ASSUME name \notin EntryFirst, NEW v \in Versions, ~Present(File, v),
                    NEW s \in Listings, Listed(s, v)
             PROVE  Removed(v)
  BY DEF ListedResolves
<1>1. PICK t \in ListedFrom(name) : Present(t, v)
  <2>1. Listings = Formats[name].client
    BY DEF Listings
  <2>2. CASE "found" \in DOMAIN Formats[name]
    <3>1. ListedFrom(name) = Formats[name].found
      BY <2>2, Zenon DEF ListedFrom
    <3>2. \E t \in Formats[name].found : Present(t, v)
      BY <2>2, Zenon DEF Listed
    <3> QED
      BY <3>1, <3>2, Zenon
  <2>3. CASE "found" \notin DOMAIN Formats[name]
    <3>1. ListedFrom(name) = Formats[name].client
      BY <2>3, Zenon DEF ListedFrom
    <3>2. Present(s, v)
      BY <2>3, Zenon DEF Listed
    <3> QED
      BY <2>1, <3>1, <3>2, Zenon
  <2> QED
    BY <2>2, <2>3
<1>2. FirstFormat
  BY <1>1 DEF FirstFormat
<1>3. t \in Backed(name) /\ t \in Slots[name]
  <2> DEFINE B == {u \in Slots[name] : \E o \in Operations : \E q \in Programs(name, o) :
                     \E j \in DOMAIN q : Reads(q[j], u)}
  <2>1. Backed(name) = ListedFrom(name) \cup B
    BY Zenon DEF Backed
  <2> HIDE DEF B
  <2>2. t \in Backed(name)
    BY <1>1, <2>1
  <2>3. name \in Names
    BY DEF PackageTypeOK
  <2>4. ListedFrom(name) \subseteq Slots[name]
    BY <2>3, Following, Zenon DEF Follows
  <2> QED
    BY <1>1, <2>2, <2>4
<1>4. Sure(v)
  BY <1>1, <1>2, <1>3 DEF FirstInv, BackedSure
<1> QED
  BY <1>4 DEF Sure

\* A listed version has its file, unless a removal of it began: at every moment,
\* for every format but those that write the entry first, whatever requests
\* overlap and wherever one fails or the process crashes.
THEOREM ListedResolvesAlways == Spec => []ListedResolves
<1> DEFINE Inv == PackageTypeOK /\ FirstInv
<1>1. Init => Inv
  BY TypeInit, FirstInit
<1>2. Inv /\ [Next]_vars => Inv'
  BY TypeNext, FirstNext
<1>3. Inv => ListedResolves
  BY FirstListed
<1> QED
  BY <1>1, <1>2, <1>3, PTL DEF Spec

-----------------------------------------------------------------------------
(***************************************************************************)
(* Immutable versions. What a request has behind it, when the steps between*)
(* two of its positions are checks of its input.                           *)
(***************************************************************************)
LEMMA Behind ==
  ASSUME NEW p, NEW k \in Nat, k # 0, NEW l \in Nat, k < l,
         \A m \in (k + 1)..(l - 1) : p[m].do = "check"
  PROVE  /\ Locked(p, l) => p[k].do = "lock" \/ (Locked(p, k) /\ p[k].do # "unlock")
         /\ \A n : Asked(n, p, l) =>
              Asked(n, p, k) \/ (p[k].do \in {"guard", "refuse"} /\ p[k].at \in Guards(n))
         /\ \A s : Loaded(p, l, s) =>
              \/ p[k].do = "load" /\ p[k].at = s
              \/ Loaded(p, k, s) /\ p[k].do \notin {"load", "fold", "scan", "lock", "unlock"}
         /\ \A s : Wrote(p, l, s) =>
              \/ p[k].do \in {"write", "put"} /\ p[k].at = s /\ ~p[k].try
              \/ Wrote(p, k, s)
<1>1. \A m \in 1..(l - 1) : p[m].do # "check" => m = k \/ m \in 1..(k - 1)
  OBVIOUS
<1>2. Locked(p, l) => p[k].do = "lock" \/ (Locked(p, k) /\ p[k].do # "unlock")
  <2> SUFFICES ASSUME NEW m \in 1..(l - 1), p[m].do = "lock", p[k].do # "lock",
                      \A q \in (m + 1)..(l - 1) : p[q].do # "unlock"
               PROVE  Locked(p, k) /\ p[k].do # "unlock"
    BY DEF Locked
  <2>1. m \in 1..(k - 1)
    BY <1>1
  <2>2. k \in (m + 1)..(l - 1) /\ \A q \in (m + 1)..(k - 1) : q \in (m + 1)..(l - 1)
    BY <2>1
  <2> QED
    BY <2>1, <2>2 DEF Locked
<1>3. ASSUME NEW n, Asked(n, p, l)
      PROVE  Asked(n, p, k) \/ (p[k].do \in {"guard", "refuse"} /\ p[k].at \in Guards(n))
  BY <1>1, <1>3 DEF Asked
<1>4. ASSUME NEW s, Loaded(p, l, s)
      PROVE  \/ p[k].do = "load" /\ p[k].at = s
             \/ Loaded(p, k, s) /\ p[k].do \notin {"load", "fold", "scan", "lock", "unlock"}
  <2>1. PICK m \in 1..(l - 1) :
          /\ p[m].do = "load" /\ p[m].at = s
          /\ \A q \in (m + 1)..(l - 1) : p[q].do \notin {"load", "fold", "scan", "lock", "unlock"}
    BY <1>4 DEF Loaded
  <2>2. CASE m = k
    BY <2>1, <2>2
  <2>3. CASE m # k
    <3>1. m \in 1..(k - 1)
      BY <1>1, <2>1, <2>3
    <3>2. k \in (m + 1)..(l - 1) /\ \A q \in (m + 1)..(k - 1) : q \in (m + 1)..(l - 1)
      BY <3>1
    <3> QED
      BY <2>1, <3>1, <3>2 DEF Loaded
  <2> QED
    BY <2>2, <2>3
<1>5. ASSUME NEW s, Wrote(p, l, s)
      PROVE  \/ p[k].do \in {"write", "put"} /\ p[k].at = s /\ ~p[k].try
             \/ Wrote(p, k, s)
  <2>1. PICK m \in 1..(l - 1) :
          /\ p[m].do \in {"write", "put"} /\ p[m].at = s /\ ~p[m].try
          /\ \A q \in (m + 1)..l : q \in DOMAIN p => ~Clears(p[q], s)
    BY <1>5 DEF Wrote
  <2>2. CASE m = k
    BY <2>1, <2>2
  <2>3. CASE m # k
    <3>1. m \in 1..(k - 1)
      BY <1>1, <2>1, <2>3
    <3>2. \A q \in (m + 1)..k : q \in (m + 1)..l
      BY <3>1
    <3> QED
      BY <2>1, <3>1, <3>2 DEF Wrote
  <2> QED
    BY <2>2, <2>3
<1> QED
  BY <1>2, <1>3, <1>4, <1>5

\* Requests that hold the mutex, or are the only one that runs.
InRegion(i) ==
  Running(i) /\ request[i].end = "idle" /\ (shared => Locked(Program(i), request[i].pc))
TheMutex == IF name \in RepositoryMutex THEN 0 ELSE 1
RunsAlone == ~shared => \A i, j \in Requests : Running(i) /\ Running(j) => i = j
Objects == \A i \in Requests : request[i].op # "none" => request[i].object \in 1..object
Policy == immutable /\ shared => name \in GuardedWithin
Holds == shared /\ OneMutex => \A i \in Requests : InRegion(i) => mutex[TheMutex] = i
AloneInv == RunsAlone /\ Objects /\ Policy /\ Holds

LEMMA OneInRegion ==
  ASSUME AloneInv, OneMutex, NEW i \in Requests, NEW j \in Requests,
         InRegion(i), InRegion(j)
  PROVE  i = j
BY DEF AloneInv, RunsAlone, Holds, InRegion

\* Where the request is after a step.
LEMMA RegionGoes ==
  ASSUME PackageTypeOK, Keeps, shared' = shared, NEW i \in Requests, Running(i),
         NEW end, NEW kept, Goes(i, end, kept), end = "idle" => request[i].end = "idle",
         InRegion(i)'
  PROVE  \/ At(i).do = "lock"
         \/ InRegion(i) /\ (shared => At(i).do # "unlock")
<1> DEFINE r == request[i]
           s == request'[i]
<1>1. /\ s.program = r.program
      /\ \/ /\ s.pc \in (r.pc + 1)..Len(r.program) /\ s.pc # 0 /\ s.end = end
            /\ end = "idle" => \A m \in (r.pc + 1)..(s.pc - 1) : r.program[m].do = "check"
         \/ s.pc = 0
  BY DEF Goes, After
<1>2. r.pc \in Nat /\ r.pc # 0 /\ At(i) = r.program[r.pc] /\ Len(r.program) \in Nat
  BY RunningFacts DEF Program
<1>3. s.pc # 0 /\ s.end = "idle" /\ (shared => Locked(r.program, s.pc))
  BY <1>1 DEF InRegion, Running, Program
<1>5. s.pc \in Nat /\ r.pc < s.pc /\ end = "idle" /\ r.end = "idle"
      /\ \A m \in (r.pc + 1)..(s.pc - 1) : r.program[m].do = "check"
  BY <1>1, <1>2, <1>3
<1>6. Locked(r.program, s.pc) =>
        At(i).do = "lock" \/ (Locked(r.program, r.pc) /\ At(i).do # "unlock")
  BY <1>2, <1>5, Behind
<1>7. CASE shared
  BY <1>3, <1>5, <1>6, <1>7 DEF InRegion, Program
<1>8. CASE ~shared
  BY <1>5, <1>8 DEF InRegion
<1> QED
  BY <1>7, <1>8

\* What a step may do where versions are immutable.
LEMMA GuardedStep ==
  ASSUME PackageTypeOK, AloneInv, name \notin Unguarded, NEW i \in Requests, Running(i)
  PROVE  LET p == Program(i)
             k == request[i].pc
             op == request[i].op
         IN /\ At(i).do \in Changes /\ At(i).at \in Watched(name) => GuardedChange(name, op, p, k)
            /\ (\E s \in Watched(name) : Clears(At(i), s)) =>
                 \/ Sweeps(i)
                 \/ /\ At(i).at = "version"
                    /\ op \in Removals \/ (op \in Publications /\ Asked(name, p, k))
            /\ At(i).do = "scan" => At(i).by \notin Watched(name)
            /\ op \in Publications /\ Asked(name, p, k) => Within(name, p, k)
            /\ op \in Publications /\ At(i).do \in {"unless", "known", "last"} =>
                 \A s \in Watched(name) : Wrote(p, k, s)
            /\ op \in Publications => \A s \in Watched(name) : Wrote(p, Len(p) + 1, s)
            /\ \A m \in DOMAIN p :
                 p[m].do \in Changes /\ p[m].at \in Watched(name) => GuardedChange(name, op, p, m)
<1> DEFINE p == Program(i)
           k == request[i].pc
           op == request[i].op
<1>1. /\ name \in Names /\ op \in Operations /\ p \in Programs(name, op) /\ k \in DOMAIN p
      /\ At(i) = p[k]
  BY RunningFacts
<1>2. GuardedOnce(name, op, p)
  BY <1>1, Following, Zenon DEF Follows
<1>3. SweepsAll(name, p) => Sweeps(i)
  BY Zenon DEF SweepsAll, Sweeps, File
<1>4. \A m \in DOMAIN p :
        p[m].do \in Changes /\ p[m].at \in Watched(name) => GuardedChange(name, op, p, m)
  BY <1>2, Zenon DEF GuardedOnce
<1>5. /\ (\E s \in Watched(name) : Clears(p[k], s)) =>
            \/ SweepsAll(name, p)
            \/ /\ p[k].at = "version"
               /\ op \in Removals \/ (op \in Publications /\ Asked(name, p, k))
      /\ p[k].do = "scan" => p[k].by \notin Watched(name)
      /\ op \in Publications /\ Asked(name, p, k) => Within(name, p, k)
      /\ op \in Publications /\ p[k].do \in {"unless", "known", "last"} =>
            \A s \in Watched(name) : Wrote(p, k, s)
  BY <1>1, <1>2, Zenon DEF GuardedOnce
<1>6. op \in Publications => \A s \in Watched(name) : Wrote(p, Len(p) + 1, s)
  BY <1>2, Zenon DEF GuardedOnce
<1> QED
  BY <1>1, <1>3, <1>4, <1>5, <1>6

\* Which mutex a request takes.
LEMMA LockStep ==
  ASSUME PackageTypeOK, NEW i \in Requests, Running(i), At(i).do = "lock"
  PROVE  At(i).at = IF name \in RepositoryMutex THEN "repository" ELSE "object"
<1>1. /\ name \in Names /\ request[i].op \in Operations /\ Program(i) \in Programs(name, request[i].op)
      /\ request[i].pc \in DOMAIN Program(i) /\ At(i) = Program(i)[request[i].pc]
  BY RunningFacts
<1>2. \A k \in DOMAIN Program(i) :
        Program(i)[k].do = "lock" =>
          Program(i)[k].at = IF name \in RepositoryMutex THEN "repository" ELSE "object"
  BY <1>1, Following, Zenon DEF Follows
<1> QED
  BY <1>1, <1>2

\* No request begins to run but by its beginning.
LEMMA StillRuns ==
  ASSUME PackageTypeOK, NEW i \in Requests, Running(i), Others(i), NEW j \in Requests, Running(j)'
  PROVE  Running(j)
BY DEF Others, Running

\* Of a step, all that matters to the mutex.
LEMMA AloneKept ==
  ASSUME PackageTypeOK, PackageTypeOK', Keeps, AloneInv,
         UNCHANGED <<immutable, shared>>, object' \in Nat, object <= object',
         \A i \in Requests : Running(i)' => Running(i),
         \A i \in Requests : request[i].op = "none" => request'[i].op = "none",
         shared /\ OneMutex =>
           \A i \in Requests : InRegion(i)' => mutex'[TheMutex] = i
  PROVE  AloneInv'
<1>1. RunsAlone'
  BY DEF AloneInv, RunsAlone
<1>2. object \in Nat /\ 1 <= object
  BY PackageStoreAssumption DEF PackageTypeOK
<1>3. Objects'
  <2> SUFFICES ASSUME NEW i \in Requests, request'[i].op # "none"
               PROVE  request'[i].object \in 1..object'
    BY DEF Objects
  <2>1. request[i].op # "none"
    OBVIOUS
  <2>2. request'[i].object = request[i].object /\ request[i].object \in 1..object
    BY <2>1 DEF Keeps, AloneInv, Objects
  <2> QED
    BY <1>2, <2>2
<1>4. Policy'
  BY DEF AloneInv, Policy, Keeps
<1>5. OneMutex' => OneMutex
  BY <1>2 DEF OneMutex, Keeps
<1>6. TheMutex' = TheMutex
  BY DEF TheMutex, Keeps
<1>7. Holds'
  BY <1>5, <1>6 DEF Holds
<1> QED
  BY <1>1, <1>3, <1>4, <1>7 DEF AloneInv

\* A step that neither takes nor gives back the mutex.
LEMMA AlonePlain ==
  ASSUME PackageTypeOK, PackageTypeOK', Keeps, AloneInv, NEW i \in Requests, Running(i),
         UNCHANGED <<immutable, shared, object, mutex>>, At(i).do # "lock",
         NEW end, NEW kept, Goes(i, end, kept), end = "idle" => request[i].end = "idle"
  PROVE  AloneInv'
<1>1. Others(i)
  BY DEF Goes
<1>2. \A j \in Requests : Running(j)' => Running(j)
  BY <1>1, StillRuns
<1>3. \A j \in Requests : request[j].op = "none" => request'[j].op = "none"
  BY <1>1, RunningFacts DEF Others
<1>4. ASSUME NEW j \in Requests, InRegion(j)' PROVE InRegion(j)
  <2>1. CASE j = i
    BY <1>4, <2>1, RegionGoes
  <2>2. CASE j # i
    BY <1>1, <1>4, <2>2 DEF Others, InRegion, Running, Program
  <2> QED
    BY <2>1, <2>2
<1>5. object \in Nat
  BY PackageStoreAssumption DEF PackageTypeOK
<1>6. shared /\ OneMutex =>
        \A j \in Requests : InRegion(j)' => mutex'[TheMutex] = j
  BY <1>4 DEF AloneInv, Holds
<1> QED
  BY <1>2, <1>3, <1>5, <1>6, AloneKept

LEMMA AloneAdvance ==
  ASSUME PackageTypeOK, PackageTypeOK', Keeps, AloneInv, NEW i \in Requests,
         AnyStep(i)
  PROVE  AloneInv'
<1>0. object \in Nat
  BY PackageStoreAssumption DEF PackageTypeOK
<1>1. CASE Asking(i)
  <2>1. /\ Running(i) /\ At(i).do \in Asks \cup ReadSteps /\ request[i].end = "idle"
        /\ UNCHANGED <<name, immutable, shared, object, tree, mutex>>
    BY <1>1, AskingGoes
  <2>2. PICK end \in EndsOf : Goes(i, end, request[i].kept)
    BY <1>1, AskingGoes
  <2>3. At(i).do # "lock"
    BY <2>1 DEF Asks, ReadSteps
  <2> QED
    BY <2>1, <2>2, <2>3, AlonePlain
<1>2. CASE Gather(i)
  <2>1. /\ Running(i) /\ At(i).do # "lock" /\ request[i].end = "idle"
        /\ UNCHANGED <<name, immutable, shared, object, tree, mutex, faults>>
    BY <1>2, GatherGoes
  <2>2. PICK kept \in Docs : Goes(i, "idle", kept)
    BY <1>2, GatherGoes
  <2> QED
    BY <2>1, <2>2, AlonePlain
<1>3. CASE Change(i)
  <2>1. /\ Running(i) /\ At(i).do \in Changes /\ request[i].end = "idle"
        /\ UNCHANGED <<name, immutable, shared, object, mutex, faults>>
        /\ Goes(i, "idle", request[i].kept)
    BY <1>3, ChangeGoes
  <2>2. At(i).do # "lock"
    BY <2>1 DEF Changes
  <2> QED
    BY <2>1, <2>2, AlonePlain
<1>4. CASE Repair(i)
  <2>1. /\ Running(i) /\ At(i).do # "lock" /\ request[i].end = "idle"
        /\ UNCHANGED <<name, immutable, shared, object, mutex, faults>>
    BY <1>4, RepairGoes
  <2>2. PICK found \in Docs : Goes(i, "idle", found)
    BY <1>4, RepairGoes
  <2> QED
    BY <2>1, <2>2, AlonePlain
<1>5. CASE DeleteEnd(i)
  <2>1. /\ Running(i) /\ At(i).do # "lock" /\ request[i].end = "idle"
        /\ UNCHANGED <<name, immutable, shared, object, tree, mutex, faults>>
    BY <1>5, DeleteEndGoes
  <2>2. PICK end \in {"idle", "failed"} : Goes(i, end, request[i].kept)
    BY <1>5, DeleteEndGoes
  <2> QED
    BY <2>1, <2>2, AlonePlain
<1>6. CASE FailChange(i)
  <2>1. /\ Running(i) /\ At(i).do \in Changes /\ request[i].end = "idle"
        /\ UNCHANGED <<name, immutable, shared, object, mutex>>
        /\ Goes(i, "idle", request[i].kept) \/ Goes(i, "failed", request[i].kept)
    BY <1>6, FailChangeGoes
  <2>2. At(i).do # "lock"
    BY <2>1 DEF Changes
  <2> QED
    BY <2>1, <2>2, AlonePlain
<1>7. CASE DeleteNext(i) \/ FailDelete(i)
  <2>1. /\ Running(i) /\ UNCHANGED <<name, immutable, shared, object, mutex>>
        /\ Others(i) /\ (request'[i] = request[i] \/ Stays(request[i], request'[i]))
    BY <1>7, DeleteNextGoes, FailDeleteGoes DEF Others, PackageTypeOK
  <2>2. \A j \in Requests : Running(j)' => Running(j)
    BY <2>1, StillRuns
  <2>3. \A j \in Requests : request[j].op = "none" => request'[j].op = "none"
    BY <2>1, RunningFacts DEF Others
  <2>4. \A j \in Requests : InRegion(j)' => InRegion(j)
    BY <2>1 DEF Others, Stays, InRegion, Running, Program
  <2>5. shared /\ OneMutex =>
          \A j \in Requests : InRegion(j)' => mutex'[TheMutex] = j
    BY <2>1, <2>4 DEF AloneInv, Holds
  <2> QED
    BY <1>0, <2>1, <2>2, <2>3, <2>5, AloneKept
<1>8. CASE Acquire(i)
  <2>1. /\ Running(i) /\ At(i).do = "lock" /\ request[i].end = "idle"
        /\ UNCHANGED <<name, immutable, shared, object, tree, faults>>
        /\ mutex[Mutex(i)] = 0 /\ Mutex(i) \in ObjectsOf
        /\ mutex' = [mutex EXCEPT ![Mutex(i)] = i]
        /\ Goes(i, "idle", request[i].kept)
    BY <1>8, AcquireGoes
  <2>2. Others(i) /\ \A j \in Requests : Running(j)' => Running(j)
    BY <2>1, StillRuns DEF Goes
  <2>3. \A j \in Requests : request[j].op = "none" => request'[j].op = "none"
    BY <2>1, <2>2, RunningFacts DEF Others
  <2>4. ASSUME shared, OneMutex, NEW j \in Requests, InRegion(j)'
        PROVE  mutex'[TheMutex] = j
    <3>2. At(i).at = IF name \in RepositoryMutex THEN "repository" ELSE "object"
      BY <2>1, LockStep
    <3>3. Mutex(i) = TheMutex
      <4>1. CASE name \in RepositoryMutex
        BY <3>2, <4>1 DEF Mutex, TheMutex
      <4>2. CASE name \notin RepositoryMutex
        <5>1. object = 1
          BY <2>4, <4>2 DEF OneMutex
        <5>2. request[i].op # "none"
          BY <2>1, RunningFacts
        <5>3. request[i].object = 1
          BY <5>1, <5>2 DEF AloneInv, Objects
        <5> QED
          BY <3>2, <4>2, <5>3 DEF Mutex, TheMutex
      <4> QED
        BY <4>1, <4>2
    <3>4. mutex'[TheMutex] = i
      BY <2>1, <3>3 DEF PackageTypeOK
    <3>5. ASSUME j # i PROVE FALSE
      <4>1. InRegion(j)
        BY <2>1, <2>2, <2>4, <3>5 DEF Others, InRegion, Running, Program
      <4>2. mutex[TheMutex] = j
        BY <2>4, <4>1 DEF AloneInv, Holds
      <4> QED
        BY <2>1, <3>3, <4>2, RequestsNat
    <3> QED
      BY <3>4, <3>5
  <2> QED
    BY <1>0, <2>1, <2>2, <2>3, <2>4, AloneKept
<1>9. CASE Release(i)
  <2>1. /\ Running(i) /\ At(i).do = "unlock"
        /\ UNCHANGED <<name, immutable, shared, object, tree, faults>>
        /\ Mutex(i) \in ObjectsOf
        /\ \A l \in ObjectsOf : mutex'[l] = IF l = Mutex(i) /\ mutex[l] = i THEN 0 ELSE mutex[l]
        /\ Goes(i, request[i].end, request[i].kept)
    BY <1>9, ReleaseGoes
  <2>2. Others(i) /\ \A j \in Requests : Running(j)' => Running(j)
    BY <2>1, StillRuns DEF Goes
  <2>3. \A j \in Requests : request[j].op = "none" => request'[j].op = "none"
    BY <2>1, <2>2, RunningFacts DEF Others
  <2>4. ASSUME shared, OneMutex, NEW j \in Requests, InRegion(j)'
        PROVE  mutex'[TheMutex] = j
    <3>1. j # i
      BY <2>1, <2>4, RegionGoes
    <3>2. InRegion(j)
      BY <2>1, <2>2, <2>4, <3>1 DEF Others, InRegion, Running, Program
    <3>3. mutex[TheMutex] = j
      BY <2>4, <3>2 DEF AloneInv, Holds
    <3>4. TheMutex \in ObjectsOf
      BY PackageStoreAssumption DEF TheMutex, ObjectsOf
    <3> QED
      BY <2>1, <3>1, <3>3, <3>4
  <2> QED
    BY <1>0, <2>1, <2>2, <2>3, <2>4, AloneKept
<1>10. CASE CutOff(i) \/ Misread(i)
  <2>1. /\ Running(i) /\ At(i).do # "lock" /\ request[i].end = "idle"
        /\ UNCHANGED <<immutable, shared, object, mutex>>
        /\ \E end, kept : Goes(i, end, kept)
    <3>1. CASE CutOff(i)
      <4>1. /\ Running(i) /\ At(i).do \in Changes /\ request[i].end = "idle"
            /\ UNCHANGED <<immutable, shared, object, mutex>>
            /\ \E end, kept : Goes(i, end, kept)
        BY <3>1, CutOffGoes
      <4> QED
        BY <4>1 DEF Changes
    <3>2. CASE Misread(i)
      <4>1. /\ Running(i) /\ At(i).do \in {"load", "fold", "scan"} /\ request[i].end = "idle"
            /\ UNCHANGED <<immutable, shared, object, mutex>>
            /\ \E end, kept : Goes(i, end, kept)
        BY <3>2, MisreadGoes
      <4> QED
        BY <4>1
    <3> QED
      BY <1>10, <3>1, <3>2
  <2> QED
    BY <2>1, AlonePlain
<1> QED
  BY <1>1, <1>2, <1>3, <1>4, <1>5, <1>6, <1>7, <1>8, <1>9, <1>10 DEF AnyStep, StepOf, Advance, Asking

LEMMA AloneInit == Init => AloneInv
<1> SUFFICES ASSUME Init PROVE AloneInv
  OBVIOUS
<1>1. \A i \in Requests : ~Running(i) /\ request[i].op = "none"
  BY IdleFields DEF Init, Running
<1>2. Policy
  BY DEF Init, Policy
<1> QED
  BY <1>1, <1>2 DEF AloneInv, RunsAlone, Objects, Holds, InRegion

LEMMA AloneNext ==
  ASSUME PackageTypeOK, PackageTypeOK', Keeps, AloneInv, [Next]_vars
  PROVE  AloneInv'
<1>0. object \in Nat
  BY PackageStoreAssumption DEF PackageTypeOK
<1>1. ASSUME NEW i \in Requests, MayBegin(i), NEW op \in Operations, NEW v \in Versions,
             NEW program \in Programs(name, op), Begin(i, op, program, v)
      PROVE  AloneInv'
  <2>1. /\ ~Running(i) /\ UNCHANGED <<name, immutable, shared, tree, object, mutex, faults>>
        /\ Others(i) /\ Started(name, request'[i], op, program, v, object)
    BY <1>1, BeginGoes
  <2>2. RunsAlone'
    <3>1. ~shared => Quiet
      BY <1>1 DEF MayBegin
    <3>2. ~shared => \A j \in Requests \ {i} : ~Running(j)'
      BY <2>1, <3>1 DEF Quiet, Others, Running
    <3> QED
      BY <2>1, <3>2 DEF RunsAlone
  <2>3. Objects'
    <3>1. request'[i].object \in 1..object
      BY <1>0, <2>1 DEF Started, PackageTypeOK
    <3>2. \A j \in Requests \ {i} : request'[j] = request[j]
      BY <2>1 DEF Others
    <3> QED
      BY <2>1, <3>1, <3>2 DEF AloneInv, Objects
  <2>4. Policy'
    BY <2>1 DEF AloneInv, Policy
  <2>5. Holds'
    <3>1. ASSUME shared PROVE ~InRegion(i)'
      <4>1. ~Locked(program, request'[i].pc)
        BY <2>1 DEF Started, Locked
      <4> QED
        BY <2>1, <3>1, <4>1 DEF Started, InRegion, Program
    <3>2. \A j \in Requests \ {i} : InRegion(j)' => InRegion(j)
      BY <2>1 DEF Others, InRegion, Running, Program
    <3>3. OneMutex' = OneMutex /\ TheMutex' = TheMutex
      BY <2>1 DEF OneMutex, TheMutex
    <3> QED
      BY <2>1, <3>1, <3>2, <3>3 DEF AloneInv, Holds
  <2> QED
    BY <2>2, <2>3, <2>4, <2>5 DEF AloneInv
<1>2. ASSUME NEW i \in Requests, AnyStep(i)
      PROVE  AloneInv'
  BY <1>2, AloneAdvance
<1>3. CASE Crash
  <2>1. /\ UNCHANGED <<immutable, shared, object>>
        /\ \A j \in Requests : request'[j] = request[j] \/ request'[j].pc = 0
        /\ \A j \in Requests : request'[j].op = request[j].op
        /\ \A j \in Requests : ~Running(j) => request'[j] = request[j]
    BY <1>3, CrashGoes
  <2>2. \A j \in Requests : ~Running(j)'
    <3> SUFFICES ASSUME NEW j \in Requests PROVE ~Running(j)'
      OBVIOUS
    <3>1. CASE Running(j)
      <4>1. request'[j].pc = 0
        BY <1>3, <3>1, CrashGoes
      <4> QED
        BY <4>1 DEF Running
    <3>2. CASE ~Running(j)
      BY <2>1, <3>2 DEF Running
    <3> QED
      BY <3>1, <3>2
  <2>3. \A j \in Requests : ~InRegion(j)'
    BY <2>2 DEF InRegion
  <2> QED
    BY <1>0, <2>1, <2>2, <2>3, AloneKept
<1>4. CASE Reload
  <2>1. /\ UNCHANGED <<name, immutable, shared, tree, request, mutex, faults>>
        /\ object' = object + 1
    BY <1>4 DEF Reload
  <2>2. \A j \in Requests : (Running(j)' <=> Running(j)) /\ (InRegion(j)' <=> InRegion(j))
    BY <2>1 DEF Running, InRegion, Program
  <2>3. shared /\ OneMutex =>
          \A j \in Requests : InRegion(j)' => mutex'[TheMutex] = j
    BY <2>1, <2>2 DEF AloneInv, Holds
  <2> QED
    BY <1>0, <2>1, <2>2, <2>3, AloneKept
<1>5. CASE UNCHANGED vars
  BY <1>5 DEF vars, AloneInv, RunsAlone, Objects, Policy, Holds, InRegion, Running, Program,
     OneMutex, TheMutex
<1>6. CASE Done
  BY <1>5, <1>6 DEF Done
<1> QED
  BY <1>1, <1>2, <1>3, <1>4, <1>5, <1>6, NextCases, Zenon

-----------------------------------------------------------------------------
(***************************************************************************)
(* A publication that was acknowledged has its file and whatever the guard *)
(* asks for, until a removal; a publication past its guard is of a version *)
(* of which no such publication is left; an index read in the region has   *)
(* the entries of all of them; and what a publication wrote is still there.*)
(***************************************************************************)
KeptFormat ==
  /\ immutable /\ OneMutex /\ name \notin Unguarded
  /\ torn = {} /\ misled = {} /\ misread = {}
Announced(i) == request[i].op \in Publications /\ request[i].end = "ok"
Publishing(i) == Running(i) /\ request[i].end = "idle" /\ request[i].op \in Publications
PastGuard(i) == Publishing(i) /\ Asked(name, Program(i), request[i].pc)
Held(i) == tree[File][Version(i)].by = i /\ \A g \in Guards(name) : Present(g, Version(i))
AnnouncedHeld(i) == Announced(i) => Removed(Version(i)) \/ Held(i)
AskedFree(j) ==
  PastGuard(j) =>
    \A i \in Requests : Announced(i) /\ Version(i) = Version(j) => Removed(Version(i))
LoadedAll(j) ==
  InRegion(j) =>
    \A g \in Guards(name) : Loaded(Program(j), request[j].pc, g) =>
      \A i \in Requests : Announced(i) => Removed(Version(i)) \/ request[j].kept[Version(i)] # Absent
WroteOwn(j) ==
  Publishing(j) =>
    \A s \in Watched(name) : Wrote(Program(j), request[j].pc, s) =>
      Removed(Version(j)) \/ tree[s][Version(j)].by = j
KeptInv ==
  KeptFormat => \A i \in Requests : AnnouncedHeld(i) /\ AskedFree(i) /\ LoadedAll(i) /\ WroteOwn(i)

LEMMA WatchedSlots ==
  ASSUME PackageTypeOK
  PROVE  /\ Watched(name) \subseteq Slots[name] /\ File \in Watched(name)
         /\ Guards(name) \subseteq Watched(name) /\ Watched(name) = Guards(name) \cup {File}
<1>1. Formats[name].file \in Slots[name]
  <2>1. name \in Names
    BY DEF PackageTypeOK
  <2> QED
    BY <2>1, Following, Zenon DEF Follows
<1>2. Guards(name) \subseteq Slots[name]
  BY Zenon DEF Guards
<1>3. Watched(name) = Guards(name) \cup {File}
  BY DEF Watched, File
<1> QED
  BY <1>1, <1>2, <1>3 DEF File

\* A publication past its guard holds the mutex, or runs alone.
LEMMA PubRegion ==
  ASSUME PackageTypeOK, AloneInv, KeptFormat, NEW i \in Requests, PastGuard(i)
  PROVE  InRegion(i)
<1>1. Within(name, Program(i), request[i].pc)
  BY GuardedStep DEF PastGuard, Publishing, KeptFormat
<1> QED
  BY <1>1 DEF PastGuard, Publishing, InRegion, Within, AloneInv, Policy, KeptFormat

\* What a publication wrote it wrote past its guard.
LEMMA WroteAsked ==
  ASSUME PackageTypeOK, AloneInv, KeptFormat, NEW i \in Requests, Publishing(i),
         NEW k \in Nat, k <= Len(Program(i)) + 1, NEW s \in Watched(name), Wrote(Program(i), k, s)
  PROVE  Asked(name, Program(i), k)
<1>1. PICK m \in 1..(k - 1) : Program(i)[m].do \in {"write", "put"} /\ Program(i)[m].at = s
  BY DEF Wrote
<1>2. Running(i) /\ Len(Program(i)) \in Nat /\ DOMAIN Program(i) = 1..Len(Program(i))
  BY RunningFacts DEF Publishing
<1>3. m \in DOMAIN Program(i)
  BY <1>1, <1>2
<1>4. GuardedChange(name, request[i].op, Program(i), m)
  BY <1>1, <1>2, <1>3, GuardedStep DEF KeptFormat, Changes
<1>5. Asked(name, Program(i), m)
  BY <1>1, <1>4 DEF GuardedChange
<1>6. PICK q \in 1..(m - 1) :
        Program(i)[q].do \in {"guard", "refuse"} /\ Program(i)[q].at \in Guards(name)
  BY <1>5 DEF Asked
<1>7. q \in 1..(k - 1)
  BY <1>1, <1>6
<1> QED
  BY <1>6, <1>7 DEF Asked

\* A request at the step of its last change has begun.
LEMMA RemovesOwn ==
  ASSUME PackageTypeOK, NEW i \in Requests, Running(i)
  PROVE  /\ request[i].op \in Removals => Removed(Version(i))
         /\ Sweeps(i) => \A v : Removed(v)
<1>1. i \in Begun
  BY RunningFacts DEF Begun
<1> QED
  BY <1>1 DEF Removed

LEMMA WrittenExactly ==
  ASSUME NEW i \in Requests
  PROVE  LET slot == tree[At(i).at]
             kept == request[i].kept
             v == Version(i)
         IN /\ At(i).do = "write" => Written(i) = [slot EXCEPT ![v] = Entry(i)]
            /\ At(i).do = "erase" => Written(i) = [slot EXCEPT ![v] = Absent]
            /\ At(i).do = "put" => Written(i) = [kept EXCEPT ![v] = Entry(i)]
            /\ At(i).do = "cut" => Written(i) = [kept EXCEPT ![v] = Absent]
            /\ At(i).do = "yank" => Written(i) = [kept EXCEPT ![v] = Marked(kept[v], TRUE)]
            /\ At(i).do = "unyank" => Written(i) = [kept EXCEPT ![v] = Marked(kept[v], FALSE)]
            /\ At(i).do = "copy" => Written(i) = kept
            /\ At(i).do = "stream" => Written(i) = [slot EXCEPT ![v] = Entry(i)]
            /\ At(i).do = "mark" => Written(i) = [slot EXCEPT ![v] = Marked(kept[v], TRUE)]
            /\ At(i).do = "unmark" => Written(i) = [slot EXCEPT ![v] = Marked(kept[v], FALSE)]
            /\ At(i).do = "newest" =>
                 Written(i) = [u \in Versions |-> IF Newer(kept, u) THEN Absent ELSE kept[u]]
BY DEF Written

\* A marked entry is an entry.
LEMMA MarkedThere ==
  ASSUME NEW e \in EntryOf, NEW flag \in BOOLEAN, e # Absent
  PROVE  Marked(e, flag) # Absent
<1>1. Absent.by = 0
  BY DEF Absent
<1>2. e \in [by : Nat \ {0}, yanked : BOOLEAN]
  BY DEF EntryOf
<1>3. Marked(e, flag).by = e.by /\ e.by # 0
  BY <1>2, MarkedFacts
<1> QED
  BY <1>1, <1>3

\* What a step may do to the file of a version, and to what the guard asks for.
Untouched(s, v) == tree'[s][v] = tree[s][v] \/ Removed(v)
OwnWrite(i, s, v) == v = Version(i) /\ PastGuard(i) /\ tree'[s][v].by = i
OwnClear(i, s, v) == v = Version(i) /\ PastGuard(i) /\ Clears(At(i), s)
Rewrites(i, s, v) ==
  /\ s \in Guards(name) /\ s # File /\ InRegion(i) /\ Loaded(Program(i), request[i].pc, s)
  /\ request[i].kept[v] # Absent => tree'[s][v] # Absent
  /\ request[i].op \in Publications => v # Version(i)

LEMMA TreeSafe ==
  ASSUME PackageTypeOK, Keeps, AloneInv, KeptFormat, NEW i \in Requests,
         StepOf(i), NEW s \in Watched(name), NEW v \in Versions
  PROVE  Untouched(s, v) \/ OwnWrite(i, s, v) \/ OwnClear(i, s, v) \/ Rewrites(i, s, v)
<1> DEFINE Fine == Untouched(s, v) \/ OwnWrite(i, s, v) \/ OwnClear(i, s, v) \/ Rewrites(i, s, v)
<1>1. s \in Slots[name] /\ name \notin Unguarded /\ name' = name
  BY WatchedSlots DEF KeptFormat, Keeps
<1>2. tree'[s] = tree[s] => Fine
  BY DEF Untouched
<1>3. Removed(v) => Fine
  BY DEF Untouched
<1>4. CASE Change(i)
  <2>1. /\ Running(i) /\ At(i).do \in Changes /\ request[i].end = "idle" /\ Takes(i, Changes)
        /\ tree' = [tree EXCEPT ![At(i).at] = Written(i)]
    BY <1>4, ChangeGoes
  <2>2. At(i).at \in Slots[name] /\ Written(i) \in Docs
    BY <2>1, WrittenFacts
  <2>3. /\ tree'[At(i).at] = Written(i)
        /\ \A t \in Slots[name] \ {At(i).at} : tree'[t] = tree[t]
    BY <1>1, <2>1, <2>2, TreeTyped
  <2>4. CASE s # At(i).at
    BY <1>1, <1>2, <2>3, <2>4
  <2>5. CASE s = At(i).at
    <3> DEFINE p == Program(i)
               k == request[i].pc
               op == request[i].op
               old == tree[s]
               kept == request[i].kept
               w == Version(i)
    <3>1. GuardedChange(name, op, p, k)
      BY <1>1, <2>1, <2>5, GuardedStep
    <3>2. /\ old \in Docs /\ kept \in Docs /\ w \in Versions /\ At(i) = p[k]
      BY <1>1, <2>1, RunningFacts DEF PackageTypeOK
    <3>3. /\ kept[v] \in EntryOf
      BY <3>2 DEF Docs
    <3>4. /\ At(i).do = "write" => tree'[s] = [old EXCEPT ![w] = Entry(i)]
          /\ At(i).do = "erase" => tree'[s] = [old EXCEPT ![w] = Absent]
          /\ At(i).do = "put" => tree'[s] = [kept EXCEPT ![w] = Entry(i)]
          /\ At(i).do = "cut" => tree'[s] = [kept EXCEPT ![w] = Absent]
          /\ At(i).do = "yank" => tree'[s] = [kept EXCEPT ![w] = Marked(kept[w], TRUE)]
          /\ At(i).do = "unyank" => tree'[s] = [kept EXCEPT ![w] = Marked(kept[w], FALSE)]
      BY <2>3, <2>5, WrittenExactly
    <3>5. Entry(i).by = i /\ Entry(i) # Absent
      BY EntryFacts
    <3>6. Within(name, p, k) => InRegion(i)
      BY <2>1 DEF InRegion, Within, AloneInv, Policy, KeptFormat
    <3>7. op \in Publications /\ Asked(name, p, k) => PastGuard(i)
      BY <2>1 DEF PastGuard, Publishing
    <3>8. op \in Removals => Removed(w)
      BY <2>1, RemovesOwn
    <3> HIDE DEF old, kept, w, p, k, op
    <3>9. CASE op \in Removals /\ At(i).do = "erase"
      <4>1. v # w => tree'[s][v] = old[v]
        BY <3>2, <3>4, <3>9 DEF Docs
      <4> QED
        BY <1>3, <3>8, <3>9, <4>1 DEF old, Untouched
    <3>10. CASE op \in Publications /\ At(i).do = "write" /\ Asked(name, p, k)
      <4>1. v # w => tree'[s][v] = old[v]
        BY <3>2, <3>4, <3>10 DEF Docs
      <4>2. v = w => tree'[s][v] = Entry(i)
        BY <3>2, <3>4, <3>10 DEF Docs
      <4>3. v # w => Untouched(s, v)
        BY <4>1 DEF Untouched, old
      <4>4. v = w => OwnWrite(i, s, v)
        BY <3>5, <3>7, <3>10, <4>2 DEF OwnWrite, w
      <4> QED
        BY <4>3, <4>4
    <3>11. ASSUME s # File, Within(name, p, k), Loaded(p, k, s),
                  kept[v] # Absent => tree'[s][v] # Absent, op \in Publications => v # w
           PROVE  Rewrites(i, s, v)
      <4>1. s \in Guards(name)
        BY <3>11, WatchedSlots
      <4> QED
        BY <3>6, <3>11, <4>1 DEF Rewrites, kept, p, k, op, w
    <3>12. CASE /\ op \in Publications /\ At(i).do = "put" /\ Asked(name, p, k)
                /\ s # File /\ Within(name, p, k) /\ Loaded(p, k, s)
      <4>1. v # w => tree'[s][v] = kept[v]
        BY <3>2, <3>4, <3>12 DEF Docs
      <4>2. v = w => tree'[s][v] = Entry(i)
        BY <3>2, <3>4, <3>12 DEF Docs
      <4>3. v = w => OwnWrite(i, s, v)
        BY <3>5, <3>7, <3>12, <4>2 DEF OwnWrite, w
      <4> QED
        BY <3>11, <3>12, <4>1, <4>3
    <3>13. CASE /\ op \in Removals /\ At(i).do = "cut"
                /\ s # File /\ Within(name, p, k) /\ Loaded(p, k, s)
      <4>1. v # w => tree'[s][v] = kept[v]
        BY <3>2, <3>4, <3>13 DEF Docs
      <4>2. op \notin Publications
        BY <3>13 DEF Removals, Publications
      <4> QED
        BY <1>3, <3>8, <3>11, <3>13, <4>1, <4>2
    <3>14. CASE /\ op \in {"yank", "unyank"} /\ At(i).do \in {"yank", "unyank"}
                /\ s # File /\ Within(name, p, k) /\ Loaded(p, k, s)
      <4>1. PICK flag \in BOOLEAN : tree'[s] = [kept EXCEPT ![w] = Marked(kept[w], flag)]
        BY <3>4, <3>14
      <4>2. v # w => tree'[s][v] = kept[v]
        BY <3>2, <4>1 DEF Docs
      <4>3. v = w => tree'[s][v] = Marked(kept[v], flag)
        BY <3>2, <4>1 DEF Docs
      <4>4. kept[v] # Absent => tree'[s][v] # Absent
        BY <3>3, <4>2, <4>3, MarkedThere
      <4>5. op \notin Publications
        BY <3>14 DEF Publications
      <4> QED
        BY <3>11, <3>14, <4>4, <4>5
    <3>15. s # File <=> At(i).at # Formats[name].file
      BY <2>5 DEF File
    <3> QED
      BY <2>5, <3>1, <3>2, <3>9, <3>10, <3>12, <3>13, <3>14, <3>15 DEF GuardedChange
  <2> QED
    BY <2>4, <2>5
<1>5. CASE Repair(i)
  <2>1. PICK metas \in Docs : tree' = [tree EXCEPT ![At(i).by] = metas]
    BY <1>5, RepairGoes
  <2>2. Running(i) /\ At(i).do = "scan" /\ At(i).by \in Slots[name]
    BY <1>5, RepairGoes
  <2>3. At(i).by # s
    BY <1>1, <2>2, GuardedStep
  <2>4. tree'[s] = tree[s]
    BY <1>1, <2>1, <2>2, <2>3, TreeTyped
  <2> QED
    BY <1>2, <2>4
<1>6. CASE DeleteNext(i)
  <2>1. /\ Running(i) /\ At(i).do = "tree" /\ request[i].end = "idle"
    BY <1>6, DeleteNextGoes
  <2>2. PICK t \in Slots[name], doc \in Docs :
              /\ t \in At(i).by /\ tree' = [tree EXCEPT ![t] = doc]
              /\ \A u \in Versions \ Scope(i) : doc[u] = tree[t][u]
    BY <1>6, DeleteNextGoes
  <2>3. tree'[t] = doc /\ \A x \in Slots[name] \ {t} : tree'[x] = tree[x]
    BY <1>1, <2>2, TreeTyped
  <2>4. CASE s # t
    BY <1>1, <1>2, <2>3, <2>4
  <2>5. CASE s = t
    <3>1. Clears(At(i), s)
      BY <2>1, <2>2, <2>5 DEF Clears
    <3>2. CASE Sweeps(i)
      BY <1>3, <2>1, <3>2, RemovesOwn
    <3>3. CASE At(i).at = "version" /\ v # Version(i)
      <4>1. tree'[s][v] = tree[s][v]
        BY <2>2, <2>3, <2>5, <3>3 DEF Scope
      <4> QED
        BY <4>1 DEF Untouched
    <3>4. CASE v = Version(i) /\ request[i].op \in Removals
      BY <1>3, <2>1, <3>4, RemovesOwn
    <3>5. CASE /\ v = Version(i) /\ request[i].op \in Publications
               /\ Asked(name, Program(i), request[i].pc)
      BY <2>1, <3>1, <3>5 DEF OwnClear, PastGuard, Publishing
    <3> QED
      BY <1>1, <2>1, <3>1, <3>2, <3>3, <3>4, <3>5, GuardedStep
  <2> QED
    BY <2>4, <2>5
<1>7. CASE FailChange(i)
  <2>1. /\ Running(i) /\ At(i).do \in Changes /\ At(i).at \in Slots[name]
        /\ \/ tree' = tree
           \/ /\ At(i).do = "stream"
              /\ tree' = [tree EXCEPT ![At(i).at] = [@ EXCEPT ![Version(i)] = Absent]]
    BY <1>7, FailChangeGoes
  <2>2. CASE At(i).do = "stream"
    <3>1. At(i) = Program(i)[request[i].pc]
      BY <2>1, RunningFacts
    <3>2. ~GuardedChange(name, request[i].op, Program(i), request[i].pc)
      BY <2>2, <3>1 DEF GuardedChange
    <3>3. At(i).at # s
      BY <1>1, <2>1, <3>2, GuardedStep
    <3>4. tree'[s] = tree[s]
      BY <1>1, <2>1, <3>3 DEF PackageTypeOK
    <3> QED
      BY <1>2, <3>4
  <2> QED
    BY <1>2, <2>1, <2>2
<1>8. CASE FailDelete(i) \/ Asking(i) \/ Gather(i) \/ DeleteEnd(i) \/ Acquire(i) \/ Release(i)
  <2>1. tree' = tree
    BY <1>8, FailDeleteGoes, AskingGoes, GatherGoes, DeleteEndGoes, AcquireGoes, ReleaseGoes
  <2> QED
    BY <1>2, <2>1
<1> QED
  BY <1>4, <1>5, <1>6, <1>7, <1>8 DEF StepOf, Advance, Asking

\* How a request goes on, whichever step it takes.
MovesTo(i, end, kept) ==
  /\ Goes(i, end, kept)
  /\ end = "idle" => request[i].end = "idle"
  /\ end = "ok" =>
       \/ request[i].end = "ok"
       \/ request[i].end = "idle" /\ At(i).do \in {"unless", "known", "last"} /\ tree' = tree /\ Met(i)
  /\ end \in {"refused", "exists"} =>
       \/ request[i].end = end
       \/ request[i].end = "idle" /\ tree' = tree /\ Declined(i, end)
  /\ end = "idle" /\ At(i).do \in Changes /\ ~At(i).try => Change(i)
  /\ end = "idle" /\ At(i).do = "read" => Passed(i)
  /\ end = "idle" /\ At(i).do \in {"guard", "refuse"} /\ misled' = {} => Passed(i)
  /\ kept = request[i].kept \/ At(i).do \in {"load", "fold", "scan"}
  /\ end = "idle" /\ At(i).do = "load" => kept = tree[At(i).at]
  /\ end = "idle" /\ At(i).do = "scan" =>
       \A u \in Versions : kept[u] # Absent <=> tree[At(i).at][u] # Absent
LEMMA Moves ==
  ASSUME PackageTypeOK, NEW i \in Requests, StepOf(i)
  PROVE  /\ Running(i) /\ Others(i)
         /\ UNCHANGED <<name, immutable, shared, object>>
         /\ \/ Stays(request[i], request'[i])
            \/ \E end \in EndsOf, kept \in Docs : MovesTo(i, end, kept)
<1> DEFINE Fine == \E end \in EndsOf, kept \in Docs : MovesTo(i, end, kept)
<1>1. "idle" \in EndsOf /\ "failed" \in EndsOf
  BY DEF EndsOf
<1>2. ASSUME NEW end \in EndsOf, NEW kept \in Docs, MovesTo(i, end, kept)
      PROVE  Others(i) /\ Fine
  BY <1>2 DEF MovesTo, Goes
<1>3. Running(i) => request[i].kept \in Docs
  BY RunningFacts
<1> HIDE DEF Fine
<1>4. CASE Asking(i)
  <2>1. /\ Running(i) /\ At(i).do \in Asks \cup ReadSteps /\ request[i].end = "idle"
        /\ UNCHANGED <<name, immutable, shared, object, tree>>
    BY <1>4, AskingGoes
  <2>2. PICK end \in EndsOf :
              /\ Goes(i, end, request[i].kept)
              /\ end = "idle" => At(i).do \in Asks
              /\ end = "idle" /\ (misled' = {} \/ At(i).do \notin {"guard", "refuse"}) => Passed(i)
              /\ end = "ok" => At(i).do \in {"unless", "known", "last"} /\ Met(i)
              /\ end \in {"refused", "exists"} => Declined(i, end)
    BY <1>4, AskingGoes
  <2>3. At(i).do \notin Changes /\ (end = "idle" => At(i).do \notin {"load", "scan"})
    BY <2>1, <2>2 DEF Asks, ReadSteps, Changes
  <2>4. MovesTo(i, end, request[i].kept)
    BY <2>1, <2>2, <2>3 DEF MovesTo
  <2> QED
    BY <1>2, <1>3, <2>1, <2>4 DEF Fine
<1>5. CASE Gather(i)
  <2>1. /\ Running(i) /\ At(i).do \in {"load", "fold"} /\ request[i].end = "idle"
        /\ UNCHANGED <<name, immutable, shared, object, tree>>
    BY <1>5, GatherGoes
  <2>2. PICK kept \in Docs :
          Goes(i, "idle", kept) /\ (At(i).do = "load" => kept = tree[At(i).at])
    BY <1>5, GatherGoes
  <2>3. At(i).do \notin Changes
    BY <2>1 DEF Changes
  <2>4. MovesTo(i, "idle", kept)
    BY <2>1, <2>2, <2>3 DEF MovesTo
  <2> QED
    BY <1>1, <1>2, <2>1, <2>4 DEF Fine
<1>6. CASE Change(i)
  <2>1. /\ Running(i) /\ At(i).do \in Changes /\ request[i].end = "idle"
        /\ UNCHANGED <<name, immutable, shared, object>> /\ Goes(i, "idle", request[i].kept)
    BY <1>6, ChangeGoes
  <2>2. At(i).do \notin {"guard", "refuse", "read", "load", "scan"}
    BY <2>1 DEF Changes
  <2>3. MovesTo(i, "idle", request[i].kept)
    BY <1>6, <2>1, <2>2 DEF MovesTo
  <2> QED
    BY <1>1, <1>2, <1>3, <2>1, <2>3 DEF Fine
<1>7. CASE Repair(i)
  <2>1. /\ Running(i) /\ At(i).do = "scan" /\ request[i].end = "idle"
        /\ UNCHANGED <<name, immutable, shared, object>>
    BY <1>7, RepairGoes
  <2>2. PICK found \in Docs :
          /\ Goes(i, "idle", found)
          /\ \A u \in Versions : found[u] # Absent <=> tree[At(i).at][u] # Absent
    BY <1>7, RepairGoes
  <2>3. At(i).do \notin Changes
    BY <2>1 DEF Changes
  <2>4. MovesTo(i, "idle", found)
    BY <2>1, <2>2, <2>3 DEF MovesTo
  <2> QED
    BY <1>1, <1>2, <2>1, <2>4 DEF Fine
<1>8. CASE DeleteEnd(i)
  <2>1. /\ Running(i) /\ At(i).do = "tree" /\ request[i].end = "idle"
        /\ UNCHANGED <<name, immutable, shared, object>>
    BY <1>8, DeleteEndGoes
  <2>2. PICK end \in {"idle", "failed"} : Goes(i, end, request[i].kept)
    BY <1>8, DeleteEndGoes
  <2>3. At(i).do \notin Changes
    BY <2>1 DEF Changes
  <2>4. MovesTo(i, end, request[i].kept)
    BY <2>1, <2>2, <2>3 DEF MovesTo
  <2> QED
    BY <1>1, <1>2, <1>3, <2>1, <2>4 DEF Fine
<1>9. CASE Acquire(i)
  <2>1. /\ Running(i) /\ At(i).do = "lock" /\ request[i].end = "idle"
        /\ UNCHANGED <<name, immutable, shared, object>> /\ Goes(i, "idle", request[i].kept)
    BY <1>9, AcquireGoes
  <2>2. At(i).do \notin Changes
    BY <2>1 DEF Changes
  <2>3. MovesTo(i, "idle", request[i].kept)
    BY <2>1, <2>2 DEF MovesTo
  <2> QED
    BY <1>1, <1>2, <1>3, <2>1, <2>3 DEF Fine
<1>10. CASE Release(i)
  <2>1. /\ Running(i) /\ At(i).do = "unlock" /\ request[i].end \in EndsOf
        /\ UNCHANGED <<name, immutable, shared, object>>
        /\ Goes(i, request[i].end, request[i].kept)
    BY <1>10, ReleaseGoes
  <2>2. At(i).do \notin Changes
    BY <2>1 DEF Changes
  <2>3. MovesTo(i, request[i].end, request[i].kept)
    BY <2>1, <2>2 DEF MovesTo
  <2> QED
    BY <1>2, <1>3, <2>1, <2>3 DEF Fine
<1>11. CASE FailChange(i)
  <2>1. /\ Running(i) /\ At(i).do \in Changes /\ request[i].end = "idle"
        /\ UNCHANGED <<name, immutable, shared, object>>
        /\ \/ At(i).try /\ Goes(i, "idle", request[i].kept)
           \/ ~At(i).try /\ Goes(i, "failed", request[i].kept)
    BY <1>11, FailChangeGoes
  <2>2. At(i).do \notin {"guard", "refuse", "read", "load", "scan"}
    BY <2>1 DEF Changes
  <2>3. MovesTo(i, "idle", request[i].kept) \/ MovesTo(i, "failed", request[i].kept)
    BY <2>1, <2>2 DEF MovesTo
  <2> QED
    BY <1>1, <1>2, <1>3, <2>1, <2>3 DEF Fine
<1>12. CASE DeleteNext(i) \/ FailDelete(i)
  <2>1. /\ Running(i) /\ UNCHANGED <<name, immutable, shared, object>>
        /\ Others(i) /\ (request'[i] = request[i] \/ Stays(request[i], request'[i]))
    BY <1>12, DeleteNextGoes, FailDeleteGoes DEF Others, PackageTypeOK
  <2> QED
    BY <2>1 DEF Stays
<1> QED
  BY <1>4, <1>5, <1>6, <1>7, <1>8, <1>9, <1>10, <1>11, <1>12 DEF StepOf, Advance, Asking, Fine

\* Also a step that is cut off, or misreads, is the step of one request.
LEMMA StepMoves ==
  ASSUME PackageTypeOK, NEW i \in Requests, AnyStep(i)
  PROVE  Running(i) /\ Others(i) /\ UNCHANGED <<name, immutable, shared, object>>
<1>1. CASE StepOf(i)
  BY <1>1, Moves
<1>2. CASE CutOff(i)
  BY <1>2, CutOffGoes DEF Goes
<1>3. CASE Misread(i)
  BY <1>3, MisreadGoes DEF Goes
<1> QED
  BY <1>1, <1>2, <1>3 DEF AnyStep

\* A step counts one fault at most.
LEMMA StepFaults ==
  ASSUME PackageTypeOK, NEW i \in Requests, AnyStep(i)
  PROVE  faults' \in {faults, faults + 1}
<1>1. CASE Ask(i) \/ Gather(i) \/ Change(i) \/ Repair(i)
  BY <1>1, AskGoes, GatherGoes, ChangeGoes, RepairGoes
<1>2. CASE DeleteNext(i) \/ DeleteEnd(i) \/ Acquire(i) \/ Release(i)
  BY <1>2, DeleteNextGoes, DeleteEndGoes, AcquireGoes, ReleaseGoes
<1>3. CASE FailChange(i)
  BY <1>3, Zenon DEF FailChange
<1>4. CASE FailDelete(i)
  BY <1>4, Zenon DEF FailDelete
<1>5. CASE FailRead(i) \/ Mislead(i)
  BY <1>5, AskingGoes DEF Asking
<1>6. CASE CutOff(i) \/ Misread(i)
  BY <1>6, CutOffGoes, MisreadGoes
<1> QED
  BY <1>1, <1>2, <1>3, <1>4, <1>5, <1>6 DEF AnyStep, StepOf, Advance

-----------------------------------------------------------------------------
LEMMA RemovedOf ==
  ASSUME PackageTypeOK, PackageTypeOK', Keeps, NEW k \in Requests, request[k].op # "none",
         Removed(Version(k))
  PROVE  Removed(Version(k))'
<1>1. PICK v : v = Version(k)
  OBVIOUS
<1>2. Removed(v)
  BY <1>1
<1>3. Removed(v)'
  BY <1>2, RemovedStays
<1>4. Version(k)' = v
  BY <1>1 DEF Version, Keeps
<1> QED
  BY <1>3, <1>4 DEF Removed

\* An acknowledged publication stays as it was left.
LEMMA HeldStays ==
  ASSUME PackageTypeOK, PackageTypeOK', Keeps, AloneInv, KeptFormat, KeptInv, NEW i \in Requests,
         StepOf(i), NEW k \in Requests, Announced(k)
  PROVE  (Removed(Version(k)) \/ Held(k))'
<1> DEFINE v == Version(k)
<1>1. /\ request[k].op # "none" /\ v \in Versions
  <2>1. request[k].op # "none"
    BY DEF Announced, Publications
  <2> QED
    BY <2>1 DEF PackageTypeOK, Steady, Version
<1>2. name' = name /\ Version(k)' = v /\ File' = File
  BY <1>1 DEF Keeps, Version, File
<1>3. Removed(v) => Removed(Version(k))'
  BY <1>1, RemovedOf
<1>4. CASE Removed(v)
  BY <1>3, <1>4
<1>5. CASE ~Removed(v)
  <2>1. Held(k)
    BY <1>5 DEF KeptInv, AnnouncedHeld
  <2>2. ~(PastGuard(i) /\ Version(i) = v)
    BY <1>5 DEF KeptInv, AskedFree
  <2>3. ASSUME NEW s \in Watched(name)
        PROVE  \/ tree'[s][v] = tree[s][v]
               \/ s # File /\ tree'[s][v] # Absent
    <3>1. Untouched(s, v) => tree'[s][v] = tree[s][v]
      BY <1>5 DEF Untouched
    <3>2. ~OwnWrite(i, s, v) /\ ~OwnClear(i, s, v)
      BY <2>2 DEF OwnWrite, OwnClear
    <3>3. ASSUME Rewrites(i, s, v) PROVE s # File /\ tree'[s][v] # Absent
      <4>1. InRegion(i) /\ s \in Guards(name) /\ Loaded(Program(i), request[i].pc, s)
        BY <3>3 DEF Rewrites
      <4>2. request[i].kept[v] # Absent
        BY <1>5, <4>1 DEF KeptInv, LoadedAll
      <4> QED
        BY <3>3, <4>2 DEF Rewrites
    <3> QED
      BY <1>1, <3>1, <3>2, <3>3, TreeSafe
  <2>4. tree'[File][v].by = k
    BY <2>1, <2>3, WatchedSlots DEF Held
  <2>5. \A g \in Guards(name) : tree'[g][v] # Absent
    BY <2>1, <2>3, WatchedSlots DEF Held, Present
  <2> QED
    BY <1>2, <2>4, <2>5 DEF Held, Present
<1> QED
  BY <1>4, <1>5

\* What a publication wrote, after its next step too.
LEMMA OwnAfter ==
  ASSUME PackageTypeOK, PackageTypeOK', Keeps, AloneInv, KeptFormat, KeptInv, NEW i \in Requests,
         StepOf(i), Publishing(i), NEW s \in Watched(name),
         \/ Wrote(Program(i), request[i].pc, s)
         \/ At(i).do \in {"write", "put"} /\ At(i).at = s /\ Change(i)
  PROVE  Removed(Version(i))' \/ tree'[s][Version(i)].by = i
<1> DEFINE v == Version(i)
<1>1. /\ Running(i) /\ v \in Versions /\ request[i].pc \in DOMAIN Program(i)
      /\ request[i].pc \in Nat /\ At(i) = Program(i)[request[i].pc] /\ request[i].kept \in Docs
  BY RunningFacts DEF Publishing
<1>2. Removed(v) => Removed(Version(i))'
  BY <1>1, RemovedOf, RunningFacts
<1>3. name' = name
  BY DEF Keeps
<1>5. CASE At(i).do \in {"write", "put"} /\ At(i).at = s /\ Change(i)
  <2> DEFINE old == tree[s]
             kept == request[i].kept
  <2>1. Takes(i, Changes) /\ tree' = [tree EXCEPT ![At(i).at] = Written(i)]
    BY <1>5, ChangeGoes
  <2>2. s \in Slots[name] /\ Written(i) \in Docs
    BY <1>5, <2>1, WrittenFacts
  <2>3. tree'[s] = Written(i) /\ old \in Docs
    BY <1>3, <1>5, <2>1, <2>2, TreeTyped DEF PackageTypeOK
  <2>4. Written(i) = [old EXCEPT ![v] = Entry(i)] \/ Written(i) = [kept EXCEPT ![v] = Entry(i)]
    BY <1>5, WrittenExactly
  <2> HIDE DEF old, kept
  <2>5. tree'[s][v] = Entry(i)
    BY <1>1, <2>3, <2>4 DEF Docs, kept
  <2> QED
    BY <2>5, EntryFacts
<1>6. CASE Wrote(Program(i), request[i].pc, s)
  <2>1. Removed(v) \/ tree[s][v].by = i
    BY <1>6 DEF KeptInv, WroteOwn
  <2>2. ~Clears(At(i), s)
    <3>1. PICK m \in 1..(request[i].pc - 1) :
            \A q \in (m + 1)..request[i].pc : q \in DOMAIN Program(i) => ~Clears(Program(i)[q], s)
      BY <1>6 DEF Wrote
    <3>2. request[i].pc \in (m + 1)..request[i].pc
      BY <1>1, <3>1
    <3> QED
      BY <1>1, <3>1, <3>2
  <2>3. ~OwnClear(i, s, v) /\ ~Rewrites(i, s, v)
    BY <2>2 DEF OwnClear, Rewrites, Publishing
  <2>4. Untouched(s, v) \/ OwnWrite(i, s, v)
    BY <1>1, <2>3, TreeSafe
  <2> QED
    BY <1>2, <2>1, <2>4 DEF Untouched, OwnWrite
<1> QED
  BY <1>5, <1>6

\* A publication is acknowledged in the region, with its writes in place.
LEMMA NewAnnounced ==
  ASSUME PackageTypeOK, PackageTypeOK', Keeps, AloneInv, KeptFormat, KeptInv, NEW i \in Requests,
         StepOf(i), Announced(i)', ~Announced(i)
  PROVE  InRegion(i) /\ (Removed(Version(i)) \/ Held(i))'
<1> DEFINE r == request[i]
           p == Program(i)
           Own(s) == Wrote(p, r.pc, s) \/ (At(i).do \in {"write", "put"} /\ At(i).at = s /\ Change(i))
<1>1. /\ Running(i) /\ r.op # "none" /\ r.pc \in Nat /\ r.pc # 0 /\ r.pc \in DOMAIN p
      /\ Len(p) \in Nat /\ DOMAIN p = 1..Len(p) /\ At(i) = p[r.pc] /\ Version(i) \in Versions
  BY Moves, RunningFacts
<1>2. /\ name' = name /\ File' = File /\ Version(i)' = Version(i) /\ request'[i].op = r.op
  BY <1>1 DEF Keeps, Version, File
<1>3. r.op \in Publications /\ request'[i].end = "ok" /\ r.end # "ok"
  BY <1>2 DEF Announced
<1>4. ~Stays(r, request'[i])
  BY <1>3 DEF Stays
<1>5. PICK end \in EndsOf, kept \in Docs : MovesTo(i, end, kept)
  BY <1>4, Moves
<1>6. After(name, r, request'[i], end, kept) /\ r.program = p
  BY <1>5 DEF MovesTo, Goes, Program
<1>7. ASSUME NEW s \in Watched(name) PROVE Publishing(i) /\ Own(s)
  <2>1. CASE end = "ok"
    <3>1. r.end = "idle" /\ At(i).do \in {"unless", "known", "last"}
      BY <1>3, <1>5, <2>1 DEF MovesTo
    <3>2. Wrote(p, r.pc, s)
      BY <1>1, <1>3, <3>1, GuardedStep DEF KeptFormat
    <3> QED
      BY <1>1, <1>3, <3>1, <3>2 DEF Publishing
  <2>2. CASE end # "ok"
    <3>1. /\ end = "idle" /\ r.end = "idle"
          /\ \A m \in (r.pc + 1)..Len(p) : p[m].do = "check"
      BY <1>3, <1>5, <1>6, <2>2 DEF MovesTo, After
    <3>2. Wrote(p, Len(p) + 1, s)
      BY <1>1, <1>3, GuardedStep DEF KeptFormat
    <3>3. Len(p) + 1 \in Nat /\ r.pc < Len(p) + 1 /\ (Len(p) + 1) - 1 = Len(p)
      BY <1>1
    <3>4. \/ p[r.pc].do \in {"write", "put"} /\ p[r.pc].at = s /\ ~p[r.pc].try
          \/ Wrote(p, r.pc, s)
      <4>1. PICK l \in Nat : l = Len(p) + 1
        BY <3>3
      <4>2. Wrote(p, l, s) /\ r.pc < l /\ \A m \in (r.pc + 1)..(l - 1) : p[m].do = "check"
        BY <3>1, <3>2, <3>3, <4>1
      <4> QED
        BY <1>1, <4>2, Behind
    <3>5. At(i).do \in {"write", "put"} /\ ~At(i).try => Change(i)
      BY <1>5, <3>1 DEF MovesTo, Changes
    <3> QED
      BY <1>1, <1>3, <3>1, <3>4, <3>5 DEF Publishing
  <2> QED
    BY <2>1, <2>2
<1>8. PastGuard(i)
  <2>1. File \in Watched(name)
    BY WatchedSlots
  <2>2. Publishing(i) /\ Own(File)
    BY <1>7, <2>1
  <2>3. CASE Wrote(p, r.pc, File)
    <3>1. r.pc <= Len(p) + 1
      BY <1>1
    <3> QED
      BY <1>1, <2>1, <2>2, <2>3, <3>1, WroteAsked DEF PastGuard
  <2>4. CASE At(i).do \in {"write", "put"} /\ At(i).at = File
    <3>1. GuardedChange(name, r.op, p, r.pc)
      BY <1>1, <2>1, <2>4, GuardedStep DEF KeptFormat, Changes
    <3>2. Asked(name, p, r.pc)
      BY <1>1, <2>4, <3>1 DEF GuardedChange
    <3> QED
      BY <2>2, <3>2 DEF PastGuard
  <2> QED
    BY <2>2, <2>3, <2>4
<1>9. InRegion(i)
  BY <1>8, PubRegion
<1>10. ASSUME NEW s \in Watched(name) PROVE Removed(Version(i))' \/ tree'[s][Version(i)].by = i
  BY <1>7, OwnAfter
<1>11. ASSUME ~Removed(Version(i))' PROVE Held(i)'
  <2>1. tree'[File][Version(i)].by = i
    BY <1>10, <1>11, WatchedSlots
  <2>2. \A g \in Guards(name) : tree'[g][Version(i)].by = i
    BY <1>10, <1>11, WatchedSlots
  <2>3. Absent.by # i
    <3>1. i # 0
      BY PackageStoreAssumption DEF Requests
    <3> QED
      BY <3>1 DEF Absent
  <2>4. \A g \in Guards(name) : tree'[g][Version(i)] # Absent
    BY <2>2, <2>3
  <2> QED
    BY <1>2, <2>1, <2>4 DEF Held, Present
<1> QED
  BY <1>9, <1>11

\* The requests that a step is not of.
LEMMA KeptOthers ==
  ASSUME PackageTypeOK, PackageTypeOK', Keeps, AloneInv, KeptFormat, KeptInv, NEW i \in Requests,
         StepOf(i), NEW j \in Requests, j # i
  PROVE  (AskedFree(j) /\ LoadedAll(j) /\ WroteOwn(j))'
<1>1. /\ request'[j] = request[j] /\ name' = name /\ shared' = shared
      /\ \A k \in Requests : k # i => request'[k] = request[k]
  BY Moves DEF Others
<1>2. /\ Publishing(j)' <=> Publishing(j)
      /\ PastGuard(j)' <=> PastGuard(j)
      /\ InRegion(j)' <=> InRegion(j)
      /\ Version(j)' = Version(j) /\ Program(j)' = Program(j)
  BY <1>1 DEF Publishing, PastGuard, InRegion, Running, Program, Version
<1>3. ASSUME InRegion(j), NEW k \in Requests, Announced(k)'
      PROVE  Announced(k) /\ request[k].op # "none" /\ Version(k)' = Version(k)
  <2>1. ~InRegion(i)
    BY <1>3, OneInRegion DEF KeptFormat
  <2>2. Announced(k)
    <3>1. CASE k = i
      BY <1>3, <2>1, <3>1, NewAnnounced
    <3>2. CASE k # i
      BY <1>1, <1>3, <3>2 DEF Announced
    <3> QED
      BY <3>1, <3>2
  <2>3. request[k].op # "none"
    BY <2>2 DEF Announced, Publications
  <2> QED
    BY <2>2, <2>3 DEF Version, Keeps
<1>4. AskedFree(j)'
  <2> SUFFICES ASSUME PastGuard(j), NEW k \in Requests, Announced(k)', Version(k)' = Version(j)
               PROVE  Removed(Version(k))'
    BY <1>2 DEF AskedFree
  <2>1. InRegion(j)
    BY PubRegion
  <2>2. Announced(k) /\ request[k].op # "none" /\ Version(k) = Version(j)
    BY <1>3, <2>1
  <2>3. Removed(Version(k))
    BY <2>2 DEF KeptInv, AskedFree
  <2> QED
    BY <2>2, <2>3, RemovedOf
<1>5. LoadedAll(j)'
  <2> SUFFICES ASSUME InRegion(j), NEW g \in Guards(name), Loaded(Program(j), request[j].pc, g),
                      NEW k \in Requests, Announced(k)'
               PROVE  Removed(Version(k))' \/ request'[j].kept[Version(k)'] # Absent
    BY <1>1, <1>2 DEF LoadedAll
  <2>1. Announced(k) /\ request[k].op # "none" /\ Version(k)' = Version(k)
    BY <1>3
  <2>2. Removed(Version(k)) \/ request[j].kept[Version(k)] # Absent
    BY <2>1 DEF KeptInv, LoadedAll
  <2> QED
    BY <1>1, <2>1, <2>2, RemovedOf
<1>6. WroteOwn(j)'
  <2> SUFFICES ASSUME Publishing(j), NEW s \in Watched(name), Wrote(Program(j), request[j].pc, s)
               PROVE  Removed(Version(j))' \/ tree'[s][Version(j)].by = j
    BY <1>1, <1>2 DEF WroteOwn
  <2>1. /\ Running(j) /\ request[j].op # "none" /\ request[j].pc \in Nat /\ Version(j) \in Versions
        /\ request[j].pc <= Len(Program(j)) + 1
    <3>1. /\ Running(j) /\ request[j].op # "none" /\ request[j].pc \in Nat
          /\ Version(j) \in Versions /\ Len(Program(j)) \in Nat
          /\ request[j].pc \in 1..Len(Program(j))
      BY RunningFacts DEF Publishing
    <3> QED
      BY <3>1
  <2>2. Removed(Version(j)) \/ tree[s][Version(j)].by = j
    BY DEF KeptInv, WroteOwn
  <2>3. PastGuard(j)
    BY <2>1, WroteAsked DEF PastGuard
  <2>4. ~InRegion(i)
    BY <2>3, PubRegion, OneInRegion DEF KeptFormat
  <2>5. ~PastGuard(i)
    BY <2>4, PubRegion
  <2>6. Untouched(s, Version(j))
    BY <2>1, <2>4, <2>5, TreeSafe DEF OwnWrite, OwnClear, Rewrites
  <2> QED
    BY <2>1, <2>2, <2>6, RemovedOf DEF Untouched
<1> QED
  BY <1>4, <1>5, <1>6

\* The request whose step it is, if it goes on: its record is as it was, or the
\* steps it has left behind are the one it took and checks.
LEMMA GoesOn ==
  ASSUME PackageTypeOK, PackageTypeOK', NEW i \in Requests,
         StepOf(i), Running(i)', request'[i].end = "idle"
  PROVE  /\ request[i].end = "idle" /\ request[i].pc \in Nat /\ request[i].pc # 0
         /\ At(i) = Program(i)[request[i].pc]
         /\ \/ Stays(request[i], request'[i])
            \/ /\ MovesTo(i, "idle", request'[i].kept)
               /\ request'[i].pc \in Nat /\ request[i].pc < request'[i].pc
               /\ \A m \in (request[i].pc + 1)..(request'[i].pc - 1) : Program(i)[m].do = "check"
<1>1. Running(i) /\ request[i].pc \in Nat /\ request[i].pc # 0 /\ At(i) = Program(i)[request[i].pc]
  BY Moves, RunningFacts
<1>2. CASE Stays(request[i], request'[i])
  BY <1>1, <1>2 DEF Stays
<1>3. CASE ~Stays(request[i], request'[i])
  <2>1. PICK end \in EndsOf, kept \in Docs : MovesTo(i, end, kept)
    BY <1>3, Moves
  <2>2. After(name, request[i], request'[i], end, kept) /\ request[i].program = Program(i)
    BY <2>1 DEF MovesTo, Goes, Program
  <2>3. request'[i].pc # 0
    <3>1. request'[i].pc > 0
      BY DEF Running
    <3> QED
      BY <3>1
  <2>4. /\ end = "idle" /\ request'[i].kept = kept
        /\ request'[i].pc \in (request[i].pc + 1)..Len(request[i].program)
        /\ \A m \in (request[i].pc + 1)..(request'[i].pc - 1) : Program(i)[m].do = "check"
    BY <2>2, <2>3 DEF After
  <2>5. request[i].end = "idle"
    BY <2>1, <2>4 DEF MovesTo
  <2>6. Len(request[i].program) \in Nat
    BY <1>1, RunningFacts DEF Program
  <2> QED
    BY <1>1, <2>1, <2>4, <2>5, <2>6
<1> QED
  BY <1>2, <1>3

LEMMA KeptOwn ==
  ASSUME PackageTypeOK, PackageTypeOK', Keeps, AloneInv, KeptFormat, KeptInv, NEW i \in Requests,
         StepOf(i), KeptFormat'
  PROVE  (AskedFree(i) /\ LoadedAll(i) /\ WroteOwn(i))'
<1> DEFINE r == request[i]
           s == request'[i]
           p == Program(i)
<1>1. /\ Running(i) /\ r.op # "none" /\ Version(i) \in Versions
      /\ name' = name /\ shared' = shared
      /\ \A k \in Requests : k # i => request'[k] = request[k]
  BY Moves, RunningFacts DEF Others
<1>2. /\ s.op = r.op /\ Version(i)' = Version(i) /\ Program(i)' = p
  BY <1>1 DEF Keeps, Version, Program
<1>3. ASSUME s.end = "idle", NEW k \in Requests, Announced(k)'
      PROVE  Announced(k) /\ request[k].op # "none" /\ Version(k)' = Version(k)
  <2>1. Announced(k)
    BY <1>1, <1>3 DEF Announced
  <2>2. request[k].op # "none"
    BY <2>1 DEF Announced, Publications
  <2> QED
    BY <2>1, <2>2 DEF Version, Keeps
<1>4. AskedFree(i)'
  <2> SUFFICES ASSUME PastGuard(i)', NEW k \in Requests, Announced(k)', Version(k)' = Version(i)
               PROVE  Removed(Version(k))'
    BY <1>2 DEF AskedFree
  <2>1. Running(i)' /\ s.end = "idle" /\ r.op \in Publications /\ Asked(name, p, s.pc)
    BY <1>1, <1>2 DEF PastGuard, Publishing
  <2>2. Announced(k) /\ request[k].op # "none" /\ Version(k) = Version(i)
    BY <1>3, <2>1
  <2>3. CASE Asked(name, p, r.pc)
    <3>1. PastGuard(i)
      BY <1>1, <2>1, <2>3, GoesOn DEF PastGuard, Publishing
    <3>2. Removed(Version(k))
      BY <2>2, <3>1 DEF KeptInv, AskedFree
    <3> QED
      BY <2>2, <3>2, RemovedOf
  <2>4. CASE ~Asked(name, p, r.pc)
    <3>1. /\ MovesTo(i, "idle", s.kept) /\ s.pc \in Nat /\ r.pc < s.pc
          /\ \A m \in (r.pc + 1)..(s.pc - 1) : p[m].do = "check"
      BY <2>1, <2>4, GoesOn DEF Stays
    <3>2. r.pc \in Nat /\ r.pc # 0 /\ At(i) = p[r.pc]
      BY <2>1, GoesOn
    <3>3. At(i).do \in {"guard", "refuse"} /\ At(i).at \in Guards(name)
      BY <2>1, <2>4, <3>1, <3>2, Behind
    <3>4. ~Present(At(i).at, Version(i))
      BY <3>1, <3>3 DEF MovesTo, Passed, KeptFormat
    <3>5. Removed(Version(k))
      BY <2>2, <3>3, <3>4 DEF KeptInv, AnnouncedHeld, Held
    <3> QED
      BY <2>2, <3>5, RemovedOf
  <2> QED
    BY <2>3, <2>4
<1>5. LoadedAll(i)'
  <2> SUFFICES ASSUME InRegion(i)', NEW g \in Guards(name), Loaded(p, s.pc, g),
                      NEW k \in Requests, Announced(k)'
               PROVE  Removed(Version(k))' \/ s.kept[Version(k)'] # Absent
    BY <1>1, <1>2 DEF LoadedAll
  <2>1. Running(i)' /\ s.end = "idle"
    BY DEF InRegion
  <2>2. Announced(k) /\ request[k].op # "none" /\ Version(k)' = Version(k)
    BY <1>3, <2>1
  <2>3. CASE InRegion(i) /\ Loaded(p, r.pc, g) /\ s.kept = r.kept
    <3>1. Removed(Version(k)) \/ r.kept[Version(k)] # Absent
      BY <2>2, <2>3 DEF KeptInv, LoadedAll
    <3> QED
      BY <2>2, <2>3, <3>1, RemovedOf
  <2>4. CASE Stays(r, s)
    <3>1. InRegion(i)
      BY <1>1, <1>2, <2>1, <2>4 DEF Stays, InRegion
    <3> QED
      BY <2>3, <2>4, <3>1 DEF Stays
  <2>5. CASE ~Stays(r, s)
    <3>1. /\ MovesTo(i, "idle", s.kept) /\ s.pc \in Nat /\ r.pc < s.pc
          /\ \A m \in (r.pc + 1)..(s.pc - 1) : p[m].do = "check"
      BY <2>1, <2>5, GoesOn
    <3>2. r.pc \in Nat /\ r.pc # 0 /\ At(i) = p[r.pc] /\ r.end = "idle"
      BY <2>1, GoesOn
    <3>3. \/ At(i).do = "load" /\ At(i).at = g
          \/ Loaded(p, r.pc, g) /\ At(i).do \notin {"load", "fold", "scan", "lock", "unlock"}
      BY <3>1, <3>2, Behind
    <3>4. CASE At(i).do = "load" /\ At(i).at = g
      <4>1. s.kept = tree[g]
        BY <3>1, <3>4 DEF MovesTo
      <4>2. Removed(Version(k)) \/ tree[g][Version(k)] # Absent
        BY <2>2 DEF KeptInv, AnnouncedHeld, Held, Present
      <4> QED
        BY <2>2, <4>1, <4>2, RemovedOf
    <3>5. CASE Loaded(p, r.pc, g) /\ At(i).do \notin {"load", "fold", "scan", "lock", "unlock"}
      <4>1. s.kept = r.kept /\ Goes(i, "idle", s.kept)
        BY <3>1, <3>5 DEF MovesTo
      <4>2. InRegion(i)
        BY <1>1, <3>2, <3>5, <4>1, RegionGoes
      <4> QED
        BY <2>3, <3>5, <4>1, <4>2
    <3> QED
      BY <3>3, <3>4, <3>5
  <2> QED
    BY <2>4, <2>5
<1>6. WroteOwn(i)'
  <2> SUFFICES ASSUME Publishing(i)', NEW t \in Watched(name), Wrote(p, s.pc, t)
               PROVE  Removed(Version(i))' \/ tree'[t][Version(i)].by = i
    BY <1>1, <1>2 DEF WroteOwn
  <2>1. Running(i)' /\ s.end = "idle" /\ r.op \in Publications
    BY <1>2 DEF Publishing
  <2>2. Publishing(i)
    BY <1>1, <2>1, GoesOn DEF Publishing
  <2>3. CASE Stays(r, s)
    BY <2>2, <2>3, OwnAfter DEF Stays
  <2>4. CASE ~Stays(r, s)
    <3>1. /\ MovesTo(i, "idle", s.kept) /\ s.pc \in Nat /\ r.pc < s.pc
          /\ \A m \in (r.pc + 1)..(s.pc - 1) : p[m].do = "check"
      BY <2>1, <2>4, GoesOn
    <3>2. r.pc \in Nat /\ r.pc # 0 /\ At(i) = p[r.pc]
      BY <2>1, GoesOn
    <3>3. \/ At(i).do \in {"write", "put"} /\ At(i).at = t /\ ~At(i).try
          \/ Wrote(p, r.pc, t)
      BY <3>1, <3>2, Behind
    <3>4. At(i).do \in {"write", "put"} /\ ~At(i).try => Change(i)
      BY <3>1 DEF MovesTo, Changes
    <3> QED
      BY <2>2, <3>3, <3>4, OwnAfter
  <2> QED
    BY <2>3, <2>4
<1> QED
  BY <1>4, <1>5, <1>6

LEMMA KeptAdvance ==
  ASSUME PackageTypeOK, PackageTypeOK', Keeps, AloneInv, KeptFormat, KeptInv, NEW i \in Requests,
         StepOf(i), KeptFormat'
  PROVE  KeptInv'
<1>1. ASSUME NEW k \in Requests PROVE AnnouncedHeld(k)'
  <2> SUFFICES ASSUME Announced(k)' PROVE (Removed(Version(k)) \/ Held(k))'
    BY DEF AnnouncedHeld
  <2>1. CASE Announced(k)
    BY <2>1, HeldStays
  <2>2. CASE ~Announced(k)
    <3>1. k = i
      BY <2>2, Moves DEF Others, Announced
    <3> QED
      BY <2>2, <3>1, NewAnnounced
  <2> QED
    BY <2>1, <2>2
<1>2. ASSUME NEW k \in Requests PROVE (AskedFree(k) /\ LoadedAll(k) /\ WroteOwn(k))'
  BY KeptOwn, KeptOthers
<1> QED
  BY <1>1, <1>2 DEF KeptInv

\* A step that leaves the files alone, after which every request is as it was,
\* is over without an answer, or has only checks behind it.
Fresh(r) ==
  /\ r.end # "ok" /\ ~Asked(name, r.program, r.pc)
  /\ \A s : ~Loaded(r.program, r.pc, s) /\ ~Wrote(r.program, r.pc, s)
LEMMA KeptPlain ==
  ASSUME PackageTypeOK, PackageTypeOK', Keeps, KeptFormat, KeptInv, tree' = tree, shared' = shared,
         \A j \in Requests :
           \/ request'[j] = request[j]
           \/ ~Running(j)' /\ request'[j].end # "ok"
           \/ Fresh(request[j])'
  PROVE  KeptInv'
<1>1. name' = name /\ File' = File
  BY DEF Keeps, File
<1>2. ASSUME NEW k \in Requests, Announced(k)'
      PROVE  Announced(k) /\ request[k].op # "none" /\ Version(k)' = Version(k)
  <2>1. request'[k] = request[k]
    BY <1>2 DEF Announced, Fresh
  <2>2. Announced(k)
    BY <1>2, <2>1 DEF Announced
  <2> QED
    BY <2>1, <2>2 DEF Announced, Publications, Version
<1>3. ASSUME NEW k \in Requests PROVE AnnouncedHeld(k)'
  <2> SUFFICES ASSUME Announced(k)' PROVE (Removed(Version(k)) \/ Held(k))'
    BY DEF AnnouncedHeld
  <2>1. Announced(k) /\ request[k].op # "none" /\ Version(k)' = Version(k)
    BY <1>2
  <2>2. Removed(Version(k)) \/ Held(k)
    BY <2>1 DEF KeptInv, AnnouncedHeld
  <2>3. Held(k) => Held(k)'
    BY <1>1, <2>1 DEF Held, Present
  <2> QED
    BY <2>1, <2>2, <2>3, RemovedOf
<1>4. ASSUME NEW j \in Requests PROVE (AskedFree(j) /\ LoadedAll(j) /\ WroteOwn(j))'
  <2>1. CASE request'[j] = request[j]
    <3>1. /\ Publishing(j)' <=> Publishing(j)
          /\ PastGuard(j)' <=> PastGuard(j)
          /\ InRegion(j)' <=> InRegion(j)
          /\ Version(j)' = Version(j) /\ Program(j)' = Program(j)
      BY <1>1, <2>1 DEF Publishing, PastGuard, InRegion, Running, Program, Version
    <3>2. AskedFree(j)'
      <4> SUFFICES ASSUME PastGuard(j), NEW k \in Requests, Announced(k)', Version(k)' = Version(j)
                   PROVE  Removed(Version(k))'
        BY <3>1 DEF AskedFree
      <4>1. Announced(k) /\ request[k].op # "none" /\ Version(k) = Version(j)
        BY <1>2
      <4>2. Removed(Version(k))
        BY <4>1 DEF KeptInv, AskedFree
      <4> QED
        BY <4>1, <4>2, RemovedOf
    <3>3. LoadedAll(j)'
      <4> SUFFICES ASSUME InRegion(j), NEW g \in Guards(name), Loaded(Program(j), request[j].pc, g),
                          NEW k \in Requests, Announced(k)'
                   PROVE  Removed(Version(k))' \/ request'[j].kept[Version(k)'] # Absent
        BY <1>1, <2>1, <3>1 DEF LoadedAll
      <4>1. Announced(k) /\ request[k].op # "none" /\ Version(k)' = Version(k)
        BY <1>2
      <4>2. Removed(Version(k)) \/ request[j].kept[Version(k)] # Absent
        BY <4>1 DEF KeptInv, LoadedAll
      <4> QED
        BY <2>1, <4>1, <4>2, RemovedOf
    <3>4. WroteOwn(j)'
      <4> SUFFICES ASSUME Publishing(j), NEW s \in Watched(name), Wrote(Program(j), request[j].pc, s)
                   PROVE  Removed(Version(j))' \/ tree[s][Version(j)].by = j
        BY <1>1, <2>1, <3>1 DEF WroteOwn
      <4>1. request[j].op # "none"
        BY RunningFacts DEF Publishing
      <4>2. Removed(Version(j)) \/ tree[s][Version(j)].by = j
        BY DEF KeptInv, WroteOwn
      <4> QED
        BY <4>1, <4>2, RemovedOf
    <3> QED
      BY <3>2, <3>3, <3>4
  <2>2. CASE ~Running(j)'
    BY <2>2 DEF AskedFree, LoadedAll, WroteOwn, PastGuard, Publishing, InRegion
  <2>3. CASE Fresh(request[j])'
    BY <2>3 DEF AskedFree, LoadedAll, WroteOwn, PastGuard, Fresh, Program
  <2> QED
    BY <2>1, <2>2, <2>3
<1> QED
  BY <1>3, <1>4 DEF KeptInv

LEMMA KeptInit == Init => KeptInv
<1> SUFFICES ASSUME Init, NEW i \in Requests
             PROVE  AnnouncedHeld(i) /\ AskedFree(i) /\ LoadedAll(i) /\ WroteOwn(i)
  BY DEF KeptInv
<1>1. ~Running(i) /\ request[i].op = "none"
  BY IdleFields DEF Init, Running
<1> QED
  BY <1>1 DEF AnnouncedHeld, Announced, Publications, AskedFree, LoadedAll, WroteOwn, PastGuard,
     Publishing, InRegion

LEMMA KeptNext ==
  ASSUME PackageTypeOK, PackageTypeOK', Keeps, AloneInv, KeptInv, [Next]_vars
  PROVE  KeptInv'
<1> SUFFICES ASSUME KeptFormat' PROVE KeptInv'
  BY DEF KeptInv
<1>1. object \in Nat /\ object # 0
  BY PackageStoreAssumption DEF PackageTypeOK
<1>6. /\ torn = {} /\ misled = {} /\ misread = {}
      /\ torn' = {} /\ misread' = {}
      /\ \A i \in Requests : AnyStep(i) => StepOf(i)
      /\ Crash => tree' = tree
  BY LapsesGrow DEF KeptFormat
<1>2. ASSUME NEW i \in Requests, MayBegin(i), NEW op \in Operations, NEW v \in Versions,
             NEW program \in Programs(name, op), Begin(i, op, program, v)
      PROVE  KeptInv'
  <2>1. /\ UNCHANGED <<name, immutable, shared, tree, object>>
        /\ Others(i) /\ Started(name, request'[i], op, program, v, object)
    BY <1>2, BeginGoes
  <2>2. KeptFormat
    BY <1>6, <2>1 DEF KeptFormat, OneMutex
  <2>3. Fresh(request[i])'
    <3>1. \A m \in 1..(request'[i].pc - 1) : request'[i].program[m].do = "check"
      BY <2>1 DEF Started
    <3>2. request'[i].end # "ok"
      BY <2>1 DEF Started
    <3>3. /\ ~Asked(name', request'[i].program, request'[i].pc)
          /\ \A s : /\ ~Loaded(request'[i].program, request'[i].pc, s)
                    /\ ~Wrote(request'[i].program, request'[i].pc, s)
      BY <3>1 DEF Asked, Loaded, Wrote
    <3> QED
      BY <3>2, <3>3 DEF Fresh
  <2> QED
    BY <2>1, <2>2, <2>3, KeptPlain DEF Others
<1>3. ASSUME NEW i \in Requests, AnyStep(i)
      PROVE  KeptInv'
  <2>1. UNCHANGED <<name, immutable, shared, object>>
    BY <1>3, <1>6, Moves
  <2>2. KeptFormat
    BY <1>6, <2>1 DEF KeptFormat, OneMutex
  <2> QED
    BY <1>3, <1>6, <2>2, KeptAdvance
<1>4. CASE Crash
  <2>1. UNCHANGED <<name, immutable, shared, object, tree>>
    BY <1>4, <1>6, CrashGoes
  <2>2. KeptFormat
    BY <1>6, <2>1 DEF KeptFormat, OneMutex
  <2>3. ASSUME NEW j \in Requests
        PROVE  request'[j] = request[j] \/ (~Running(j)' /\ request'[j].end # "ok")
    <3>1. Running(j) => request'[j].pc = 0 /\ request'[j].end = "failed"
      BY <1>4, CrashGoes
    <3>2. ~Running(j) => request'[j] = request[j]
      BY <1>4, CrashGoes
    <3> QED
      BY <3>1, <3>2 DEF Running
  <2> QED
    BY <2>1, <2>2, <2>3, KeptPlain
<1>5. CASE Reload \/ Done \/ UNCHANGED vars
  <2>1. UNCHANGED <<name, immutable, shared, tree, request>> /\ (object' = object \/ object' = object + 1)
    BY <1>5 DEF Reload, Done, vars
  <2>2. KeptFormat
    BY <1>1, <1>6, <2>1 DEF KeptFormat, OneMutex
  <2> QED
    BY <2>1, <2>2, KeptPlain
<1> QED
  BY <1>2, <1>3, <1>4, <1>5, NextCases, Zenon

\* With immutable versions the file of an acknowledged publication is never
\* replaced, whatever requests follow or overlap it under the mutex, and wherever
\* one of them fails or the process crashes, unless a write in place was cut off or
\* a request went on without what it could not read.
THEOREM ImmutableKeptAlways == Spec => []ImmutableKept
<1> DEFINE Inv == PackageTypeOK /\ AloneInv /\ KeptInv
<1>1. Init => Inv
  BY TypeInit, AloneInit, KeptInit
<1>2. Inv /\ [Next]_vars => Inv'
  BY TypeNext, AloneNext, KeptNext
<1>3. Inv => ImmutableKept
  BY DEF KeptInv, KeptFormat, ImmutableKept, AnnouncedHeld, Announced, Acked, Held
<1> QED
  BY <1>1, <1>2, <1>3, PTL DEF Spec

-----------------------------------------------------------------------------
(***************************************************************************)
(* Indexes made anew, where requests come one at a time. A request that    *)
(* changes a version and has read what the indexes are made from has in its*)
(* memory, and in every index it has copied, the versions of that.         *)
(***************************************************************************)
Agrees(doc, other) == \A v \in Versions : doc[v] # Absent <=> other[v] # Absent
Made == MadeFrom[name]
RemakeFormat == ~shared /\ name \in DOMAIN MadeFrom
LastBegun(i) == request[i].op # "none" /\ \A j \in Begun : j <= i
Changing(i) == request[i].op \in Publications \cup Removals
InOrder ==
  /\ \A i, j \in Requests : i < j /\ request[j].op # "none" => request[i].op # "none"
  /\ ~shared => \A i \in Requests : Running(i) => LastBegun(i)
Remaking(i) ==
  Running(i) /\ request[i].end = "idle" =>
    \A b \in 1..Len(Program(i)) :
      RebuildsFrom(name, Program(i), b) /\ b < request[i].pc =>
        /\ Agrees(request[i].kept, tree[Made])
        /\ \A s \in Slots[name] :
             Copied(Program(i), b, request[i].pc, s) => Agrees(tree[s], tree[Made])
Remade(i) == request[i].end = "ok" => \A s \in Listings : Agrees(tree[s], tree[Made])
RemadeInv ==
  RemakeFormat =>
    \A i \in Requests : LastBegun(i) /\ Changing(i) /\ i \notin misread => Remaking(i) /\ Remade(i)

LEMMA RemakeFacts ==
  ASSUME PackageTypeOK, RemakeFormat, NEW i \in Requests, Running(i), Changing(i)
  PROVE  /\ Made \in Slots[name]
         /\ \E b \in DOMAIN Program(i) : RebuildsFrom(name, Program(i), b)
         /\ \A k \in DOMAIN Program(i) : Program(i)[k].do \notin {"unless", "known", "last"}
<1>1. /\ name \in Names /\ request[i].op \in Publications \cup Removals
      /\ Program(i) \in Programs(name, request[i].op)
  BY RunningFacts DEF Changing
<1>2. Rebuilds(name, Program(i))
  BY <1>1, Following, Zenon DEF Follows, RemakeFormat
<1> QED
  BY <1>2, Zenon DEF Rebuilds, Made

\* A read and a mutex leave the files alone.
LEMMA LeavesTree ==
  ASSUME PackageTypeOK, NEW i \in Requests, StepOf(i),
         At(i).do \in {"load", "lock", "unlock"}
  PROVE  tree' = tree
<1>1. CASE Change(i) \/ Repair(i) \/ DeleteNext(i) \/ FailChange(i)
  BY <1>1, ChangeGoes, RepairGoes, DeleteNextGoes, FailChangeGoes DEF Changes
<1>2. CASE FailDelete(i) \/ Asking(i) \/ Gather(i) \/ DeleteEnd(i) \/ Acquire(i) \/ Release(i)
  BY <1>2, FailDeleteGoes, AskingGoes, GatherGoes, DeleteEndGoes, AcquireGoes, ReleaseGoes
<1> QED
  BY <1>1, <1>2 DEF StepOf, Advance, Asking

\* The step of a request that has come to the read, or is past it.
LEMMA RebuildStep ==
  ASSUME PackageTypeOK, Keeps, Made \in Slots[name], NEW i \in Requests,
         StepOf(i), Running(i), request[i].end = "idle",
         NEW kept, MovesTo(i, "idle", kept), Remaking(i),
         NEW b \in 1..Len(Program(i)), RebuildsFrom(name, Program(i), b),
         NEW l \in Nat, b < l, request[i].pc < l,
         \A m \in (request[i].pc + 1)..(l - 1) : Program(i)[m].do = "check"
  PROVE  /\ Agrees(kept, tree'[Made])
         /\ \A s \in Slots[name] : Copied(Program(i), b, l, s) => Agrees(tree'[s], tree'[Made])
<1> DEFINE p == Program(i)
           k == request[i].pc
           M == Made
<1>1. /\ k \in Nat /\ k \in 1..Len(p) /\ Len(p) \in Nat /\ At(i) = p[k]
      /\ SlotsOf(At(i)) \subseteq Slots[name] /\ b \in Nat
  BY RunningFacts
<1>2. /\ p[b].at = M
      /\ p[b].do = "load" \/ (p[b].do = "scan" /\ p[b].by # M)
      /\ \A m \in (b + 1)..Len(p) :
           \/ p[m].do \in {"lock", "unlock"}
           \/ p[m].do = "copy" /\ p[m].at # M /\ ~p[m].try
           \/ p[m].do = "load" /\ Copied(p, b, m, p[m].at)
  BY DEF RebuildsFrom, Made
<1>3. name' = name /\ tree \in [Slots[name] -> Docs]
  BY DEF Keeps, PackageTypeOK
<1> HIDE DEF p, k, M
<1>4. b = k \/ b < k
  <2>1. CASE b > k
    <3>1. b \in (k + 1)..(l - 1)
      BY <1>1, <2>1
    <3> QED
      BY <1>2, <3>1 DEF k, p
  <2> QED
    BY <1>1, <2>1
<1>5. CASE b = k
  <2>1. \A s : ~Copied(p, b, l, s)
    BY <1>5 DEF Copied, p, k
  <2>2. CASE At(i).do = "load"
    <3>1. tree' = tree /\ kept = tree[M]
      BY <1>1, <1>2, <1>5, <2>2, LeavesTree DEF MovesTo
    <3> QED
      BY <2>1, <3>1 DEF Agrees, M, p
  <2>3. CASE At(i).do = "scan" /\ At(i).by # M
    <3>1. Repair(i)
      <4>1. ~Asking(i)
        <5> SUFFICES ASSUME Asking(i) PROVE FALSE
          OBVIOUS
        <5>1. PICK end \in EndsOf :
                /\ Goes(i, end, request[i].kept)
                /\ end = "idle" => At(i).do \in Asks
                /\ end = "ok" => At(i).do \in {"unless", "known", "last"}
          BY AskingGoes
        <5>2. end # "idle" /\ end # "ok"
          BY <2>3, <5>1 DEF Asks
        <5> QED
          BY <5>1, <5>2 DEF MovesTo, Goes, After
      <4> QED
        BY <2>3, <4>1, ChangeGoes, DeleteNextGoes, FailChangeGoes, FailDeleteGoes, GatherGoes,
           DeleteEndGoes, AcquireGoes, ReleaseGoes DEF StepOf, Advance, Asking, Changes
    <3>2. PICK metas \in Docs : tree' = [tree EXCEPT ![At(i).by] = metas]
      BY <3>1, RepairGoes
    <3>3. tree'[M] = tree[M]
      BY <1>3, <2>3, <3>2 DEF M
    <3>4. \A u \in Versions : kept[u] # Absent <=> tree[M][u] # Absent
      BY <1>1, <1>2, <1>5, <2>3 DEF MovesTo
    <3> QED
      BY <2>1, <3>3, <3>4 DEF Agrees, M, p
  <2> QED
    BY <1>1, <1>2, <1>5, <2>2, <2>3
<1>6. CASE b < k
  <2>1. \A s : Copied(p, b, l, s) => Copied(p, b, k, s) \/ (p[k].do = "copy" /\ p[k].at = s)
    <3>1. \A m \in (b + 1)..(l - 1) : m \in (b + 1)..(k - 1) \/ m = k \/ m \in (k + 1)..(l - 1)
      BY <1>1
    <3>2. \A m \in (k + 1)..(l - 1) : p[m].do # "copy"
      BY DEF p, k
    <3> QED
      BY <3>1, <3>2 DEF Copied
  <2>2. /\ Agrees(request[i].kept, tree[M])
        /\ \A s \in Slots[name] : Copied(p, b, k, s) => Agrees(tree[s], tree[M])
    BY <1>6 DEF Remaking, p, k, M
  <2>3. k \in (b + 1)..Len(p)
    BY <1>1, <1>6
  <2>4. CASE p[k].do \in {"lock", "unlock"}
    <3>1. tree' = tree /\ kept = request[i].kept
      BY <1>1, <2>4, LeavesTree DEF MovesTo
    <3> QED
      BY <2>1, <2>2, <2>4, <3>1 DEF M, p
  <2>5. CASE p[k].do = "load" /\ Copied(p, b, k, p[k].at)
    <3>1. tree' = tree /\ kept = tree[p[k].at]
      BY <1>1, <2>5, LeavesTree DEF MovesTo
    <3>2. p[k].at \in Slots[name]
      BY <1>1, <2>5 DEF SlotsOf
    <3> QED
      BY <2>1, <2>2, <2>5, <3>1, <3>2 DEF M, p
  <2>6. CASE p[k].do = "copy" /\ p[k].at # M /\ ~p[k].try
    <3>1. Change(i) /\ kept = request[i].kept
      BY <1>1, <2>6 DEF MovesTo, Changes
    <3>2. tree' = [tree EXCEPT ![p[k].at] = request[i].kept]
      BY <1>1, <2>6, <3>1, ChangeGoes, WrittenExactly
    <3>3. p[k].at \in Slots[name]
      BY <1>1, <2>6 DEF SlotsOf
    <3>4. /\ tree'[p[k].at] = request[i].kept
          /\ \A s \in Slots[name] : s # p[k].at => tree'[s] = tree[s]
      BY <1>3, <3>2, <3>3
    <3>5. tree'[M] = tree[M]
      BY <2>6, <3>4 DEF M
    <3> QED
      BY <2>1, <2>2, <3>1, <3>4, <3>5 DEF M, p
  <2> QED
    BY <1>2, <2>3, <2>4, <2>5, <2>6
<1> QED
  BY <1>4, <1>5, <1>6

\* A request stays where it is only while it deletes a tree.
LEMMA StaysAtTree ==
  ASSUME PackageTypeOK, NEW i \in Requests, StepOf(i),
         Stays(request[i], request'[i])
  PROVE  At(i).do = "tree"
<1>1. ASSUME NEW end, NEW kept, Goes(i, end, kept), Running(i) PROVE FALSE
  <2>1. request[i].pc \in Nat /\ request[i].pc # 0
    BY <1>1, RunningFacts
  <2>2. request'[i].pc \in (request[i].pc + 1)..Len(request[i].program) \/ request'[i].pc = 0
    BY <1>1 DEF Goes, After
  <2>3. request'[i].pc = request[i].pc
    BY DEF Stays
  <2> QED
    BY <2>1, <2>2, <2>3
<1>2. CASE Asking(i) \/ Gather(i) \/ Change(i) \/ Repair(i) \/ DeleteEnd(i)
  <2>1. Running(i) /\ \E end, kept : Goes(i, end, kept)
    BY <1>2, AskingGoes, GatherGoes, ChangeGoes, RepairGoes, DeleteEndGoes
  <2> QED
    BY <1>1, <2>1
<1>3. CASE Acquire(i) \/ Release(i) \/ FailChange(i)
  <2>1. Running(i) /\ \E end, kept : Goes(i, end, kept)
    BY <1>3, AcquireGoes, ReleaseGoes, FailChangeGoes
  <2> QED
    BY <1>1, <2>1
<1>4. CASE DeleteNext(i) \/ FailDelete(i)
  BY <1>4, DeleteNextGoes, FailDeleteGoes
<1> QED
  BY <1>2, <1>3, <1>4 DEF StepOf, Advance, Asking

\* The request that runs goes on, or ends.
LEMMA RemadeOwn ==
  ASSUME PackageTypeOK, PackageTypeOK', Keeps, RemakeFormat, NEW i \in Requests,
         StepOf(i), Changing(i), Remaking(i), Remade(i)
  PROVE  (Remaking(i) /\ Remade(i))'
<1> DEFINE r == request[i]
           s == request'[i]
           p == Program(i)
<1>1. /\ Running(i) /\ r.op # "none" /\ r.pc \in Nat /\ r.pc \in 1..Len(p) /\ Len(p) \in Nat
      /\ At(i) = p[r.pc] /\ (At(i).do # "unlock" => r.end = "idle") /\ name \in Names
      /\ DOMAIN p = 1..Len(p) /\ p \in Programs(name, r.op) /\ r.op \in Operations
  BY Moves, RunningFacts
<1>2. Program(i)' = p /\ name' = name /\ Made' = Made /\ Listings' = Listings
  BY <1>1 DEF Keeps, Program, Made, Listings
<1>3. /\ Made \in Slots[name]
      /\ \A k \in DOMAIN p : p[k].do \notin {"unless", "known", "last"}
  BY <1>1, RemakeFacts
<1>4. Remaking(i)'
  <2> SUFFICES ASSUME Running(i)', s.end = "idle", NEW b \in 1..Len(p), RebuildsFrom(name, p, b),
                      b < s.pc
               PROVE  /\ Agrees(s.kept, tree'[Made])
                      /\ \A t \in Slots[name] : Copied(p, b, s.pc, t) => Agrees(tree'[t], tree'[Made])
    BY <1>2 DEF Remaking, Agrees
  <2>1. CASE Stays(r, s)
    <3>1. r.pc \in (b + 1)..Len(p)
      BY <1>1, <2>1 DEF Stays
    <3>2. p[r.pc].do = "tree"
      BY <1>1, <2>1, StaysAtTree
    <3> QED
      BY <3>1, <3>2 DEF RebuildsFrom
  <2>2. CASE ~Stays(r, s)
    <3>1. /\ r.end = "idle" /\ MovesTo(i, "idle", s.kept) /\ s.pc \in Nat /\ r.pc < s.pc
          /\ \A m \in (r.pc + 1)..(s.pc - 1) : p[m].do = "check"
      BY <2>2, GoesOn
    <3> QED
      BY <1>1, <1>3, <3>1, RebuildStep
  <2> QED
    BY <2>1, <2>2
<1>5. Remade(i)'
  <2> SUFFICES ASSUME s.end = "ok", NEW t \in Listings PROVE Agrees(tree'[t], tree'[Made])
    BY <1>2 DEF Remade, Agrees
  <2>1. CASE r.end = "ok"
    <3>1. At(i).do = "unlock"
      BY <1>1, <2>1
    <3>2. tree' = tree
      BY <3>1, LeavesTree
    <3> QED
      BY <2>1, <3>2 DEF Remade
  <2>2. CASE r.end # "ok"
    <3>1. ~Stays(r, s)
      BY <2>2 DEF Stays
    <3>2. PICK end \in EndsOf, kept \in Docs : MovesTo(i, end, kept)
      BY <3>1, Moves
    <3>3. After(name, r, s, end, kept) /\ r.program = p
      BY <3>2 DEF MovesTo, Goes, Program
    <3>4. end # "ok"
      BY <1>1, <1>3, <2>2, <3>2 DEF MovesTo
    <3>5. /\ end = "idle" /\ r.end = "idle" /\ \A m \in (r.pc + 1)..Len(p) : p[m].do = "check"
      BY <3>2, <3>3, <3>4 DEF MovesTo, After
    <3>6. PICK b \in 1..Len(p) : RebuildsFrom(name, p, b)
      BY <1>1, RemakeFacts
    <3>7. PICK l \in Nat : l = Len(p) + 1
      BY <1>1
    <3>8. /\ b < l /\ r.pc < l /\ l - 1 = Len(p)
      BY <1>1, <3>7
    <3>9. \A u \in Slots[name] : Copied(p, b, l, u) => Agrees(tree'[u], tree'[Made])
      BY <1>1, <1>3, <3>2, <3>5, <3>6, <3>8, RebuildStep
    <3>10. Copied(p, b, l, t)
      BY <3>6, <3>7 DEF RebuildsFrom, Listings
    <3>11. t \in Slots[name]
      <4>1. PICK m \in 1..Len(p) : p[m].do = "copy" /\ p[m].at = t
        BY <3>8, <3>10 DEF Copied
      <4>2. SlotsOf(p[m]) \subseteq Slots[name]
        BY <1>1, <4>1, StepFacts
      <4> QED
        BY <4>1, <4>2 DEF SlotsOf
    <3> QED
      BY <3>9, <3>10, <3>11
  <2> QED
    BY <2>1, <2>2
<1> QED
  BY <1>4, <1>5

\* A write that is cut off makes no index of what it read.
LEMMA RemadeCut ==
  ASSUME PackageTypeOK, PackageTypeOK', Keeps, RemakeFormat, NEW i \in Requests,
         CutOff(i), Changing(i)
  PROVE  (Remaking(i) /\ Remade(i))'
<1> DEFINE r == request[i]
           s == request'[i]
           p == Program(i)
<1>1. /\ Running(i) /\ r.end = "idle" /\ At(i).do \in Changes
      /\ \/ At(i).try /\ Goes(i, "idle", r.kept)
         \/ ~At(i).try /\ Goes(i, "failed", r.kept)
  BY CutOffGoes
<1>2. /\ r.pc \in Nat /\ r.pc \in 1..Len(p) /\ Len(p) \in Nat /\ At(i) = p[r.pc] /\ r.op # "none"
  BY <1>1, RunningFacts
<1>3. Program(i)' = p /\ name' = name
  BY <1>2 DEF Keeps, Program
<1>4. CASE At(i).try /\ Goes(i, "idle", r.kept)
  <2>1. After(name, r, s, "idle", r.kept) /\ r.program = p
    BY <1>4 DEF Goes, Program
  <2>2. ASSUME NEW b \in 1..Len(p), RebuildsFrom(name, p, b), NEW l \in Nat, b < l,
               \A m \in (r.pc + 1)..(l - 1) : p[m].do = "check"
        PROVE  FALSE
    <3>1. p[b].do \in {"load", "scan"}
      BY <2>2 DEF RebuildsFrom
    <3>2. \A m \in (b + 1)..Len(p) : p[m].do \in {"lock", "unlock", "load"} \/ ~p[m].try
      BY <2>2 DEF RebuildsFrom
    <3>3. p[r.pc].do \notin {"load", "scan", "lock", "unlock"}
      BY <1>1, <1>2 DEF Changes
    <3>4. b # r.pc /\ ~(b < r.pc)
      <4>1. b < r.pc => r.pc \in (b + 1)..Len(p)
        BY <1>2
      <4> QED
        BY <1>2, <1>4, <3>1, <3>2, <3>3, <4>1
    <3>5. b \in (r.pc + 1)..(l - 1)
      BY <1>2, <2>2, <3>4
    <3> QED
      BY <2>2, <3>1, <3>5
  <2>3. Remaking(i)'
    <3> SUFFICES ASSUME Running(i)', NEW b \in 1..Len(p), RebuildsFrom(name, p, b), b < s.pc
                 PROVE  FALSE
      BY <1>3 DEF Remaking
    <3>1. s.pc # 0
      BY <1>2
    <3>2. s.pc \in (r.pc + 1)..Len(p) /\ \A m \in (r.pc + 1)..(s.pc - 1) : p[m].do = "check"
      BY <2>1, <3>1 DEF After
    <3>3. s.pc \in Nat
      BY <1>2, <3>2
    <3> QED
      BY <2>2, <3>2, <3>3
  <2>4. Remade(i)'
    <3> SUFFICES ASSUME s.end = "ok" PROVE FALSE
      BY DEF Remade
    <3>1. \A m \in (r.pc + 1)..Len(p) : p[m].do = "check"
      BY <2>1 DEF After
    <3>2. PICK b \in 1..Len(p) : RebuildsFrom(name, p, b)
      <4>1. DOMAIN p = 1..Len(p)
        BY <1>1, RunningFacts
      <4> QED
        BY <1>1, <4>1, RemakeFacts
    <3>3. PICK l \in Nat : l = Len(p) + 1
      BY <1>2
    <3>4. b < l /\ l - 1 = Len(p)
      BY <1>2, <3>3
    <3> QED
      BY <2>2, <3>1, <3>2, <3>4
  <2> QED
    BY <2>3, <2>4
<1>5. CASE ~At(i).try /\ Goes(i, "failed", r.kept)
  <2>1. s.end = "failed" \/ s.pc = 0
    BY <1>5 DEF Goes, After
  <2>2. s.end = "failed"
    BY <1>5 DEF Goes, After
  <2> QED
    BY <2>2 DEF Remaking, Remade
<1> QED
  BY <1>1, <1>4, <1>5

\* A step that begins no request.
LEMMA OrderKept ==
  ASSUME InOrder, shared' = shared, \A j \in Requests : request'[j].op = request[j].op,
         \A j \in Requests : Running(j)' => Running(j)
  PROVE  InOrder' /\ \A j \in Requests : LastBegun(j)' <=> LastBegun(j)
<1>1. Begun' = Begun
  BY DEF Begun
<1>2. \A j \in Requests : LastBegun(j)' <=> LastBegun(j)
  BY <1>1 DEF LastBegun
<1> QED
  BY <1>2 DEF InOrder

LEMMA StepOrder ==
  ASSUME PackageTypeOK, PackageTypeOK', Keeps, InOrder, NEW i \in Requests,
         AnyStep(i)
  PROVE  InOrder' /\ \A j \in Requests : LastBegun(j)' <=> LastBegun(j)
<1>1. Running(i) /\ Others(i) /\ shared' = shared /\ request[i].op # "none"
  BY StepMoves, RunningFacts
<1>2. \A j \in Requests : request'[j].op = request[j].op
  BY <1>1 DEF Others, Keeps
<1>3. \A j \in Requests : Running(j)' => Running(j)
  BY <1>1, StillRuns
<1> QED
  BY <1>1, <1>2, <1>3, OrderKept

\* A request begins after all the others.
LEMMA BeginOrder ==
  ASSUME PackageTypeOK, PackageTypeOK', InOrder, NEW i \in Requests, MayBegin(i), NEW op \in Operations,
         NEW v \in Versions, NEW program \in Programs(name, op), Begin(i, op, program, v)
  PROVE  InOrder' /\ \A j \in Requests : LastBegun(j)' => j = i
<1>1. /\ request[i].op = "none" /\ Others(i) /\ shared' = shared
      /\ Started(name, request'[i], op, program, v, object)
  BY BeginGoes
<1>2. request'[i].op # "none" /\ \A j \in Requests \ {i} : request'[j] = request[j]
  BY <1>1 DEF Started, Others, Operations
<1>3. Requests \subseteq Nat /\ i \in Nat
  BY PackageStoreAssumption DEF Requests
<1>4. \A j \in Requests : j < i => request[j].op # "none"
  <2>1. \A j \in Requests : j < i => j \in 1..(i - 1)
    BY PackageStoreAssumption, <1>3 DEF Requests
  <2> QED
    BY <2>1 DEF MayBegin
<1>5. \A j \in Requests : request[j].op # "none" => j < i
  <2> SUFFICES ASSUME NEW j \in Requests, request[j].op # "none", ~(j < i) PROVE FALSE
    OBVIOUS
  <2>1. i < j
    BY <1>1, <1>3
  <2> QED
    BY <1>1, <2>1 DEF InOrder
<1>6. ASSUME NEW j \in Requests, request'[j].op # "none" PROVE j \in Nat /\ i \in Nat /\ j <= i
  <2>1. j \in Nat /\ i \in Nat
    BY <1>3
  <2>2. CASE j = i
    BY <2>1, <2>2
  <2>3. CASE j # i
    <3>1. j < i
      BY <1>2, <1>5, <1>6, <2>3
    <3> QED
      BY <2>1, <3>1
  <2> QED
    BY <2>2, <2>3
<1>7. LastBegun(i)'
  BY <1>2, <1>6 DEF LastBegun, Begun
<1>8. ASSUME NEW j \in Requests, LastBegun(j)' PROVE j = i
  <2>1. i \in Begun' /\ request'[j].op # "none"
    BY <1>2, <1>8 DEF Begun, LastBegun
  <2>2. i <= j /\ j <= i
    BY <1>6, <1>8, <2>1 DEF LastBegun
  <2> QED
    BY <1>3, <2>2
<1>9. \A k, j \in Requests : k < j /\ request'[j].op # "none" => request'[k].op # "none"
  <2> SUFFICES ASSUME NEW k \in Requests, NEW j \in Requests, k < j, request'[j].op # "none"
               PROVE  request'[k].op # "none"
    OBVIOUS
  <2>1. k \in Nat /\ j \in Nat /\ i \in Nat /\ j <= i
    BY <1>3, <1>6
  <2>2. k < i /\ k # i
    BY <2>1
  <2>3. request[k].op # "none"
    BY <1>4, <2>2
  <2> QED
    BY <1>2, <2>2, <2>3
<1>10. ~shared => \A j \in Requests : Running(j)' => j = i
  <2>1. ~shared => Quiet
    BY DEF MayBegin
  <2> QED
    BY <1>2, <2>1 DEF Quiet, Running
<1> QED
  BY <1>1, <1>7, <1>8, <1>9, <1>10 DEF InOrder

LEMMA RemadeInit == Init => InOrder /\ RemadeInv
<1> SUFFICES ASSUME Init PROVE InOrder /\ RemadeInv
  OBVIOUS
<1>1. \A i \in Requests : ~Running(i) /\ request[i].op = "none"
  BY IdleFields DEF Init, Running
<1> QED
  BY <1>1 DEF InOrder, RemadeInv, LastBegun

LEMMA RemadeNext ==
  ASSUME PackageTypeOK, PackageTypeOK', Keeps, InOrder, RemadeInv, [Next]_vars
  PROVE  InOrder' /\ RemadeInv'
<1>1. ASSUME NEW i \in Requests, MayBegin(i), NEW op \in Operations, NEW v \in Versions,
             NEW program \in Programs(name, op), Begin(i, op, program, v)
      PROVE  InOrder' /\ RemadeInv'
  <2>1. InOrder' /\ \A j \in Requests : LastBegun(j)' => j = i
    BY <1>1, BeginOrder
  <2>2. Started(name, request'[i], op, program, v, object)
    BY <1>1, BeginGoes
  <2>3. Remaking(i)'
    <3> SUFFICES ASSUME NEW b \in 1..Len(program), RebuildsFrom(name', program, b), b < request'[i].pc
                 PROVE  FALSE
      BY <2>2 DEF Remaking, Started, Program
    <3>1. Len(program) \in Nat
      BY StepFacts DEF PackageTypeOK
    <3>2. b \in 1..(request'[i].pc - 1)
      BY <2>2, <3>1 DEF Started
    <3>3. program[b].do = "check"
      BY <2>2, <3>2 DEF Started
    <3> QED
      BY <3>3 DEF RebuildsFrom
  <2>4. Remade(i)'
    BY <2>2 DEF Started, Remade
  <2> QED
    BY <2>1, <2>3, <2>4 DEF RemadeInv
<1>6. misread \subseteq misread'
  BY LapsesGrow
<1>7. ASSUME NEW i \in Requests, NEW j \in Requests, Running(i), RemakeFormat, LastBegun(j) PROVE j = i
  <2>1. LastBegun(i)
    BY <1>7 DEF InOrder, RemakeFormat
  <2>2. i \in Begun /\ j \in Begun
    BY <1>7, <2>1 DEF LastBegun, Begun
  <2>3. i <= j /\ j <= i
    BY <1>7, <2>1, <2>2 DEF LastBegun
  <2>4. i \in Nat /\ j \in Nat
    BY PackageStoreAssumption DEF Requests
  <2> QED
    BY <2>3, <2>4
<1>2. ASSUME NEW i \in Requests, AnyStep(i)
      PROVE  InOrder' /\ RemadeInv'
  <2>1. InOrder' /\ \A j \in Requests : LastBegun(j)' <=> LastBegun(j)
    BY <1>2, StepOrder
  <2>2. Running(i) /\ shared' = shared /\ request[i].op # "none" /\ name' = name
    BY <1>2, StepMoves, RunningFacts
  <2> SUFFICES ASSUME RemakeFormat, NEW j \in Requests, LastBegun(j), Changing(j)', j \notin misread'
               PROVE  (Remaking(j) /\ Remade(j))'
    BY <2>1, <2>2 DEF RemadeInv, RemakeFormat
  <2>3. j = i
    BY <1>7, <2>2
  <2>4. Changing(i) /\ i \notin misread /\ LastBegun(i)
    BY <1>6, <2>2, <2>3 DEF Changing, Keeps
  <2>5. ~Misread(i)
    BY <2>3, MisreadGoes
  <2>6. Remaking(i) /\ Remade(i)
    BY <2>4 DEF RemadeInv
  <2> QED
    BY <1>2, <2>3, <2>4, <2>5, <2>6, RemadeOwn, RemadeCut DEF AnyStep
<1>3. ASSUME tree' = tree \/ \E i \in Requests : Running(i) /\ ~Running(i)' /\ request'[i].end # "ok",
             name' = name, shared' = shared,
             \A j \in Requests : /\ request'[j].op = request[j].op
                                 /\ Running(j)' => Running(j)
                                 /\ \/ request'[j] = request[j]
                                    \/ ~Running(j)' /\ request'[j].end # "ok"
      PROVE  InOrder' /\ RemadeInv'
  <2>1. InOrder' /\ \A j \in Requests : LastBegun(j)' <=> LastBegun(j)
    BY <1>3, OrderKept
  <2> SUFFICES ASSUME RemakeFormat, NEW j \in Requests, LastBegun(j), Changing(j), j \notin misread
               PROVE  (Remaking(j) /\ Remade(j))'
    BY <1>3, <1>6, <2>1 DEF RemadeInv, RemakeFormat, Changing
  <2>2. Remaking(j) /\ Remade(j)
    BY DEF RemadeInv
  <2>5. tree' = tree \/ (~Running(j)' /\ request'[j].end # "ok")
    BY <1>3, <1>7
  <2>3. CASE request'[j] = request[j] /\ tree' = tree
    BY <1>3, <2>2, <2>3 DEF Remaking, Remade, Running, Program, Made, Listings, Agrees
  <2>4. CASE ~Running(j)' /\ request'[j].end # "ok"
    BY <2>4 DEF Remaking, Remade
  <2> QED
    BY <1>3, <2>3, <2>4, <2>5
<1>4. CASE Crash
  <2>1. UNCHANGED <<name, shared>>
    BY <1>4, CrashGoes
  <2>2. ASSUME NEW j \in Requests
        PROVE  /\ request'[j].op = request[j].op /\ (Running(j)' => Running(j))
               /\ \/ request'[j] = request[j]
                  \/ ~Running(j)' /\ request'[j].end # "ok"
    <3>1. CASE Running(j)
      <4>1. request'[j].op = request[j].op /\ request'[j].pc = 0 /\ request'[j].end = "failed"
        BY <1>4, <3>1, CrashGoes
      <4> QED
        BY <4>1 DEF Running
    <3>2. CASE ~Running(j)
      <4>1. request'[j] = request[j]
        BY <1>4, <3>2, CrashGoes
      <4> QED
        BY <4>1 DEF Running
    <3> QED
      BY <3>1, <3>2
  <2>3. tree' = tree \/ \E i \in Requests : Running(i) /\ ~Running(i)' /\ request'[i].end # "ok"
    <3>1. ASSUME NEW i \in Requests, Tear(i)
          PROVE  Running(i) /\ ~Running(i)' /\ request'[i].end # "ok"
      <4>1. Running(i)
        BY <3>1, TearGoes
      <4>2. request'[i].pc = 0 /\ request'[i].end = "failed"
        BY <1>4, <4>1, CrashGoes
      <4> QED
        BY <4>1, <4>2 DEF Running
    <3> QED
      BY <1>4, <3>1, CrashTree
  <2> QED
    BY <1>3, <2>1, <2>2, <2>3
<1>5. CASE Reload \/ Done \/ UNCHANGED vars
  <2>1. UNCHANGED <<name, shared, tree, request>>
    BY <1>5 DEF Reload, Done, vars
  <2> QED
    BY <1>3, <2>1 DEF Running
<1> QED
  BY <1>1, <1>2, <1>4, <1>5, NextCases, Zenon

\* The requests that have begun are the first ones.
LEMMA BegunFirst ==
  ASSUME PackageTypeOK, InOrder, NEW i, i = Cardinality(Begun), i > 0
  PROVE  i \in Requests /\ LastBegun(i)
<1> DEFINE T == {x \in Nat : x + 1 \notin Begun}
<1>1. Begun \subseteq Requests /\ Requests \subseteq Nat /\ MaxRequests \in Nat
  BY PackageStoreAssumption DEF Begun, Requests
<1>2. MaxRequests \in T
  BY <1>1 DEF Requests
<1>3. PICK c \in T : \A y \in T : c <= y
  BY <1>2, LeastNat
<1>4. \A x \in 1..c : x \in Begun
  <2> SUFFICES ASSUME NEW x \in 1..c, x \notin Begun PROVE FALSE
    OBVIOUS
  <2>1. x - 1 \in T /\ ~(c <= x - 1)
    BY <1>3
  <2> QED
    BY <1>3, <2>1
<1>5. \A x \in Begun : x \in 1..c
  <2> SUFFICES ASSUME NEW x \in Begun, x \notin 1..c PROVE FALSE
    OBVIOUS
  <2>1. x \in Nat /\ x \in 1..MaxRequests /\ c \in Nat /\ c + 1 \notin Begun
    BY <1>1, <1>3 DEF Requests
  <2>2. c + 1 <= x /\ c + 1 \in Requests
    BY <1>1, <2>1 DEF Requests
  <2>3. c + 1 # x
    BY <2>1
  <2>4. request[c + 1].op # "none"
    <3>1. c + 1 < x /\ x \in Requests
      BY <2>1, <2>2, <2>3 DEF Requests
    <3> QED
      BY <2>2, <3>1 DEF InOrder, Begun
  <2> QED
    BY <2>1, <2>2, <2>4 DEF Begun
<1>6. Begun = 1..c
  BY <1>4, <1>5
<1>7. Cardinality(1..c) = c
  BY <1>3, FS_Interval
<1>8. i = c /\ c \in Nat
  BY <1>3, <1>6, <1>7
<1>9. i \in Begun /\ \A j \in Begun : j <= i
  BY <1>6, <1>8
<1> QED
  BY <1>1, <1>9 DEF LastBegun, Begun

\* Where requests come one at a time, an acknowledged publication or removal leaves
\* the indexes made from the files with exactly their versions, whatever earlier
\* requests that failed, crashes and writes that were cut off left behind, if it could
\* read all the files itself.
THEOREM IndexRepairedAlways == Spec => []IndexRepaired
<1> DEFINE Inv == PackageTypeOK /\ InOrder /\ RemadeInv
<1>1. Init => Inv
  BY TypeInit, RemadeInit
<1>2. Inv /\ [Next]_vars => Inv'
  BY TypeNext, RemadeNext
<1>3. Inv => IndexRepaired
  <2> SUFFICES ASSUME Inv, ~shared, name \in DOMAIN MadeFrom, NEW i, i = Cardinality(Begun), i > 0,
                      i \notin misread, Acked(i, Publications \cup Removals), NEW s \in Listings, NEW v \in Versions
               PROVE  Present(s, v) <=> Present(MadeFrom[name], v)
    BY DEF IndexRepaired
  <2>1. i \in Requests /\ LastBegun(i)
    BY BegunFirst
  <2>2. Agrees(tree[s], tree[Made])
    BY <2>1 DEF RemadeInv, RemakeFormat, Remade, Changing, Acked
  <2> QED
    BY <2>2 DEF Agrees, Present, Made
<1> QED
  BY <1>1, <1>2, <1>3, PTL DEF Spec

-----------------------------------------------------------------------------
(***************************************************************************)
(* Listings that last. What a publication has written, the file, the       *)
(* listings and what these are made from, has its version until a removal; *)
(* what a request has read inside the mutex has the versions of all others *)
(* that are in the document it will write; and what it has read of its own.*)
(***************************************************************************)
LEMMA BehindGained ==
  ASSUME NEW p, NEW k \in Nat, k # 0, NEW l \in Nat, k < l,
         \A m \in (k + 1)..(l - 1) : p[m].do = "check", NEW s, Gained(p, l, s)
  PROVE  Gained(p, k, s) \/ Adds(p[k], s)
<1>1. \A m \in 1..(l - 1) : p[m].do # "check" => m = k \/ m \in 1..(k - 1)
  OBVIOUS
<1>2. PICK m \in 1..(l - 1) : Adds(p[m], s)
  BY DEF Gained
<1>3. p[m].do # "check"
  BY <1>2 DEF Adds
<1> QED
  BY <1>1, <1>2, <1>3 DEF Gained

LEMMA BehindFed ==
  ASSUME NEW p, NEW k \in Nat, k # 0, NEW l \in Nat, k < l,
         \A m \in (k + 1)..(l - 1) : p[m].do = "check"
  PROVE  /\ \A n, s : Fed(n, p, l, s) =>
              \/ p[k].do \in {"load", "scan"} /\ Feeds(n, p[k].at, s)
              \/ Fed(n, p, k, s) /\ p[k].do \notin {"load", "fold", "scan", "lock", "unlock"}
         /\ \A n : FedOwn(n, p, l) =>
              \/ /\ p[k].do \in {"load", "scan"} /\ p[k].at \in Lasting(n) \ Thin(n)
                 /\ Gained(p, k, p[k].at)
              \/ FedOwn(n, p, k) /\ p[k].do \notin {"load", "fold", "scan"}
         /\ ReadOwn(p, l) =>
              p[k].do = "read" \/ (ReadOwn(p, k) /\ p[k].do \notin {"load", "fold", "scan"})
<1>1. \A m \in 1..(l - 1) : p[m].do # "check" => m = k \/ m \in 1..(k - 1)
  OBVIOUS
<1>2. \A m \in 1..(k - 1) :
        k \in (m + 1)..(l - 1) /\ \A q \in (m + 1)..(k - 1) : q \in (m + 1)..(l - 1)
  OBVIOUS
<1>3. ASSUME NEW n, NEW s, Fed(n, p, l, s)
      PROVE  \/ p[k].do \in {"load", "scan"} /\ Feeds(n, p[k].at, s)
             \/ Fed(n, p, k, s) /\ p[k].do \notin {"load", "fold", "scan", "lock", "unlock"}
  <2>1. PICK m \in 1..(l - 1) :
          /\ p[m].do \in {"load", "scan"} /\ Feeds(n, p[m].at, s)
          /\ \A q \in (m + 1)..(l - 1) : p[q].do \notin {"load", "fold", "scan", "lock", "unlock"}
    BY <1>3 DEF Fed
  <2>2. m = k \/ m \in 1..(k - 1)
    BY <1>1, <2>1
  <2> QED
    BY <1>2, <2>1, <2>2 DEF Fed
<1>4. ASSUME NEW n, FedOwn(n, p, l)
      PROVE  \/ /\ p[k].do \in {"load", "scan"} /\ p[k].at \in Lasting(n) \ Thin(n)
                /\ Gained(p, k, p[k].at)
             \/ FedOwn(n, p, k) /\ p[k].do \notin {"load", "fold", "scan"}
  <2>1. PICK m \in 1..(l - 1) :
          /\ p[m].do \in {"load", "scan"} /\ p[m].at \in Lasting(n) \ Thin(n)
          /\ Gained(p, m, p[m].at)
          /\ \A q \in (m + 1)..(l - 1) : p[q].do \notin {"load", "fold", "scan"}
    BY <1>4 DEF FedOwn
  <2>2. m = k \/ m \in 1..(k - 1)
    BY <1>1, <2>1
  <2> QED
    BY <1>2, <2>1, <2>2 DEF FedOwn
<1>5. ASSUME ReadOwn(p, l)
      PROVE  p[k].do = "read" \/ (ReadOwn(p, k) /\ p[k].do \notin {"load", "fold", "scan"})
  <2>1. PICK m \in 1..(l - 1) :
          p[m].do = "read" /\ \A q \in (m + 1)..(l - 1) : p[q].do \notin {"load", "fold", "scan"}
    BY <1>5 DEF ReadOwn
  <2>2. m = k \/ m \in 1..(k - 1)
    BY <1>1, <2>1
  <2> QED
    BY <1>2, <2>1, <2>2 DEF ReadOwn
<1> QED
  BY <1>3, <1>4, <1>5

\* Of the versions that are in a document the newest one is in it alone.
LEMMA NewestThere ==
  ASSUME NEW kept \in Docs, NEW v \in Versions, kept[v] # Absent
  PROVE  \E u \in Versions : v <= u /\ kept[u] # Absent /\ ~Newer(kept, u)
<1>1. PICK b \in Versions : \A u \in Versions : u <= b
  BY PackageStoreAssumption
<1>2. Versions \subseteq Nat
  BY PackageStoreAssumption
<1> DEFINE T == {b - u : u \in {w \in Versions : kept[w] # Absent}}
<1>3. b - v \in T /\ T \subseteq Nat
  BY <1>1, <1>2
<1>4. Min(T) \in T /\ \A y \in T : Min(T) <= y
  BY <1>3, LeastNat
<1>5. PICK u \in Versions : kept[u] # Absent /\ Min(T) = b - u
  BY <1>4
<1>6. ASSUME NEW w \in Versions, kept[w] # Absent PROVE w <= u
  <2>1. b - w \in T
    BY <1>6
  <2>2. b - u <= b - w
    BY <1>4, <1>5, <2>1
  <2>3. b \in Nat /\ u \in Nat /\ w \in Nat
    BY <1>2
  <2> QED
    BY <2>2, <2>3
<1>7. ~Newer(kept, u)
  <2> SUFFICES ASSUME NEW w \in Versions, w > u, kept[w] # Absent PROVE FALSE
    BY DEF Newer
  <2>1. w <= u /\ w \in Nat /\ u \in Nat
    BY <1>2, <1>6
  <2> QED
    BY <2>1
<1> QED
  BY <1>5, <1>6, <1>7

Shows(s, v) == Present(s, v) \/ (s \in Thin(name) /\ \E u \in Versions : u > v /\ Present(s, u))
Has(i, s) == Announced(i) \/ (Publishing(i) /\ Gained(Program(i), request[i].pc, s))
HasShown(i) == \A s \in Lasting(name) : Has(i, s) => Removed(Version(i)) \/ Shows(s, Version(i))
KeepsAll(j) ==
  InRegion(j) =>
    \A s \in Documents(name) : Fed(name, Program(j), request[j].pc, s) =>
      \A i \in Requests \ {j} :
        Has(i, s) => Removed(Version(i)) \/ request[j].kept[Version(i)] # Absent
ReadsOwn(j) ==
  \/ ReadOwn(Program(j), request[j].pc)
  \/ request[j].op \in Publications /\ FedOwn(name, Program(j), request[j].pc)
KeepsOwn(j) ==
  Running(j) /\ request[j].end = "idle" /\ ReadsOwn(j) =>
    Removed(Version(j)) \/ request[j].kept[Version(j)] # Absent
ListFormat ==
  /\ name \notin Rewritten /\ OneMutex
  /\ torn = {} /\ misread = {}
  /\ shared => name \notin Unserialised
  /\ faults > 0 => name \notin Destructive
ListInv ==
  faults \in Nat /\ (ListFormat => \A i \in Requests : HasShown(i) /\ KeepsAll(i) /\ KeepsOwn(i))

\* The rules at the step of a request.
LEMMA LastStep ==
  ASSUME PackageTypeOK, ListFormat, NEW i \in Requests, Running(i)
  PROVE  LET p == Program(i)
             k == request[i].pc
             op == request[i].op
         IN /\ At(i).do \in Changes /\ At(i).at \in Lasting(name) => LastingChange(name, op, p, k)
            /\ (\E s \in Lasting(name) : Clears(At(i), s)) =>
                 \/ Sweeps(i)
                 \/ /\ At(i).at = "version" /\ op \in Removals
                    /\ \A s \in Thin(name) : ~Clears(At(i), s)
            /\ At(i).do = "scan" => At(i).by \notin Lasting(name)
            /\ op \in Publications /\ At(i).do \in {"unless", "known", "last"} =>
                 \A s \in Lasting(name) :
                   \/ Gained(p, k, s)
                   \/ At(i).do = "unless" /\ At(i).at = s /\ s \notin Documents(name)
            /\ op \in Publications => \A s \in Lasting(name) : Gained(p, Len(p) + 1, s)
<1> DEFINE p == Program(i)
           k == request[i].pc
           op == request[i].op
<1>1. /\ name \in Names /\ op \in Operations /\ p \in Programs(name, op) /\ k \in DOMAIN p
      /\ At(i) = p[k]
  BY RunningFacts
<1>2. Lasts(name, op, p)
  BY <1>1, Following, Zenon DEF Follows, ListFormat
<1>3. SweepsAll(name, p) => Sweeps(i)
  BY Zenon DEF SweepsAll, Sweeps, File
<1>4. /\ p[k].do \in Changes /\ p[k].at \in Lasting(name) => LastingChange(name, op, p, k)
      /\ (\E s \in Lasting(name) : Clears(p[k], s)) =>
            \/ SweepsAll(name, p)
            \/ /\ p[k].at = "version" /\ op \in Removals
               /\ \A s \in Thin(name) : ~Clears(p[k], s)
      /\ p[k].do = "scan" => p[k].by \notin Lasting(name)
      /\ op \in Publications /\ p[k].do \in {"unless", "known", "last"} =>
            \A s \in Lasting(name) :
              \/ Gained(p, k, s)
              \/ p[k].do = "unless" /\ p[k].at = s /\ s \notin Documents(name)
  BY <1>1, <1>2, Zenon DEF Lasts
<1>5. op \in Publications => \A s \in Lasting(name) : Gained(p, Len(p) + 1, s)
  BY <1>2, Zenon DEF Lasts
<1> QED
  BY <1>1, <1>3, <1>4, <1>5

LEMMA LastSlots ==
  ASSUME PackageTypeOK, ListFormat
  PROVE  /\ Lasting(name) \subseteq Slots[name] /\ File \in Lasting(name) \ Thin(name)
         /\ Thin(name) \subseteq Lasting(name)
         /\ Thin(name) # {} => Field(name, "newest", FALSE)
         /\ IF "found" \in DOMAIN Formats[name]
              THEN Formats[name].found \cap (Lasting(name) \ Thin(name)) # {}
              ELSE Listings \subseteq Lasting(name)
<1>1. ListsAll(name)
  <2>1. name \in Names
    BY DEF PackageTypeOK
  <2> QED
    BY <2>1, Following, Zenon DEF Follows, ListFormat
<1>2. Formats[name].file \in Lasting(name)
  BY Zenon DEF Lasting, Shown
<1>3. Thin(name) \subseteq Lasting(name)
  BY Zenon DEF Thin
<1> QED
  BY <1>1, <1>2, <1>3, Zenon DEF ListsAll, File, Listings

\* A document that some step rewrites.
LEMMA IsDocument ==
  ASSUME PackageTypeOK, NEW i \in Requests, Running(i), At(i).at \in Lasting(name),
         At(i).do \in {"put", "cut", "yank", "unyank", "copy", "newest"}
  PROVE  At(i).at \in Documents(name)
<1>1. /\ request[i].op \in Operations /\ Program(i) \in Programs(name, request[i].op)
      /\ request[i].pc \in DOMAIN Program(i) /\ At(i) = Program(i)[request[i].pc]
  BY RunningFacts
<1> QED
  BY <1>1 DEF Documents

\* A serial step is inside the mutex, or of the only request that runs.
LEMMA SerialRegion ==
  ASSUME PackageTypeOK, ListFormat, NEW i \in Requests, Running(i), request[i].end = "idle",
         Serial(name, Program(i), request[i].pc)
  PROVE  InRegion(i)
BY DEF Serial, InRegion, ListFormat

\* What a step does to a version in a slot: it leaves it there, or it writes the
\* document again, inside the mutex, as what it has read.
Leaves(s, v) == Removed(v) \/ (Shows(s, v) => Shows(s, v)')
Refills(i, s, v) ==
  /\ InRegion(i) /\ Change(i) /\ At(i).at = s /\ s \in Documents(name)
  /\ Fed(name, Program(i), request[i].pc, s)
  /\ request[i].kept[v] # Absent => Removed(v) \/ Shows(s, v)'
LEMMA ListChange ==
  ASSUME PackageTypeOK, PackageTypeOK', Keeps, ListFormat, ListFormat', NEW i \in Requests,
         KeepsOwn(i), Change(i), NEW s \in Lasting(name), At(i).at = s, NEW v \in Versions
  PROVE  /\ Leaves(s, v) \/ Refills(i, s, v)
         /\ At(i).do \in {"copy", "newest"} /\ request[i].kept[v] # Absent =>
              Removed(v) \/ Shows(s, v)'
         /\ At(i).do \in {"write", "stream", "put"} /\ v = Version(i) => Shows(s, v)'
<1> DEFINE p == Program(i)
           k == request[i].pc
           op == request[i].op
           w == Version(i)
           kept == request[i].kept
           slot == tree[s]
<1>1. /\ Running(i) /\ At(i).do \in Changes /\ request[i].end = "idle" /\ Takes(i, Changes)
      /\ tree' = [tree EXCEPT ![s] = Written(i)]
  BY ChangeGoes
<1>2. s \in Slots[name] /\ Written(i) \in Docs
  BY <1>1, WrittenFacts
<1>3. name' = name /\ tree'[s] = Written(i) /\ slot \in Docs
  BY <1>1, <1>2, TreeTyped DEF Keeps, PackageTypeOK
<1>4. /\ kept \in Docs /\ w \in Versions /\ At(i) = p[k] /\ op \in Operations
  BY <1>1, RunningFacts
<1>5. LastingChange(name, op, p, k)
  BY <1>1, LastStep
<1>6. op \in Removals => Removed(w)
  BY <1>1, RemovesOwn
<1>7. kept[v] \in EntryOf /\ slot[v] \in EntryOf /\ Entry(i) # Absent
  BY <1>3, <1>4, EntryFacts DEF Docs
<1>8. Present(s, v)' <=> Written(i)[v] # Absent
  BY <1>3 DEF Present
<1>9. Present(s, v)' => Shows(s, v)'
  BY DEF Shows
<1>10. s \notin Thin(name) => (Shows(s, v) <=> slot[v] # Absent)
  BY DEF Shows, Present
<1> HIDE DEF p, k, op, w, kept, slot
<1>11. CASE At(i).do \in {"write", "stream"} /\ s \notin Thin(name)
  <2>1. Written(i) = [slot EXCEPT ![w] = Entry(i)]
    BY <1>11, WrittenExactly DEF slot, w
  <2>2. /\ v = w => Written(i)[v] # Absent
        /\ v # w => Written(i)[v] = slot[v]
    BY <1>3, <1>4, <1>7, <2>1 DEF Docs
  <2>3. Leaves(s, v)
    BY <1>8, <1>9, <1>10, <1>11, <2>2 DEF Leaves
  <2> QED
    BY <1>8, <1>9, <1>11, <2>2, <2>3 DEF w
<1>12. CASE At(i).do = "erase" /\ op \in Removals /\ s \notin Thin(name)
  <2>1. Written(i) = [slot EXCEPT ![w] = Absent]
    BY <1>12, WrittenExactly DEF slot, w
  <2>2. v # w => Written(i)[v] = slot[v]
    BY <1>3, <1>4, <2>1 DEF Docs
  <2>3. Leaves(s, v)
    BY <1>6, <1>8, <1>9, <1>10, <1>12, <2>2 DEF Leaves
  <2> QED
    BY <1>12, <2>3
<1>13. CASE At(i).do \in {"mark", "unmark"} /\ s \notin Thin(name) /\ ReadOwn(p, k)
  <2>1. PICK flag \in BOOLEAN : Written(i) = [slot EXCEPT ![w] = Marked(kept[w], flag)]
    BY <1>13, WrittenExactly DEF slot, w, kept
  <2>2. Removed(w) \/ kept[w] # Absent
    BY <1>1, <1>13 DEF KeepsOwn, ReadsOwn, p, k, w, kept
  <2>3. v # w => Written(i)[v] = slot[v]
    BY <1>3, <1>4, <2>1 DEF Docs
  <2>4. v = w => Written(i)[v] = Marked(kept[v], flag)
    BY <1>3, <1>4, <2>1 DEF Docs
  <2>5. v = w => Removed(v) \/ Written(i)[v] # Absent
    BY <1>7, <2>2, <2>4, MarkedThere
  <2>6. Leaves(s, v)
    BY <1>8, <1>9, <1>10, <1>13, <2>3, <2>5 DEF Leaves
  <2> QED
    BY <1>13, <2>6
<1>14. CASE Fed(name, p, k, s) /\ Serial(name, p, k)
  <2>1. InRegion(i)
    BY <1>1, <1>14, SerialRegion DEF p, k
  <2>2. ASSUME At(i).do \in {"put", "cut", "yank", "unyank", "copy", "newest"},
               kept[v] # Absent => Removed(v) \/ Shows(s, v)'
        PROVE  Refills(i, s, v)
    <3>1. s \in Documents(name)
      BY <1>1, <2>2, IsDocument
    <3> QED
      BY <1>14, <2>1, <2>2, <3>1 DEF Refills, p, k, kept
  <2>3. CASE At(i).do = "newest" /\ s \in Thin(name)
    <3>1. Written(i) = [u \in Versions |-> IF Newer(kept, u) THEN Absent ELSE kept[u]]
      BY <2>3, WrittenExactly DEF kept
    <3>2. ASSUME kept[v] # Absent PROVE Shows(s, v)'
      <4>1. PICK u \in Versions : v <= u /\ kept[u] # Absent /\ ~Newer(kept, u)
        BY <1>4, <3>2, NewestThere
      <4>2. Written(i)[u] # Absent
        BY <3>1, <4>1
      <4>3. Present(s, u)'
        BY <1>3, <4>2 DEF Present
      <4>4. u = v \/ u > v
        <5>1. u \in Nat /\ v \in Nat
          BY PackageStoreAssumption
        <5> QED
          BY <4>1, <5>1
      <4>5. s \in Thin(name')
        BY <1>3, <2>3
      <4> QED
        BY <4>3, <4>4, <4>5 DEF Shows
    <3> QED
      BY <2>2, <2>3, <3>2 DEF kept
  <2>4. CASE At(i).do = "put"
    <3>1. Written(i) = [kept EXCEPT ![w] = Entry(i)]
      BY <2>4, WrittenExactly DEF kept, w
    <3>2. /\ v = w => Written(i)[v] # Absent
          /\ v # w => Written(i)[v] = kept[v]
      BY <1>4, <1>7, <3>1 DEF Docs
    <3> QED
      BY <1>8, <1>9, <2>2, <2>4, <3>2 DEF w
  <2>5. CASE At(i).do = "copy"
    <3>1. Written(i) = kept
      BY <2>5, WrittenExactly DEF kept
    <3> QED
      BY <1>8, <1>9, <2>2, <2>5, <3>1 DEF kept
  <2>6. CASE At(i).do = "cut" /\ op \in Removals
    <3>1. Written(i) = [kept EXCEPT ![w] = Absent]
      BY <2>6, WrittenExactly DEF kept, w
    <3>2. v # w => Written(i)[v] = kept[v]
      BY <1>4, <3>1 DEF Docs
    <3> QED
      BY <1>6, <1>8, <1>9, <2>2, <2>6, <3>2
  <2>7. CASE At(i).do \in {"yank", "unyank"}
    <3>1. PICK flag \in BOOLEAN : Written(i) = [kept EXCEPT ![w] = Marked(kept[w], flag)]
      BY <2>7, WrittenExactly DEF kept, w
    <3>2. v # w => Written(i)[v] = kept[v]
      BY <1>4, <3>1 DEF Docs
    <3>3. v = w => Written(i)[v] = Marked(kept[v], flag)
      BY <1>4, <3>1 DEF Docs
    <3>4. kept[v] # Absent => Written(i)[v] # Absent
      BY <1>7, <3>2, <3>3, MarkedThere
    <3> QED
      BY <1>8, <1>9, <2>2, <2>7, <3>4
  <2> QED
    BY <1>4, <1>5, <1>11, <1>12, <1>13, <2>3, <2>4, <2>5, <2>6, <2>7 DEF LastingChange
<1> QED
  BY <1>4, <1>5, <1>11, <1>12, <1>13, <1>14 DEF LastingChange

LEMMA ListStep ==
  ASSUME PackageTypeOK, PackageTypeOK', Keeps, ListFormat, ListFormat', NEW i \in Requests,
         faults \in Nat, KeepsOwn(i), StepOf(i),
         NEW s \in Lasting(name), NEW v \in Versions
  PROVE  Leaves(s, v) \/ Refills(i, s, v)
<1>1. s \in Slots[name] /\ name' = name
  BY LastSlots DEF Keeps
<1>2. tree'[s] = tree[s] => Leaves(s, v)
  BY <1>1 DEF Leaves, Shows, Present
<1>3. CASE Change(i)
  <2>1. /\ Running(i) /\ Takes(i, Changes) /\ tree' = [tree EXCEPT ![At(i).at] = Written(i)]
    BY <1>3, ChangeGoes
  <2>2. At(i).at \in Slots[name] /\ Written(i) \in Docs
    BY <2>1, WrittenFacts
  <2>3. At(i).at # s => tree'[s] = tree[s]
    BY <1>1, <2>1, <2>2, TreeTyped
  <2> QED
    BY <1>2, <1>3, <2>3, ListChange
<1>4. CASE Repair(i)
  <2>1. PICK metas \in Docs : tree' = [tree EXCEPT ![At(i).by] = metas]
    BY <1>4, RepairGoes
  <2>2. Running(i) /\ At(i).do = "scan" /\ At(i).by \in Slots[name]
    BY <1>4, RepairGoes
  <2>3. At(i).by # s
    BY <2>2, LastStep
  <2>4. tree'[s] = tree[s]
    BY <1>1, <2>1, <2>2, <2>3, TreeTyped
  <2> QED
    BY <1>2, <2>4
<1>5. CASE DeleteNext(i)
  <2>1. /\ Running(i) /\ At(i).do = "tree" /\ request[i].end = "idle"
    BY <1>5, DeleteNextGoes
  <2>2. PICK t \in Slots[name], doc \in Docs :
              /\ t \in At(i).by /\ tree' = [tree EXCEPT ![t] = doc]
              /\ \A u \in Versions \ Scope(i) : doc[u] = tree[t][u]
    BY <1>5, DeleteNextGoes
  <2>3. tree'[t] = doc /\ \A x \in Slots[name] \ {t} : tree'[x] = tree[x]
    BY <1>1, <2>2, TreeTyped
  <2>4. CASE s # t
    BY <1>1, <1>2, <2>3, <2>4
  <2>5. CASE s = t
    <3>1. Clears(At(i), s)
      BY <2>1, <2>2, <2>5 DEF Clears
    <3>2. CASE Sweeps(i)
      BY <2>1, <3>2, RemovesOwn DEF Leaves
    <3>3. CASE At(i).at = "version" /\ request[i].op \in Removals /\ s \notin Thin(name)
      <4>1. v = Version(i) => Removed(v)
        BY <2>1, <3>3, RemovesOwn
      <4>2. v # Version(i) => tree'[s][v] = tree[s][v]
        BY <2>2, <2>3, <2>5, <3>3 DEF Scope
      <4> QED
        BY <3>3, <4>1, <4>2 DEF Leaves, Shows, Present
    <3> QED
      BY <2>1, <3>1, <3>2, <3>3, LastStep
  <2> QED
    BY <2>4, <2>5
<1>6. CASE FailChange(i)
  <2>1. /\ Running(i) /\ At(i).do \in Changes /\ At(i).at \in Slots[name] /\ faults' = faults + 1
        /\ \/ tree' = tree
           \/ /\ At(i).do = "stream"
              /\ tree' = [tree EXCEPT ![At(i).at] = [@ EXCEPT ![Version(i)] = Absent]]
    BY <1>6, FailChangeGoes
  <2>2. name \notin Destructive
    <3>1. faults' > 0
      BY <2>1
    <3> QED
      BY <1>1, <3>1 DEF ListFormat
  <2>3. CASE At(i).do = "stream"
    <3>1. At(i) = Program(i)[request[i].pc]
      BY <2>1, RunningFacts
    <3>2. ~LastingChange(name, request[i].op, Program(i), request[i].pc)
      BY <2>2, <2>3, <3>1 DEF LastingChange
    <3>3. At(i).at # s
      BY <2>1, <3>2, LastStep
    <3>4. tree'[s] = tree[s]
      BY <1>1, <2>1, <3>3 DEF PackageTypeOK
    <3> QED
      BY <1>2, <3>4
  <2> QED
    BY <1>2, <2>1, <2>3
<1>7. CASE FailDelete(i) \/ Asking(i) \/ Gather(i) \/ DeleteEnd(i) \/ Acquire(i) \/ Release(i)
  <2>1. tree' = tree
    BY <1>7, FailDeleteGoes, AskingGoes, GatherGoes, DeleteEndGoes, AcquireGoes, ReleaseGoes
  <2> QED
    BY <1>2, <2>1
<1> QED
  BY <1>3, <1>4, <1>5, <1>6, <1>7 DEF StepOf, Advance, Asking

LEMMA FormatStays ==
  ASSUME PackageTypeOK, PackageTypeOK', Keeps, faults \in Nat, faults' \in {faults, faults + 1},
         shared' = shared, object <= object', torn \subseteq torn', misread \subseteq misread',
         ListFormat'
  PROVE  ListFormat
<1>1. name' = name /\ object \in Nat /\ object' \in Nat /\ 1 <= object
  BY PackageStoreAssumption DEF Keeps, PackageTypeOK
<1>2. OneMutex
  BY <1>1 DEF ListFormat, OneMutex
<1>3. faults > 0 => faults' > 0
  OBVIOUS
<1> QED
  BY <1>1, <1>2, <1>3 DEF ListFormat

\* Who has written a document has written what it is made from.
LEMMA FeedsHas ==
  ASSUME PackageTypeOK, NEW i \in Requests, NEW b, NEW s, Feeds(name, b, s), Has(i, s)
  PROVE  Has(i, b)
<1>1. CASE Publishing(i) /\ Gained(Program(i), request[i].pc, s)
  <2>1. /\ request[i].op \in Publications /\ Program(i) \in Programs(name, request[i].op)
        /\ request[i].pc \in 1..(Len(Program(i)) + 1)
    BY <1>1, RunningFacts DEF Publishing
  <2>2. Gained(Program(i), request[i].pc, b)
    BY <1>1, <2>1, Zenon DEF Feeds
  <2> QED
    BY <1>1, <2>2 DEF Has
<1> QED
  BY <1>1 DEF Has

\* A publication that writes a document again has its own version to write.
LEMMA OwnChange ==
  ASSUME PackageTypeOK, ListFormat, NEW i \in Requests, KeepsOwn(i), Publishing(i),
         At(i).do \in Changes, At(i).at \in Lasting(name)
  PROVE  \/ At(i).do \in {"write", "stream", "put"}
         \/ Removed(Version(i)) \/ request[i].kept[Version(i)] # Absent
<1>1. /\ Running(i) /\ request[i].end = "idle" /\ request[i].op \in Publications
      /\ At(i) = Program(i)[request[i].pc] /\ request[i].op \notin Removals
  BY RunningFacts DEF Publishing, Publications, Removals
<1>2. LastingChange(name, request[i].op, Program(i), request[i].pc)
  BY <1>1, LastStep
<1>3. ReadsOwn(i) \/ At(i).do \in {"write", "stream", "put"}
  BY <1>1, <1>2 DEF LastingChange, ReadsOwn
<1> QED
  BY <1>1, <1>3 DEF KeepsOwn

LEMMA HasVersion ==
  ASSUME PackageTypeOK, Keeps, NEW k \in Requests, NEW s, Has(k, s)
  PROVE  request[k].op # "none" /\ Version(k) \in Versions /\ Version(k)' = Version(k)
<1>1. request[k].op # "none"
  BY DEF Has, Announced, Publishing, Publications
<1> QED
  BY <1>1 DEF PackageTypeOK, Steady, Version, Keeps

\* What a publication has written stays, whichever request takes a step.
LEMMA HasLasts ==
  ASSUME PackageTypeOK, PackageTypeOK', Keeps, ListFormat, ListFormat', ListInv, NEW i \in Requests,
         StepOf(i),
         NEW k \in Requests, NEW s \in Lasting(name), Has(k, s)
  PROVE  (Removed(Version(k)) \/ Shows(s, Version(k)))'
<1>1. PICK v \in Versions : v = Version(k) /\ Version(k)' = v
  BY HasVersion
<1>2. request[k].op # "none"
  BY HasVersion
<1>3. Removed(v) => Removed(Version(k))'
  BY <1>1, <1>2, RemovedOf
<1>4. Shows(s, v)' => Shows(s, Version(k))'
  BY <1>1 DEF Shows, Present
<1>5. Removed(v) \/ Shows(s, v)
  BY <1>1 DEF ListInv, HasShown
<1>6. Leaves(s, v) \/ Refills(i, s, v)
  BY ListStep DEF ListInv
<1>7. CASE Leaves(s, v)
  BY <1>3, <1>4, <1>5, <1>7 DEF Leaves
<1>8. CASE Refills(i, s, v)
  <2>1. /\ InRegion(i) /\ Change(i) /\ At(i).at = s /\ s \in Documents(name)
        /\ Fed(name, Program(i), request[i].pc, s)
        /\ request[i].kept[v] # Absent => Removed(v) \/ Shows(s, v)'
    BY <1>8 DEF Refills
  <2>2. CASE k # i
    <3>1. Removed(v) \/ request[i].kept[v] # Absent
      BY <1>1, <2>1, <2>2 DEF ListInv, KeepsAll
    <3> QED
      BY <1>3, <1>4, <2>1, <3>1
  <2>3. CASE k = i
    <3>1. request[i].end = "idle" /\ At(i).do \in Changes
      BY <2>1, ChangeGoes
    <3>2. Publishing(i)
      BY <2>3, <3>1 DEF Has, Announced
    <3>3. At(i).do \in {"write", "stream", "put"} \/ Removed(v) \/ request[i].kept[v] # Absent
      BY <1>1, <2>1, <2>3, <3>1, <3>2, OwnChange DEF ListInv
    <3>4. At(i).do \in {"write", "stream", "put"} => Shows(s, v)'
      BY <1>1, <2>1, <2>3, ListChange DEF ListInv
    <3> QED
      BY <1>3, <1>4, <2>1, <3>3, <3>4
  <2> QED
    BY <2>2, <2>3
<1> QED
  BY <1>6, <1>7, <1>8

\* What a publication has written after its next step.
Gains(i, s) ==
  Publishing(i) /\ \/ Change(i) /\ Adds(At(i), s)
                   \/ s \notin Documents(name) /\ Present(s, Version(i)) /\ tree' = tree
LEMMA NewHas ==
  ASSUME PackageTypeOK, Keeps, ListFormat, NEW i \in Requests, Running(i), NEW end \in EndsOf,
         NEW kept, MovesTo(i, end, kept), NEW s \in Lasting(name), Has(i, s)'
  PROVE  Has(i, s) \/ Gains(i, s)
<1> DEFINE r == request[i]
           t == request'[i]
           p == Program(i)
<1>1. /\ t.op = r.op /\ t.program = r.program
      /\ \/ /\ t.pc \in (r.pc + 1)..Len(p) /\ t.pc # 0 /\ t.end = end
            /\ end = "idle" => \A m \in (r.pc + 1)..(t.pc - 1) : p[m].do = "check"
         \/ /\ t.pc = 0 /\ t.end = IF end # "idle" THEN end ELSE "ok"
            /\ end = "idle" => \A m \in (r.pc + 1)..Len(p) : p[m].do = "check"
  BY DEF MovesTo, Goes, After, Program
<1>2. /\ r.pc \in Nat /\ r.pc # 0 /\ Len(p) \in Nat /\ r.pc \in 1..Len(p) /\ At(i) = p[r.pc]
  BY RunningFacts
<1>3. r.op \in Publications
  BY <1>1 DEF Has, Announced, Publishing
<1>4. CASE end = "idle"
  <2>1. r.end = "idle" /\ Publishing(i)
    BY <1>3, <1>4 DEF MovesTo, Publishing
  <2>2. Gained(p, r.pc, s) \/ Adds(At(i), s)
    <3>1. CASE t.pc # 0
      <4>1. PICK l \in Nat : l = t.pc
        BY <1>1, <1>2, <3>1
      <4>2. Gained(p, l, s)
        BY <1>1, <1>4, <3>1, <4>1 DEF Has, Announced, Publishing, Program
      <4>3. r.pc < l /\ \A m \in (r.pc + 1)..(l - 1) : p[m].do = "check"
        BY <1>1, <1>2, <1>4, <3>1, <4>1
      <4> QED
        BY <1>2, <4>2, <4>3, BehindGained
    <3>2. CASE t.pc = 0
      <4>1. PICK l \in Nat : l = Len(p) + 1
        BY <1>2
      <4>2. Gained(p, l, s)
        BY <1>3, <4>1, LastStep
      <4>3. r.pc < l /\ l - 1 = Len(p)
        BY <1>2, <4>1
      <4>4. \A m \in (r.pc + 1)..(l - 1) : p[m].do = "check"
        BY <1>1, <1>4, <3>2, <4>3
      <4>5. r.pc \in Nat /\ r.pc # 0 /\ r.pc < l /\ At(i) = p[r.pc]
        BY <1>2, <4>3
      <4> QED
        BY <4>2, <4>4, <4>5, BehindGained
    <3> QED
      BY <3>1, <3>2
  <2>3. Adds(At(i), s) => Change(i)
    <3>1. Adds(At(i), s) => At(i).do \in Changes /\ ~At(i).try
      BY DEF Adds, Changes
    <3> QED
      BY <1>4, <3>1 DEF MovesTo
  <2> QED
    BY <2>1, <2>2, <2>3 DEF Has, Gains
<1>5. CASE end # "idle"
  <2>1. end = "ok"
    BY <1>1, <1>5 DEF Has, Announced, Publishing
  <2>2. CASE r.end = "ok"
    BY <1>3, <2>2 DEF Has, Announced
  <2>3. CASE r.end = "idle" /\ At(i).do \in {"unless", "known", "last"} /\ tree' = tree /\ Met(i)
    <3>1. Publishing(i)
      BY <1>3, <2>3 DEF Publishing
    <3>2. \/ Gained(p, r.pc, s)
          \/ At(i).do = "unless" /\ At(i).at = s /\ s \notin Documents(name)
      BY <1>3, <2>3, LastStep
    <3> QED
      BY <2>3, <3>1, <3>2 DEF Has, Gains, Met
  <2> QED
    BY <2>1, <2>2, <2>3 DEF MovesTo
<1> QED
  BY <1>4, <1>5

LEMMA HasNext ==
  ASSUME PackageTypeOK, PackageTypeOK', Keeps, ListFormat, ListFormat', ListInv, NEW i \in Requests,
         StepOf(i),
         NEW k \in Requests, NEW s \in Lasting(name), Has(k, s)'
  PROVE  /\ (Removed(Version(k)) \/ Shows(s, Version(k)))'
         /\ Has(k, s) \/ (k = i /\ Gains(i, s))
<1>1. Running(i) /\ Others(i)
  BY Moves
<1>2. CASE k # i
  <2>1. request'[k] = request[k]
    BY <1>1, <1>2 DEF Others
  <2>2. Has(k, s)
    BY <2>1 DEF Has, Announced, Publishing, Running, Program
  <2> QED
    BY <2>2, HasLasts
<1>3. CASE k = i
  <2>1. Has(i, s) \/ Gains(i, s)
    <3>1. CASE Stays(request[i], request'[i])
      BY <1>3, <3>1 DEF Stays, Has, Announced, Publishing, Running, Program
    <3>2. CASE \E end \in EndsOf, kept \in Docs : MovesTo(i, end, kept)
      BY <1>1, <1>3, <3>2, NewHas
    <3> QED
      BY <3>1, <3>2, Moves
  <2>2. CASE Has(i, s)
    BY <1>3, <2>2, HasLasts
  <2>3. CASE Gains(i, s)
    <3>1. PICK v \in Versions : v = Version(i)
      BY <1>1, RunningFacts
    <3>2. request[i].op # "none" /\ Version(i)' = v
      BY <1>1, <3>1, RunningFacts DEF Keeps, Version
    <3>3. Removed(v) => Removed(Version(i))'
      BY <3>1, <3>2, RemovedOf
    <3>4. Shows(s, v)' => Shows(s, Version(i))'
      BY <3>2 DEF Shows, Present
    <3>5. CASE Change(i) /\ Adds(At(i), s)
      <4>1. At(i).at = s /\ At(i).do \in {"write", "stream", "put", "copy", "newest"}
        BY <3>5 DEF Adds
      <4>2. At(i).do \in Changes
        BY <4>1 DEF Changes
      <4>3. At(i).do \in {"write", "stream", "put"} \/ Removed(v) \/ request[i].kept[v] # Absent
        BY <2>3, <3>1, <4>1, <4>2, OwnChange DEF ListInv, Gains
      <4>4. /\ At(i).do \in {"write", "stream", "put"} => Shows(s, v)'
            /\ At(i).do \in {"copy", "newest"} /\ request[i].kept[v] # Absent =>
                 Removed(v) \/ Shows(s, v)'
        BY <3>1, <3>5, <4>1, ListChange DEF ListInv
      <4> QED
        BY <1>3, <2>3, <3>3, <3>4, <4>1, <4>3, <4>4
    <3>6. CASE Present(s, Version(i)) /\ tree' = tree
      <4>1. Present(s, v)'
        BY <3>1, <3>6 DEF Present
      <4> QED
        BY <1>3, <2>3, <3>4, <4>1 DEF Shows
    <3> QED
      BY <2>3, <3>5, <3>6 DEF Gains
  <2> QED
    BY <2>1, <2>2, <2>3
<1> QED
  BY <1>2, <1>3

\* What is added to a document is added inside the mutex.
LEMMA GainsInside ==
  ASSUME PackageTypeOK, ListFormat, NEW i \in Requests, Running(i), NEW s \in Documents(name),
         Gains(i, s)
  PROVE  InRegion(i)
<1>1. Change(i) /\ Adds(At(i), s) /\ Publishing(i)
  BY DEF Gains
<1>2. At(i).at = s /\ At(i).do \in Changes /\ request[i].end = "idle" /\ s \in Lasting(name)
  BY <1>1, ChangeGoes DEF Adds, Documents
<1>3. At(i) = Program(i)[request[i].pc] /\ request[i].op \notin Removals
  BY <1>1, RunningFacts DEF Publishing, Publications, Removals
<1>4. LastingChange(name, request[i].op, Program(i), request[i].pc)
  BY <1>2, LastStep
<1>5. At(i).do \notin {"mark", "unmark"}
  BY <1>1 DEF Adds
<1>6. Serial(name, Program(i), request[i].pc)
  BY <1>2, <1>3, <1>4, <1>5 DEF LastingChange
<1> QED
  BY <1>2, <1>6, SerialRegion

\* The document that a request has read.
LEMMA ReadAll ==
  ASSUME PackageTypeOK, ListFormat, ListInv, NEW i \in Requests, NEW b, NEW s, Feeds(name, b, s),
         NEW k \in Requests, Has(k, s)
  PROVE  Removed(Version(k)) \/ Present(b, Version(k))
<1>1. Has(k, b) /\ b \in Lasting(name) /\ b \notin Thin(name)
  BY FeedsHas DEF Feeds
<1> QED
  BY <1>1 DEF ListInv, HasShown, Shows

LEMMA KeepsAllNext ==
  ASSUME PackageTypeOK, PackageTypeOK', Keeps, AloneInv, ListFormat, ListFormat', ListInv,
         NEW i \in Requests, StepOf(i), NEW j \in Requests
  PROVE  KeepsAll(j)'
<1>1. /\ Running(i) /\ Others(i) /\ UNCHANGED <<name, immutable, shared, object>>
      /\ \/ Stays(request[i], request'[i])
         \/ \E end \in EndsOf, kept \in Docs : MovesTo(i, end, kept)
  BY Moves
<1> SUFFICES ASSUME InRegion(j)', NEW s \in Documents(name), Fed(name, Program(j)', request'[j].pc, s),
                    NEW k \in Requests \ {j}, Has(k, s)'
             PROVE  Removed(Version(k))' \/ request'[j].kept[Version(k)'] # Absent
  BY <1>1 DEF KeepsAll, Program
<1>2. s \in Lasting(name)
  BY DEF Documents
<1>3. Has(k, s) \/ (k = i /\ Gains(i, s))
  BY <1>2, HasNext
<1>4. CASE InRegion(j) /\ Fed(name, Program(j), request[j].pc, s) /\ request'[j].kept = request[j].kept
  <2>1. Has(k, s)
    <3>1. ASSUME k = i, Gains(i, s) PROVE FALSE
      <4>1. InRegion(i)
        BY <1>1, <3>1, GainsInside
      <4>2. i = j
        BY <1>4, <4>1, OneInRegion DEF ListFormat
      <4> QED
        BY <3>1, <4>2
    <3> QED
      BY <1>3, <3>1
  <2>2. Removed(Version(k)) \/ request[j].kept[Version(k)] # Absent
    BY <1>4, <2>1 DEF ListInv, KeepsAll
  <2>3. request[k].op # "none" /\ Version(k)' = Version(k)
    BY <2>1, HasVersion
  <2>4. Removed(Version(k)) => Removed(Version(k))'
    BY <2>3, RemovedOf
  <2> QED
    BY <1>4, <2>2, <2>3, <2>4
<1>5. CASE j # i
  <2>1. request'[j] = request[j]
    BY <1>1, <1>5 DEF Others
  <2> QED
    BY <1>1, <1>4, <2>1 DEF InRegion, Running, Program
<1>6. CASE j = i /\ Stays(request[i], request'[i])
  BY <1>1, <1>4, <1>6 DEF Stays, InRegion, Running, Program
<1>7. CASE j = i /\ \E end \in EndsOf, kept \in Docs : MovesTo(i, end, kept)
  <2>1. PICK end \in EndsOf, kept \in Docs : MovesTo(i, end, kept)
    BY <1>7
  <2> DEFINE r == request[i]
             p == Program(i)
  <2>2. PICK t : t = request'[i]
    OBVIOUS
  <2>3. /\ t.program = p /\ t.pc \in (r.pc + 1)..Len(p) /\ t.kept = kept
        /\ t.pc # 0 /\ end = "idle" /\ t.end = end
        /\ \A m \in (r.pc + 1)..(t.pc - 1) : p[m].do = "check"
    BY <1>7, <2>1, <2>2 DEF MovesTo, Goes, After, Program, InRegion, Running
  <2>4. r.pc \in Nat /\ r.pc # 0 /\ Len(p) \in Nat /\ At(i) = p[r.pc] /\ r.end = "idle"
    BY <1>1, <2>1, <2>3, RunningFacts DEF MovesTo
  <2>5. PICK l \in Nat : l = t.pc /\ r.pc < l
    BY <2>3, <2>4
  <2>6. Fed(name, p, l, s) /\ \A m \in (r.pc + 1)..(l - 1) : p[m].do = "check"
    BY <1>7, <2>2, <2>3, <2>5 DEF Program
  <2>7. \/ At(i).do \in {"load", "scan"} /\ Feeds(name, At(i).at, s)
        \/ Fed(name, p, r.pc, s) /\ At(i).do \notin {"load", "fold", "scan", "lock", "unlock"}
    BY <2>4, <2>5, <2>6, BehindFed
  <2>8. CASE At(i).do \in {"load", "scan"} /\ Feeds(name, At(i).at, s)
    <3>1. Has(k, s)
      BY <1>3, <1>7
    <3>2. Removed(Version(k)) \/ Present(At(i).at, Version(k))
      BY <2>8, <3>1, ReadAll
    <3>3. request[k].op # "none" /\ Version(k) \in Versions /\ Version(k)' = Version(k)
      BY <3>1, HasVersion
    <3>4. Present(At(i).at, Version(k)) => kept[Version(k)] # Absent
      BY <2>1, <2>3, <2>8, <3>3 DEF MovesTo, Present
    <3>5. Removed(Version(k)) => Removed(Version(k))'
      BY <3>3, RemovedOf
    <3> QED
      BY <1>7, <2>2, <2>3, <3>2, <3>3, <3>4, <3>5
  <2>9. CASE Fed(name, p, r.pc, s) /\ At(i).do \notin {"load", "fold", "scan", "lock", "unlock"}
    <3>1. kept = r.kept
      BY <2>1, <2>9 DEF MovesTo
    <3>2. InRegion(i)
      <4>1. Goes(i, end, kept)
        BY <2>1 DEF MovesTo
      <4> QED
        BY <1>1, <1>7, <2>4, <2>9, <4>1, RegionGoes
    <3> QED
      BY <1>4, <1>7, <2>2, <2>3, <2>9, <3>1, <3>2
  <2> QED
    BY <2>7, <2>8, <2>9
<1> QED
  BY <1>1, <1>5, <1>6, <1>7

LEMMA KeepsOwnNext ==
  ASSUME PackageTypeOK, PackageTypeOK', Keeps, ListFormat, ListInv,
         NEW i \in Requests, StepOf(i), NEW j \in Requests
  PROVE  KeepsOwn(j)'
<1>1. /\ Running(i) /\ Others(i) /\ UNCHANGED <<name, immutable, shared, object>>
      /\ \/ Stays(request[i], request'[i])
         \/ \E end \in EndsOf, kept \in Docs : MovesTo(i, end, kept)
  BY Moves
<1> SUFFICES ASSUME Running(j)', request'[j].end = "idle", ReadsOwn(j)'
             PROVE  Removed(Version(j))' \/ request'[j].kept[Version(j)'] # Absent
  BY DEF KeepsOwn
<1>2. CASE Running(j) /\ request[j].end = "idle" /\ ReadsOwn(j) /\ request'[j].kept = request[j].kept
  <2>1. Removed(Version(j)) \/ request[j].kept[Version(j)] # Absent
    BY <1>2 DEF ListInv, KeepsOwn
  <2>2. request[j].op # "none"
    BY <1>2, RunningFacts
  <2>3. Version(j)' = Version(j)
    BY <2>2 DEF Keeps, Version
  <2>4. Removed(Version(j)) => Removed(Version(j))'
    BY <2>2, RemovedOf
  <2> QED
    BY <1>2, <2>1, <2>3, <2>4
<1>3. CASE j # i
  <2>1. request'[j] = request[j]
    BY <1>1, <1>3 DEF Others
  <2> QED
    BY <1>1, <1>2, <2>1 DEF ReadsOwn, Running, Program
<1>4. CASE j = i /\ Stays(request[i], request'[i])
  BY <1>1, <1>2, <1>4 DEF Stays, ReadsOwn, Running, Program
<1>5. CASE j = i /\ \E end \in EndsOf, kept \in Docs : MovesTo(i, end, kept)
  <2>1. PICK end \in EndsOf, kept \in Docs : MovesTo(i, end, kept)
    BY <1>5
  <2> DEFINE r == request[i]
             p == Program(i)
  <2>2. PICK t : t = request'[i]
    OBVIOUS
  <2>3. /\ t.program = p /\ t.op = r.op /\ t.pc \in (r.pc + 1)..Len(p) /\ t.kept = kept
        /\ t.pc # 0 /\ end = "idle" /\ t.end = end
        /\ \A m \in (r.pc + 1)..(t.pc - 1) : p[m].do = "check"
    BY <1>5, <2>1, <2>2 DEF MovesTo, Goes, After, Program, Running
  <2>4. /\ r.pc \in Nat /\ r.pc # 0 /\ Len(p) \in Nat /\ At(i) = p[r.pc] /\ r.end = "idle"
        /\ r.op # "none" /\ Version(i) \in Versions
    BY <1>1, <2>1, <2>3, RunningFacts DEF MovesTo
  <2>5. PICK l \in Nat : l = t.pc /\ r.pc < l
    BY <2>3, <2>4
  <2>6. /\ ReadOwn(p, l) \/ (r.op \in Publications /\ FedOwn(name, p, l))
        /\ \A m \in (r.pc + 1)..(l - 1) : p[m].do = "check"
    BY <1>1, <1>5, <2>2, <2>3, <2>5 DEF ReadsOwn, Program
  <2>7. Version(i)' = Version(i) /\ (Removed(Version(i)) => Removed(Version(i))')
    BY <2>4, RemovedOf DEF Keeps, Version
  <2>8. /\ ReadOwn(p, l) =>
             At(i).do = "read" \/ (ReadOwn(p, r.pc) /\ At(i).do \notin {"load", "fold", "scan"})
        /\ FedOwn(name, p, l) =>
             \/ /\ At(i).do \in {"load", "scan"} /\ At(i).at \in Lasting(name) \ Thin(name)
                /\ Gained(p, r.pc, At(i).at)
             \/ FedOwn(name, p, r.pc) /\ At(i).do \notin {"load", "fold", "scan"}
    BY <2>4, <2>5, <2>6, BehindFed
  <2>9. CASE At(i).do = "read"
    <3>1. kept = r.kept /\ Passed(i)
      BY <2>1, <2>3, <2>9 DEF MovesTo
    <3>2. r.kept[Version(i)] # Absent
      BY <2>9, <3>1 DEF Passed
    <3> QED
      BY <1>5, <2>2, <2>3, <2>7, <3>1, <3>2
  <2>10. CASE /\ r.op \in Publications /\ At(i).do \in {"load", "scan"}
              /\ At(i).at \in Lasting(name) \ Thin(name) /\ Gained(p, r.pc, At(i).at)
    <3>1. Has(i, At(i).at)
      BY <1>1, <2>4, <2>10 DEF Has, Publishing
    <3>2. Removed(Version(i)) \/ Present(At(i).at, Version(i))
      BY <2>10, <3>1 DEF ListInv, HasShown, Shows
    <3>3. Present(At(i).at, Version(i)) => kept[Version(i)] # Absent
      BY <2>1, <2>3, <2>4, <2>10 DEF MovesTo, Present
    <3> QED
      BY <1>5, <2>2, <2>3, <2>7, <3>2, <3>3
  <2>11. CASE ReadsOwn(i) /\ At(i).do \notin {"load", "fold", "scan"}
    <3>1. kept = r.kept
      BY <2>1, <2>11 DEF MovesTo
    <3> QED
      BY <1>1, <1>2, <1>5, <2>2, <2>3, <2>4, <2>11, <3>1
  <2> QED
    BY <2>6, <2>8, <2>9, <2>10, <2>11 DEF ReadsOwn
<1> QED
  BY <1>1, <1>3, <1>4, <1>5

\* A step that leaves the files alone, after which every request is as it was,
\* is over without an answer, or has only checks behind it.
New(r) ==
  /\ r.end # "ok" /\ ~ReadOwn(r.program, r.pc) /\ ~FedOwn(name, r.program, r.pc)
  /\ \A s : ~Gained(r.program, r.pc, s) /\ ~Fed(name, r.program, r.pc, s)
LEMMA ListPlain ==
  ASSUME PackageTypeOK, PackageTypeOK', Keeps, ListFormat, ListInv, tree' = tree, shared' = shared,
         \A j \in Requests :
           \/ request'[j] = request[j]
           \/ ~Running(j)' /\ request'[j].end # "ok"
           \/ New(request[j])'
  PROVE  \A i \in Requests : HasShown(i)' /\ KeepsAll(i)' /\ KeepsOwn(i)'
<1>1. name' = name
  BY DEF Keeps
<1>2. ASSUME NEW k \in Requests, NEW s, Has(k, s)'
      PROVE  /\ Has(k, s) /\ request[k].op # "none" /\ Version(k)' = Version(k)
             /\ Removed(Version(k)) => Removed(Version(k))'
  <2>1. request'[k] = request[k]
    BY <1>2 DEF Has, Announced, Publishing, New, Program
  <2>2. Has(k, s)
    BY <1>2, <2>1 DEF Has, Announced, Publishing, Running, Program
  <2>3. request[k].op # "none" /\ Version(k)' = Version(k)
    BY <2>2, HasVersion
  <2> QED
    BY <2>2, <2>3, RemovedOf
<1>3. ASSUME NEW k \in Requests PROVE HasShown(k)'
  <2> SUFFICES ASSUME NEW s \in Lasting(name), Has(k, s)'
               PROVE  (Removed(Version(k)) \/ Shows(s, Version(k)))'
    BY <1>1 DEF HasShown
  <2>1. /\ Has(k, s) /\ Version(k)' = Version(k)
        /\ Removed(Version(k)) => Removed(Version(k))'
    BY <1>2
  <2>2. Removed(Version(k)) \/ Shows(s, Version(k))
    BY <2>1 DEF ListInv, HasShown
  <2>3. Shows(s, Version(k)) => Shows(s, Version(k))'
    BY <1>1, <2>1 DEF Shows, Present
  <2> QED
    BY <2>1, <2>2, <2>3
<1>4. ASSUME NEW j \in Requests PROVE KeepsAll(j)' /\ KeepsOwn(j)'
  <2>1. CASE request'[j] = request[j]
    <3>1. /\ InRegion(j)' <=> InRegion(j)
          /\ Running(j)' <=> Running(j)
          /\ ReadsOwn(j)' <=> ReadsOwn(j)
          /\ Program(j)' = Program(j) /\ Version(j)' = Version(j)
      BY <1>1, <2>1 DEF InRegion, Running, ReadsOwn, Program, Version
    <3>2. KeepsAll(j)'
      <4> SUFFICES ASSUME InRegion(j), NEW s \in Documents(name),
                          Fed(name, Program(j), request[j].pc, s),
                          NEW k \in Requests \ {j}, Has(k, s)'
                   PROVE  Removed(Version(k))' \/ request'[j].kept[Version(k)'] # Absent
        BY <1>1, <2>1, <3>1 DEF KeepsAll
      <4>1. /\ Has(k, s) /\ Version(k)' = Version(k)
            /\ Removed(Version(k)) => Removed(Version(k))'
        BY <1>2
      <4>2. Removed(Version(k)) \/ request[j].kept[Version(k)] # Absent
        BY <4>1 DEF ListInv, KeepsAll
      <4> QED
        BY <2>1, <4>1, <4>2
    <3>3. KeepsOwn(j)'
      <4> SUFFICES ASSUME Running(j), request[j].end = "idle", ReadsOwn(j)
                   PROVE  Removed(Version(j))' \/ request'[j].kept[Version(j)'] # Absent
        BY <2>1, <3>1 DEF KeepsOwn
      <4>1. request[j].op # "none"
        BY RunningFacts
      <4>2. Removed(Version(j)) \/ request[j].kept[Version(j)] # Absent
        BY DEF ListInv, KeepsOwn
      <4>3. Removed(Version(j)) => Removed(Version(j))'
        BY <4>1, RemovedOf
      <4> QED
        BY <2>1, <3>1, <4>2, <4>3
    <3> QED
      BY <3>2, <3>3
  <2>2. CASE ~Running(j)'
    BY <2>2 DEF KeepsAll, KeepsOwn, InRegion
  <2>3. CASE New(request[j])'
    BY <2>3 DEF KeepsAll, KeepsOwn, ReadsOwn, New, Program
  <2> QED
    BY <2>1, <2>2, <2>3
<1> QED
  BY <1>3, <1>4

LEMMA ListInit == Init => ListInv
<1> SUFFICES ASSUME Init PROVE ListInv
  OBVIOUS
<1>1. ASSUME NEW i \in Requests PROVE HasShown(i) /\ KeepsAll(i) /\ KeepsOwn(i)
  <2>1. ~Running(i) /\ request[i].op = "none"
    BY IdleFields DEF Init, Running
  <2> QED
    BY <2>1 DEF HasShown, Has, Announced, Publications, Publishing, KeepsAll, KeepsOwn, InRegion
<1> QED
  BY <1>1 DEF Init, ListInv

LEMMA ListNext ==
  ASSUME PackageTypeOK, PackageTypeOK', Keeps, AloneInv, ListInv, [Next]_vars
  PROVE  ListInv'
<1> DEFINE Fine == \A i \in Requests : HasShown(i)' /\ KeepsAll(i)' /\ KeepsOwn(i)'
<1>1. faults \in Nat /\ object \in Nat /\ object # 0
  BY PackageStoreAssumption DEF PackageTypeOK, ListInv
<1>2. ASSUME faults' \in {faults, faults + 1}, ListFormat' => Fine PROVE ListInv'
  <2>1. faults' \in Nat
    BY <1>1, <1>2
  <2> QED
    BY <1>2, <2>1 DEF ListInv
<1>8. ASSUME ListFormat'
      PROVE  /\ \A i \in Requests : AnyStep(i) => StepOf(i)
             /\ Crash => tree' = tree
  BY <1>8, LapsesGrow DEF ListFormat
<1>3. ASSUME faults' \in {faults, faults + 1}, shared' = shared, object <= object', ListFormat'
      PROVE  ListFormat
  BY <1>1, <1>3, LapsesGrow, FormatStays
<1>4. ASSUME NEW i \in Requests, MayBegin(i), NEW op \in Operations, NEW v \in Versions,
             NEW program \in Programs(name, op), Begin(i, op, program, v)
      PROVE  ListInv'
  <2>1. /\ UNCHANGED <<name, immutable, shared, tree, object, faults>>
        /\ Others(i) /\ Started(name, request'[i], op, program, v, object)
    BY <1>4, BeginGoes
  <2>2. New(request[i])'
    <3>1. \A m \in 1..(request'[i].pc - 1) : request'[i].program[m].do = "check"
      BY <2>1 DEF Started
    <3>2. request'[i].end # "ok"
      BY <2>1 DEF Started
    <3>3. /\ ~ReadOwn(request'[i].program, request'[i].pc)
          /\ ~FedOwn(name', request'[i].program, request'[i].pc)
          /\ \A s : /\ ~Gained(request'[i].program, request'[i].pc, s)
                    /\ ~Fed(name', request'[i].program, request'[i].pc, s)
      BY <3>1 DEF ReadOwn, FedOwn, Gained, Fed, Adds
    <3> QED
      BY <3>2, <3>3 DEF New
  <2>3. ASSUME ListFormat' PROVE Fine
    <3>1. ListFormat
      BY <1>1, <1>3, <2>1, <2>3
    <3> QED
      BY <2>1, <2>2, <3>1, ListPlain DEF Others
  <2> QED
    BY <1>2, <2>1, <2>3
<1>5. ASSUME NEW i \in Requests, AnyStep(i)
      PROVE  ListInv'
  <2>1. UNCHANGED <<name, immutable, shared, object>>
    BY <1>5, StepMoves
  <2>2. faults' \in {faults, faults + 1}
    BY <1>5, StepFaults
  <2>3. ASSUME ListFormat' PROVE Fine
    <3>1. ListFormat /\ StepOf(i)
      BY <1>1, <1>3, <1>5, <1>8, <2>1, <2>2, <2>3
    <3>2. ASSUME NEW k \in Requests PROVE HasShown(k)'
      <4> SUFFICES ASSUME NEW s \in Lasting(name), Has(k, s)'
                   PROVE  (Removed(Version(k)) \/ Shows(s, Version(k)))'
        BY <2>1 DEF HasShown
      <4> QED
        BY <1>5, <2>3, <3>1, HasNext
    <3>3. \A k \in Requests : KeepsAll(k)'
      BY <1>5, <2>3, <3>1, KeepsAllNext
    <3>4. \A k \in Requests : KeepsOwn(k)'
      BY <1>5, <3>1, KeepsOwnNext
    <3> QED
      BY <3>2, <3>3, <3>4
  <2> QED
    BY <1>2, <2>2, <2>3
<1>6. CASE Crash
  <2>1. UNCHANGED <<name, immutable, shared, object>> /\ faults' = faults + 1
    BY <1>6, CrashGoes
  <2>2. ASSUME NEW j \in Requests
        PROVE  request'[j] = request[j] \/ (~Running(j)' /\ request'[j].end # "ok")
    <3>1. Running(j) => request'[j].pc = 0 /\ request'[j].end = "failed"
      BY <1>6, CrashGoes
    <3>2. ~Running(j) => request'[j] = request[j]
      BY <1>6, CrashGoes
    <3> QED
      BY <3>1, <3>2 DEF Running
  <2>3. ASSUME ListFormat' PROVE Fine
    <3>1. ListFormat /\ tree' = tree
      BY <1>1, <1>3, <1>6, <1>8, <2>1, <2>3
    <3> QED
      BY <2>1, <2>2, <3>1, ListPlain
  <2> QED
    BY <1>2, <2>1, <2>3
<1>7. CASE Reload \/ Done \/ UNCHANGED vars
  <2>1. /\ UNCHANGED <<name, immutable, shared, tree, request, faults>>
        /\ object' = object \/ object' = object + 1
    BY <1>7 DEF Reload, Done, vars
  <2>2. object <= object'
    BY <1>1, <2>1
  <2>3. ASSUME ListFormat' PROVE Fine
    <3>1. ListFormat
      BY <1>3, <2>1, <2>2, <2>3
    <3> QED
      BY <2>1, <3>1, ListPlain
  <2> QED
    BY <1>2, <2>1, <2>3
<1> QED
  BY <1>4, <1>5, <1>6, <1>7, NextCases, Zenon

\* An acknowledged publication is listed and has its file until a removal of the
\* version begins, whatever requests overlap it under the mutex, and wherever one
\* of them fails or the process crashes, unless a document was cut off in place or
\* read in part; in every format but the three that clear a listing and then write it
\* again.
THEOREM AckedListedAlways == Spec => [](name \notin Rewritten => AckedListed)
<1> DEFINE Inv == PackageTypeOK /\ AloneInv /\ ListInv
<1>1. Init => Inv
  BY TypeInit, AloneInit, ListInit
<1>2. Inv /\ [Next]_vars => Inv'
  BY TypeNext, AloneNext, ListNext
<1>3. Inv => (name \notin Rewritten => AckedListed)
  <2> SUFFICES ASSUME Inv, name \notin Rewritten, OneMutex, torn = {}, misread = {}, shared => name \notin Unserialised,
                      faults > 0 => name \notin Destructive \cup {"maven"},
                      NEW i \in Requests, Acked(i, Publications), ~Removed(Version(i))
               PROVE  Stands(Version(i))
    BY DEF AckedListed
  <2> DEFINE v == Version(i)
  <2>1. ListFormat
    BY DEF ListFormat
  <2>2. \A s \in Lasting(name) : Shows(s, v)
    BY <2>1 DEF ListInv, HasShown, Has, Announced, Acked
  <2>3. /\ File \in Lasting(name) \ Thin(name)
        /\ Thin(name) # {} => Field(name, "newest", FALSE)
        /\ IF "found" \in DOMAIN Formats[name]
             THEN Formats[name].found \cap (Lasting(name) \ Thin(name)) # {}
             ELSE Listings \subseteq Lasting(name)
    BY <2>1, LastSlots
  <2>4. Present(File, v)
    BY <2>2, <2>3 DEF Shows
  <2>5. ASSUME NEW s \in Listings PROVE Listed(s, v) \/ Superseded(s, v)
    <3>1. CASE "found" \in DOMAIN Formats[name]
      <4>1. PICK t \in Formats[name].found : t \in Lasting(name) /\ t \notin Thin(name)
        BY <2>3, <3>1
      <4>2. Present(t, v)
        BY <2>2, <4>1 DEF Shows
      <4> QED
        BY <3>1, <4>1, <4>2 DEF Listed
    <3>2. CASE "found" \notin DOMAIN Formats[name]
      <4>1. Shows(s, v)
        BY <2>2, <2>3, <2>5, <3>2
      <4>2. CASE Present(s, v)
        BY <3>2, <4>2 DEF Listed
      <4>3. CASE s \in Thin(name) /\ \E u \in Versions : u > v /\ Present(s, u)
        BY <2>3, <4>3 DEF Superseded
      <4> QED
        BY <4>1, <4>2, <4>3 DEF Shows
    <3> QED
      BY <3>1, <3>2
  <2> QED
    BY <2>4, <2>5 DEF Stands
<1> QED
  BY <1>1, <1>2, <1>3, PTL DEF Spec

-----------------------------------------------------------------------------
(***************************************************************************)
(* Refusals. Nothing in the tree, or in the memory of a request, comes from*)
(* a publication that has not yet written or that was refused. And where   *)
(* requests come one at a time, what a duplicate was refused for is there. *)
(***************************************************************************)
Free(i) ==
  /\ \A s \in Slots[name], v \in Versions : tree[s][v].by # i
  /\ \A j \in Requests, v \in Versions : request[j].kept[v].by # i
Untraced(i) ==
  \/ request[i].op = "none"
  \/ request[i].op \in Publications /\ request[i].end \in {"refused", "exists"}
  \/ Publishing(i) /\ ~Signed(Program(i), request[i].pc)
TraceInv == name \notin SeveralUploads => \A i \in Requests : Untraced(i) => Free(i)

\* What a change writes comes from the slot, from the request's memory, or from
\* the request itself.
LEMMA WrittenFree ==
  ASSUME PackageTypeOK, NEW i \in Requests, Takes(i, Changes), NEW k \in Requests, Free(k),
         k = i => At(i).do \notin Signs, NEW u \in Versions
  PROVE  Written(i)[u].by # k
<1> DEFINE step == At(i)
           slot == tree[step.at]
           kept == request[i].kept
           v == Version(i)
<1>1. Running(i) /\ step.do \in Changes
  BY DEF Takes
<1>2. kept \in Docs /\ v \in Versions /\ SlotsOf(step) \subseteq Slots[name] /\ step.at \in Slots[name]
  BY <1>1, RunningFacts, WrittenFacts
<1>3. slot \in Docs
  BY <1>2 DEF PackageTypeOK
<1>4. \A w \in Versions : slot[w] \in EntryOf /\ kept[w] \in EntryOf
  BY <1>2, <1>3 DEF Docs
<1>5. \A w \in Versions : slot[w].by # k /\ kept[w].by # k
  BY <1>2 DEF Free
<1>6. k # 0 /\ Absent.by = 0 /\ Entry(i).by = i
  BY RequestsNat DEF Absent, Entry
<1>7. \A w \in Versions, flag \in BOOLEAN : Marked(kept[w], flag).by # k
  BY <1>4, <1>5, MarkedFacts
<1>8. slot \in [Versions -> EntryOf] /\ kept \in [Versions -> EntryOf]
  BY <1>2, <1>3 DEF Docs
<1> HIDE DEF slot, kept
<1>9. CASE step.do \in Signs
  <2>1. k # i
    BY <1>9
  <2>2. CASE step.do \in {"write", "stream"}
    <3>1. Written(i) = [slot EXCEPT ![v] = Entry(i)]
      BY <2>2 DEF Written, slot
    <3> QED
      BY <1>2, <1>5, <1>6, <1>8, <2>1, <3>1
  <2>3. CASE step.do = "put"
    <3>1. Written(i) = [kept EXCEPT ![v] = Entry(i)]
      BY <2>3 DEF Written, kept
    <3> QED
      BY <1>2, <1>5, <1>6, <1>8, <2>1, <3>1
  <2>4. CASE step.do = "enter"
    <3>1. Written(i) = [w \in Versions |-> Entry(i)]
      BY <2>4 DEF Written
    <3> QED
      BY <1>6, <2>1, <3>1
  <2> QED
    BY <1>9, <2>2, <2>3, <2>4 DEF Signs
<1>10. CASE step.do \in {"erase", "mark", "unmark"}
  <2>1. \/ Written(i) = [slot EXCEPT ![v] = Absent]
        \/ Written(i) = [slot EXCEPT ![v] = Marked(kept[v], TRUE)]
        \/ Written(i) = [slot EXCEPT ![v] = Marked(kept[v], FALSE)]
    BY <1>10, WrittenExactly DEF slot, kept
  <2> QED
    BY <1>2, <1>5, <1>6, <1>7, <1>8, <2>1
<1>11. CASE step.do \in {"cut", "yank", "unyank"}
  <2>1. \/ Written(i) = [kept EXCEPT ![v] = Absent]
        \/ Written(i) = [kept EXCEPT ![v] = Marked(kept[v], TRUE)]
        \/ Written(i) = [kept EXCEPT ![v] = Marked(kept[v], FALSE)]
    BY <1>11, WrittenExactly DEF kept
  <2> QED
    BY <1>2, <1>5, <1>6, <1>7, <1>8, <2>1
<1>12. CASE step.do \in {"copy", "newest"}
  <2>1. \/ Written(i) = kept
        \/ Written(i) = [w \in Versions |-> IF Newer(kept, w) THEN Absent ELSE kept[w]]
    BY <1>12, WrittenExactly DEF kept
  <2> QED
    BY <1>5, <1>6, <2>1
<1>13. CASE step.do = "heal"
  <2> DEFINE other == tree[step.by]
  <2>1. step.by \in Slots[name]
    BY <1>2, <1>13 DEF SlotsOf
  <2>2. \A w \in Versions : other[w].by # k
    BY <2>1 DEF Free
  <2> HIDE DEF other
  <2>3. Written(i) = [w \in Versions |->
               IF kept = Nothing \/ (kept[w] # Absent /\ slot[w] # Absent) THEN slot[w]
               ELSE IF kept[w] # Absent THEN other[w] ELSE Absent]
    BY <1>13 DEF Written, slot, kept, other
  <2> QED
    BY <1>5, <1>6, <2>2, <2>3
<1> QED
  BY <1>1, <1>9, <1>10, <1>11, <1>12, <1>13 DEF Changes, Signs

LEMMA TearFree ==
  ASSUME PackageTypeOK, NEW i \in Requests, Tear(i), NEW k \in Requests, Free(k),
         k = i => At(i).do \notin Signs, NEW s \in Slots[name], NEW v \in Versions
  PROVE  tree'[s][v].by # k
<1>1. At(i).at \in Slots[name] /\ Takes(i, Changes)
  BY TearGoes DEF Takes
<1>2. PICK doc \in Docs :
        tree' = [tree EXCEPT ![At(i).at] = doc] /\ doc[v] \in {Absent, Written(i)[v]}
  BY TearGoes
<1>3. Written(i)[v].by # k /\ Absent.by # k
  BY <1>1, WrittenFree, RequestsNat DEF Absent
<1>4. doc[v].by # k
  BY <1>2, <1>3
<1>5. DOMAIN tree = Slots[name] /\ tree[s][v].by # k
  BY DEF PackageTypeOK, Free
<1> QED
  BY <1>1, <1>2, <1>4, <1>5

LEMMA FreeTree ==
  ASSUME PackageTypeOK, Keeps, NEW i \in Requests, AnyStep(i),
         NEW k \in Requests, Free(k), k = i => At(i).do \notin Signs,
         NEW s \in Slots[name], NEW v \in Versions
  PROVE  tree'[s][v].by # k
<1>1. \A t \in Slots[name] : tree[t][v].by # k
  BY DEF Free
<1>2. k # 0 /\ Absent.by = 0 /\ Absent.by # k
  BY RequestsNat DEF Absent
<1>3. ASSUME NEW t \in Slots[name], NEW doc, tree' = [tree EXCEPT ![t] = doc], doc[v].by # k
      PROVE  tree'[s][v].by # k
  <2>1. DOMAIN tree = Slots[name]
    BY DEF PackageTypeOK
  <2> QED
    BY <1>1, <1>3, <2>1
<1>4. CASE Change(i)
  <2>1. Takes(i, Changes) /\ tree' = [tree EXCEPT ![At(i).at] = Written(i)]
    BY <1>4, ChangeGoes
  <2>2. At(i).at \in Slots[name] /\ Written(i)[v].by # k
    BY <2>1, WrittenFacts, WrittenFree
  <2> QED
    BY <1>3, <2>1, <2>2
<1>5. CASE Repair(i)
  <2>1. At(i).at \in Slots[name] /\ At(i).by \in Slots[name]
    BY <1>5, RepairGoes
  <2>2. PICK metas \in Docs :
          /\ tree' = [tree EXCEPT ![At(i).by] = metas]
          /\ metas[v] \in {Absent, tree[At(i).at][v], tree[At(i).by][v]}
    BY <1>5, RepairGoes
  <2>3. metas[v].by # k
    BY <1>1, <1>2, <2>1, <2>2
  <2> QED
    BY <1>3, <2>1, <2>2, <2>3
<1>6. CASE DeleteNext(i)
  <2>1. PICK t \in Slots[name] : \E doc \in Docs :
          /\ tree' = [tree EXCEPT ![t] = doc]
          /\ doc[v] \in {Absent, tree[t][v]}
    BY <1>6, DeleteNextGoes
  <2>2. PICK doc \in Docs : tree' = [tree EXCEPT ![t] = doc] /\ doc[v] \in {Absent, tree[t][v]}
    BY <2>1
  <2>3. doc[v].by # k
    BY <1>1, <1>2, <2>2
  <2> QED
    BY <1>3, <2>2, <2>3
<1>7. CASE FailChange(i)
  <2>1. /\ At(i).at \in Slots[name] /\ Running(i)
        /\ \/ tree' = tree
           \/ tree' = [tree EXCEPT ![At(i).at] = [@ EXCEPT ![Version(i)] = Absent]]
    BY <1>7, FailChangeGoes
  <2>2. tree[At(i).at] \in Docs /\ Version(i) \in Versions
    BY <2>1, RunningFacts DEF PackageTypeOK
  <2> DEFINE old == tree[At(i).at]
             doc == [old EXCEPT ![Version(i)] = Absent]
  <2>3. old \in [Versions -> EntryOf] /\ old[v].by # k
    BY <1>1, <2>1, <2>2 DEF Docs
  <2> HIDE DEF old
  <2>4. doc[v].by # k
    BY <1>2, <2>2, <2>3
  <2>5. tree' = tree \/ tree' = [tree EXCEPT ![At(i).at] = doc]
    BY <2>1 DEF old
  <2> HIDE DEF doc
  <2> QED
    BY <1>1, <1>3, <2>1, <2>4, <2>5
<1>8. CASE FailDelete(i) \/ Asking(i) \/ Gather(i) \/ DeleteEnd(i) \/ Acquire(i) \/ Release(i)
  <2>1. tree' = tree
    BY <1>8, FailDeleteGoes, AskingGoes, GatherGoes, DeleteEndGoes, AcquireGoes, ReleaseGoes
  <2> QED
    BY <1>1, <2>1
<1>9. CASE CutOff(i)
  <2>1. Tear(i)
    BY <1>9, CutOffGoes
  <2> QED
    BY <2>1, TearFree
<1>10. CASE Misread(i)
  <2>1. At(i).at \in Slots[name]
    BY <1>10, MisreadGoes
  <2>2. \/ tree' = tree
        \/ /\ At(i).by \in Slots[name]
           /\ \E metas \in Docs :
                /\ tree' = [tree EXCEPT ![At(i).by] = metas]
                /\ metas[v] \in {Absent, tree[At(i).at][v], tree[At(i).by][v]}
    BY <1>10, MisreadGoes
  <2>3. CASE tree' = tree
    BY <1>1, <2>3
  <2>4. CASE tree' # tree
    <3>1. At(i).by \in Slots[name]
      BY <2>2, <2>4
    <3>2. PICK metas \in Docs :
            /\ tree' = [tree EXCEPT ![At(i).by] = metas]
            /\ metas[v] \in {Absent, tree[At(i).at][v], tree[At(i).by][v]}
      BY <2>2, <2>4
    <3>3. metas[v].by # k
      BY <1>1, <1>2, <2>1, <3>1, <3>2
    <3> QED
      BY <1>3, <3>1, <3>2, <3>3
  <2> QED
    BY <2>3, <2>4
<1> QED
  BY <1>4, <1>5, <1>6, <1>7, <1>8, <1>9, <1>10 DEF AnyStep, StepOf, Advance, Asking

LEMMA FreeKept ==
  ASSUME PackageTypeOK, NEW i \in Requests, AnyStep(i),
         NEW k \in Requests, Free(k), NEW j \in Requests, NEW v \in Versions
  PROVE  request'[j].kept[v].by # k
<1>1. Running(i) /\ Others(i) /\ request[j].kept[v].by # k /\ request[i].kept[v].by # k
  BY StepMoves DEF Free
<1>2. k # 0 /\ Absent.by # k /\ Nothing[v] = Absent
  BY RequestsNat DEF Absent, Nothing
<1>3. CASE j # i
  BY <1>1, <1>3 DEF Others
<1>4. ASSUME NEW end, NEW kept, Goes(i, end, kept), kept[v].by # k, j = i
      PROVE  request'[j].kept[v].by # k
  <2>1. request'[i].kept = kept \/ request'[i].kept = Nothing
    BY <1>4 DEF Goes, After
  <2> QED
    BY <1>2, <1>4, <2>1
<1>5. CASE j = i /\ (Asking(i) \/ Change(i) \/ DeleteEnd(i) \/ Acquire(i) \/ Release(i) \/ FailChange(i))
  <2>1. \E end : Goes(i, end, request[i].kept)
    BY <1>5, AskingGoes, ChangeGoes, DeleteEndGoes, AcquireGoes, ReleaseGoes, FailChangeGoes
  <2> QED
    BY <1>1, <1>4, <1>5, <2>1
<1>6. CASE j = i /\ Gather(i)
  <2>1. At(i).at \in Slots[name]
    BY <1>6, GatherGoes
  <2>2. PICK kept \in Docs :
          Goes(i, "idle", kept) /\ kept[v] \in {tree[At(i).at][v], request[i].kept[v]}
    BY <1>6, GatherGoes
  <2>3. kept[v].by # k
    BY <1>1, <2>1, <2>2 DEF Free
  <2> QED
    BY <1>4, <1>6, <2>2, <2>3
<1>7. CASE j = i /\ Repair(i)
  <2>1. At(i).at \in Slots[name] /\ At(i).by \in Slots[name]
    BY <1>7, RepairGoes
  <2>2. PICK found \in Docs :
          /\ Goes(i, "idle", found)
          /\ found[v] \in {Absent, tree[At(i).at][v], tree[At(i).by][v]}
    BY <1>7, RepairGoes
  <2>3. found[v].by # k
    BY <1>2, <2>1, <2>2 DEF Free
  <2> QED
    BY <1>4, <1>7, <2>2, <2>3
<1>8. CASE j = i /\ (DeleteNext(i) \/ FailDelete(i))
  <2>1. request' = request \/ Stays(request[i], request'[i])
    BY <1>8, DeleteNextGoes, FailDeleteGoes
  <2> QED
    BY <1>1, <1>8, <2>1 DEF Stays
<1>9. CASE j = i /\ CutOff(i)
  <2>1. \E end : Goes(i, end, request[i].kept)
    BY <1>9, CutOffGoes
  <2> QED
    BY <1>1, <1>4, <1>9, <2>1
<1>10. CASE j = i /\ Misread(i)
  <2>1. At(i).at \in Slots[name] /\ (At(i).do = "scan" => At(i).by \in Slots[name])
    BY <1>10, MisreadGoes
  <2>2. PICK kept \in Docs :
          /\ Goes(i, "idle", kept)
          /\ \/ kept[v] \in {Absent, tree[At(i).at][v], request[i].kept[v]}
             \/ /\ At(i).do = "scan"
                /\ kept[v] \in {Absent, tree[At(i).at][v], tree[At(i).by][v]}
    BY <1>10, MisreadGoes
  <2>3. kept[v].by # k
    BY <1>1, <1>2, <2>1, <2>2 DEF Free
  <2> QED
    BY <1>4, <1>10, <2>2, <2>3
<1> QED
  BY <1>3, <1>5, <1>6, <1>7, <1>8, <1>9, <1>10 DEF AnyStep, StepOf, Advance, Asking

\* Who leaves no trace after a step left none before, and did not write.
LEMMA UntracedBefore ==
  ASSUME PackageTypeOK, Keeps, name \notin SeveralUploads, NEW i \in Requests,
         AnyStep(i), NEW k \in Requests, Untraced(k)'
  PROVE  Untraced(k) /\ (k = i => At(i).do \notin Signs)
<1> DEFINE Ended(end) ==
             /\ end = "idle" => request[i].end = "idle"
             /\ end \in {"refused", "exists"} =>
                  request[i].end = end \/ (request[i].end = "idle" /\ Declined(i, end))
           Moved == \E end \in EndsOf, kept \in Docs : Goes(i, end, kept) /\ Ended(end)
<1>1. /\ Running(i) /\ Others(i)
      /\ (StepOf(i) /\ Stays(request[i], request'[i])) \/ Moved
  <2>1. "idle" \in EndsOf /\ "failed" \in EndsOf
    BY DEF EndsOf
  <2>2. CASE StepOf(i)
    BY <2>2, Moves DEF MovesTo
  <2>3. CASE CutOff(i)
    <3>1. /\ request[i].end = "idle" /\ request[i].kept \in Docs
          /\ \E end \in {"idle", "failed"} : Goes(i, end, request[i].kept)
      BY <2>3, CutOffGoes, RunningFacts
    <3> QED
      BY <2>1, <3>1, StepMoves
  <2>4. CASE Misread(i)
    <3>1. request[i].end = "idle" /\ \E kept \in Docs : Goes(i, "idle", kept)
      BY <2>4, MisreadGoes
    <3> QED
      BY <2>1, <3>1, StepMoves
  <2> QED
    BY <2>2, <2>3, <2>4 DEF AnyStep
<1>2. CASE k # i
  <2>1. request'[k] = request[k]
    BY <1>1, <1>2 DEF Others
  <2> QED
    BY <1>2, <2>1 DEF Untraced, Publishing, Running, Program
<1>3. CASE k = i /\ StepOf(i) /\ Stays(request[i], request'[i])
  <2>1. At(i).do = "tree"
    BY <1>3, StaysAtTree
  <2> QED
    BY <1>3, <2>1 DEF Stays, Untraced, Publishing, Running, Program, Signs
<1>4. CASE k = i /\ Moved
  <2>1. PICK end \in EndsOf, kept \in Docs : Goes(i, end, kept) /\ Ended(end)
    BY <1>4
  <2> DEFINE r == request[i]
             p == Program(i)
  <2>2. PICK t : t = request'[i]
    OBVIOUS
  <2>3. /\ t.op = r.op /\ t.program = p
        /\ \/ t.pc \in (r.pc + 1)..Len(p) /\ t.pc # 0 /\ t.end = end
           \/ t.pc = 0 /\ t.end = IF end # "idle" THEN end ELSE "ok"
    BY <2>1, <2>2 DEF Goes, After, Program
  <2>4. /\ r.pc \in Nat /\ r.pc # 0 /\ Len(p) \in Nat /\ At(i) = p[r.pc] /\ r.pc \in DOMAIN p
        /\ r.op # "none" /\ p \in Programs(name, r.op) /\ name \in Names
        /\ At(i).do # "unlock" => r.end = "idle"
    BY <1>1, RunningFacts
  <2>5. r.op \in Publications
    BY <1>4, <2>2, <2>3, <2>4 DEF Untraced, Publishing
  <2>6. CASE t.end \in {"refused", "exists"}
    <3>1. end = t.end
      BY <2>3, <2>6
    <3>2. CASE r.end = end
      BY <1>4, <2>4, <2>5, <2>6, <3>1, <3>2 DEF Untraced, Signs
    <3>3. CASE r.end = "idle" /\ Declined(i, end)
      <4>1. RefusesFirst(p)
        BY <2>4, <2>5, Following, Zenon DEF Follows
      <4>2. At(i).do \in Refuses /\ ~Signed(p, r.pc)
        BY <2>4, <3>3, <4>1 DEF Declined, RefusesFirst
      <4> QED
        BY <1>1, <1>4, <2>5, <3>3, <4>2 DEF Untraced, Publishing, Refuses, Signs
    <3> QED
      BY <2>1, <2>6, <3>1, <3>2, <3>3
  <2>7. CASE t.end \notin {"refused", "exists"}
    <3>1. t.end = "idle" /\ t.pc # 0 /\ ~Signed(p, t.pc)
      BY <1>4, <2>2, <2>3, <2>4, <2>7 DEF Untraced, Publishing, Running, Program
    <3>2. end = "idle" /\ r.end = "idle" /\ t.pc \in (r.pc + 1)..Len(p)
      BY <2>1, <2>3, <3>1
    <3>3. \A m \in 1..r.pc : m \in 1..(t.pc - 1)
      BY <2>4, <3>2
    <3>4. \A m \in 1..r.pc : p[m].do \notin Signs
      BY <3>1, <3>3 DEF Signed
    <3>5. r.pc \in 1..r.pc /\ \A m \in 1..(r.pc - 1) : m \in 1..r.pc
      BY <2>4
    <3>6. ~Signed(p, r.pc) /\ At(i).do \notin Signs
      BY <2>4, <3>4, <3>5 DEF Signed
    <3> QED
      BY <1>1, <1>4, <2>5, <3>2, <3>6 DEF Untraced, Publishing
  <2> QED
    BY <2>6, <2>7
<1> QED
  BY <1>1, <1>2, <1>3, <1>4

LEMMA TraceInit == Init => TraceInv
<1> SUFFICES ASSUME Init, NEW i \in Requests PROVE Free(i)
  BY DEF TraceInv
<1>1. i # 0 /\ Absent.by = 0 /\ \A v \in Versions : Nothing[v] = Absent
  BY RequestsNat DEF Absent, Nothing
<1>2. \A j \in Requests : request[j].kept = Nothing
  BY IdleFields DEF Init
<1>3. \A s \in Slots[name] : tree[s] = Nothing
  BY DEF Init
<1> QED
  BY <1>1, <1>2, <1>3 DEF Free

LEMMA TraceNext ==
  ASSUME PackageTypeOK, PackageTypeOK', Keeps, TraceInv, [Next]_vars
  PROVE  TraceInv'
<1>1. name' = name
  BY DEF Keeps
<1> SUFFICES ASSUME name \notin SeveralUploads, NEW k \in Requests, Untraced(k)' PROVE Free(k)'
  BY <1>1 DEF TraceInv
<1>2. k # 0 /\ Absent.by # k /\ \A v \in Versions : Nothing[v] = Absent
  BY RequestsNat DEF Absent, Nothing
<1>3. ASSUME tree' = tree, Untraced(k),
             \A j \in Requests : request'[j].kept = request[j].kept \/ request'[j].kept = Nothing
      PROVE  Free(k)'
  <2>1. Free(k)
    BY <1>3 DEF TraceInv
  <2>2. \A j \in Requests, v \in Versions : request'[j].kept[v].by # k
    BY <1>2, <1>3, <2>1 DEF Free
  <2> QED
    BY <1>1, <1>3, <2>1, <2>2 DEF Free
<1>4. ASSUME NEW i \in Requests, MayBegin(i), NEW op \in Operations, NEW v \in Versions,
             NEW program \in Programs(name, op), Begin(i, op, program, v)
      PROVE  Free(k)'
  <2>1. /\ tree' = tree /\ Others(i) /\ request[i].op = "none"
        /\ Started(name, request'[i], op, program, v, object)
    BY <1>4, BeginGoes
  <2>2. \A j \in Requests : request'[j].kept = request[j].kept \/ request'[j].kept = Nothing
    BY <2>1 DEF Others, Started
  <2>3. CASE k = i
    BY <1>3, <2>1, <2>2, <2>3 DEF Untraced
  <2>4. CASE k # i
    <3>1. request'[k] = request[k]
      BY <2>1, <2>4 DEF Others
    <3>2. Untraced(k)
      BY <3>1 DEF Untraced, Publishing, Running, Program
    <3> QED
      BY <1>3, <2>1, <2>2, <3>2
  <2> QED
    BY <2>3, <2>4
<1>5. ASSUME NEW i \in Requests, AnyStep(i)
      PROVE  Free(k)'
  <2>1. Untraced(k) /\ (k = i => At(i).do \notin Signs)
    BY <1>5, UntracedBefore
  <2>2. Free(k)
    BY <2>1 DEF TraceInv
  <2>3. \A s \in Slots[name], v \in Versions : tree'[s][v].by # k
    BY <1>5, <2>1, <2>2, FreeTree
  <2>4. \A j \in Requests, v \in Versions : request'[j].kept[v].by # k
    BY <1>5, <2>2, FreeKept
  <2> QED
    BY <1>1, <2>3, <2>4 DEF Free
<1>6. CASE Crash
  <2>2. ASSUME NEW j \in Requests
        PROVE  /\ request'[j].kept = request[j].kept \/ request'[j].kept = Nothing
               /\ Untraced(j)' => Untraced(j)
    <3>1. CASE Running(j)
      <4>1. /\ request'[j].op = request[j].op /\ request'[j].pc = 0 /\ request'[j].end = "failed"
            /\ request'[j].kept = Nothing /\ request[j].op # "none"
        BY <1>6, <3>1, CrashGoes, RunningFacts
      <4> QED
        BY <4>1 DEF Untraced, Publishing
    <3>2. CASE ~Running(j)
      <4>1. request'[j] = request[j]
        BY <1>6, <3>2, CrashGoes
      <4> QED
        BY <4>1 DEF Untraced, Publishing, Running, Program
    <3> QED
      BY <3>1, <3>2
  <2>3. Free(k)
    BY <2>2 DEF TraceInv
  <2>4. ASSUME NEW i \in Requests, Tear(i), NEW s \in Slots[name], NEW v \in Versions
        PROVE  tree'[s][v].by # k
    <3>1. Running(i) /\ request'[i].end = "failed" /\ request'[i].pc = 0
          /\ request'[i].op = request[i].op /\ request[i].op # "none"
      BY <1>6, <2>4, TearGoes, CrashGoes, RunningFacts
    <3>2. k # i
      BY <3>1 DEF Untraced, Publishing
    <3> QED
      BY <2>3, <2>4, <3>2, TearFree
  <2>5. CASE \E i \in Requests : Tear(i)
    <3>1. \A s \in Slots[name], v \in Versions : tree'[s][v].by # k
      BY <2>4, <2>5
    <3>2. \A j \in Requests, v \in Versions : request'[j].kept[v].by # k
      BY <1>2, <2>2, <2>3 DEF Free
    <3> QED
      BY <1>1, <3>1, <3>2 DEF Free
  <2>6. CASE tree' = tree
    BY <1>3, <2>2, <2>6
  <2> QED
    BY <1>6, <2>5, <2>6, CrashTree
<1>7. CASE Reload \/ Done \/ UNCHANGED vars
  <2>1. UNCHANGED <<tree, request>>
    BY <1>7 DEF Reload, Done, vars
  <2>2. Untraced(k)
    BY <2>1 DEF Untraced, Publishing, Running, Program
  <2> QED
    BY <1>3, <2>1, <2>2
<1> QED
  BY <1>4, <1>5, <1>6, <1>7, NextCases, Zenon

ThereInv ==
  ~shared => \A i \in Requests :
    LastBegun(i) /\ request[i].op \in Publications /\ request[i].end = "exists" =>
      \E g \in Guards(name) : Present(g, Version(i))

\* A publication is refused as a duplicate for what the guard found.
LEMMA GuardFound ==
  ASSUME PackageTypeOK, Keeps, ThereInv, ~shared, NEW i \in Requests, LastBegun(i),
         StepOf(i), request'[i].op \in Publications,
         request'[i].end = "exists"
  PROVE  \E g \in Guards(name) : Present(g, Version(i))'
<1>1. /\ Running(i)
      /\ \/ Stays(request[i], request'[i])
         \/ \E end \in EndsOf, kept \in Docs : MovesTo(i, end, kept)
  BY Moves
<1>2. /\ request[i].op # "none" /\ request[i].op \in Operations /\ name \in Names
      /\ Program(i) \in Programs(name, request[i].op) /\ request[i].pc \in DOMAIN Program(i)
      /\ At(i) = Program(i)[request[i].pc] /\ SlotsOf(At(i)) \subseteq Slots[name]
      /\ At(i).do # "unlock" => request[i].end = "idle"
  BY <1>1, RunningFacts
<1>3. request[i].op \in Publications /\ Version(i)' = Version(i)
  BY <1>2 DEF Keeps, Version
<1>4. CASE request[i].end = "exists"
  <2>1. At(i).do = "unlock"
    BY <1>2, <1>4
  <2>2. tree' = tree
    BY <2>1, LeavesTree
  <2>3. PICK g \in Guards(name) : Present(g, Version(i))
    BY <1>3, <1>4 DEF ThereInv
  <2> QED
    BY <1>3, <2>2, <2>3 DEF Present
<1>5. CASE tree' = tree /\ Declined(i, "exists")
  <2>1. At(i).do \in {"guard", "refuse"} /\ Present(At(i).at, Version(i))
    BY <1>5 DEF Declined
  <2>2. At(i).at \in Slots[name]
    BY <1>2, <2>1 DEF SlotsOf
  <2>3. At(i).at \in Guards(name)
    BY <1>2, <1>3, <2>1, <2>2, Zenon DEF Guards
  <2> QED
    BY <1>3, <1>5, <2>1, <2>3 DEF Present
<1>6. CASE Stays(request[i], request'[i])
  BY <1>4, <1>6 DEF Stays
<1>7. CASE \E end \in EndsOf, kept \in Docs : MovesTo(i, end, kept)
  <2>1. PICK end \in EndsOf, kept \in Docs : MovesTo(i, end, kept)
    BY <1>7
  <2>2. end = "exists"
    BY <2>1 DEF MovesTo, Goes, After
  <2> QED
    BY <1>4, <1>5, <2>1, <2>2 DEF MovesTo
<1> QED
  BY <1>1, <1>6, <1>7

LEMMA ThereInit == Init => InOrder /\ ThereInv
<1> SUFFICES ASSUME Init PROVE InOrder /\ ThereInv
  OBVIOUS
<1>1. \A i \in Requests : ~Running(i) /\ request[i].op = "none"
  BY IdleFields DEF Init, Running
<1> QED
  BY <1>1 DEF InOrder, ThereInv, LastBegun

LEMMA OneLast ==
  ASSUME NEW i \in Requests, NEW j \in Requests, LastBegun(i), LastBegun(j)
  PROVE  i = j
<1>1. i \in Begun /\ j \in Begun
  BY DEF LastBegun, Begun
<1>2. i <= j /\ j <= i
  BY <1>1 DEF LastBegun
<1>3. i \in Nat /\ j \in Nat
  BY RequestsNat
<1> QED
  BY <1>2, <1>3

LEMMA ThereNext ==
  ASSUME PackageTypeOK, PackageTypeOK', Keeps, InOrder, ThereInv, [Next]_vars
  PROVE  InOrder' /\ ThereInv'
<1>1. ASSUME NEW i \in Requests, MayBegin(i), NEW op \in Operations, NEW v \in Versions,
             NEW program \in Programs(name, op), Begin(i, op, program, v)
      PROVE  InOrder' /\ ThereInv'
  <2>1. InOrder' /\ \A j \in Requests : LastBegun(j)' => j = i
    BY <1>1, BeginOrder
  <2>2. request'[i].end = "idle"
    BY <1>1, BeginGoes DEF Started
  <2> QED
    BY <2>1, <2>2 DEF ThereInv
<1>2. ASSUME NEW i \in Requests, AnyStep(i)
      PROVE  InOrder' /\ ThereInv'
  <2>1. InOrder' /\ \A j \in Requests : LastBegun(j)' <=> LastBegun(j)
    BY <1>2, StepOrder
  <2>2. Running(i) /\ shared' = shared /\ name' = name
    BY <1>2, StepMoves
  <2> SUFFICES ASSUME ~shared, NEW j \in Requests, LastBegun(j), request'[j].op \in Publications,
                      request'[j].end = "exists"
               PROVE  \E g \in Guards(name) : Present(g, Version(j))'
    BY <2>1, <2>2 DEF ThereInv
  <2>3. LastBegun(i)
    BY <2>2 DEF InOrder
  <2>4. j = i
    BY <2>3, OneLast
  <2>5. ASSUME CutOff(i) \/ Misread(i) PROVE request'[i].end # "exists"
    BY <2>5, CutOffGoes, MisreadGoes DEF Goes, After
  <2> QED
    BY <1>2, <2>3, <2>4, <2>5, GuardFound DEF AnyStep
<1>3. ASSUME tree' = tree, name' = name, shared' = shared,
             \A j \in Requests : /\ request'[j].op = request[j].op
                                 /\ Running(j)' => Running(j)
                                 /\ request'[j] = request[j] \/ request'[j].end # "exists"
      PROVE  InOrder' /\ ThereInv'
  <2>1. InOrder' /\ \A j \in Requests : LastBegun(j)' <=> LastBegun(j)
    BY <1>3, OrderKept
  <2>2. ThereInv'
    <3> SUFFICES ASSUME ~shared, NEW j \in Requests, LastBegun(j), request'[j].op \in Publications,
                        request'[j].end = "exists"
                 PROVE  \E g \in Guards(name) : Present(g, Version(j))'
      BY <1>3, <2>1 DEF ThereInv
    <3>1. request'[j] = request[j]
      BY <1>3
    <3>2. PICK g \in Guards(name) : Present(g, Version(j))
      BY <3>1 DEF ThereInv
    <3> QED
      BY <1>3, <3>1, <3>2 DEF Present, Version
  <2> QED
    BY <2>1, <2>2
<1>4. CASE Crash
  <2>1. UNCHANGED <<name, shared>>
    BY <1>4, CrashGoes
  <2>2. ASSUME NEW j \in Requests
        PROVE  /\ request'[j].op = request[j].op /\ (Running(j)' => Running(j))
               /\ request'[j] = request[j] \/ request'[j].end # "exists"
    <3>1. CASE Running(j)
      <4>1. request'[j].op = request[j].op /\ request'[j].end = "failed"
        BY <1>4, <3>1, CrashGoes
      <4> QED
        BY <3>1, <4>1
    <3>2. CASE ~Running(j)
      <4>1. request'[j] = request[j]
        BY <1>4, <3>2, CrashGoes
      <4> QED
        BY <4>1 DEF Running
    <3> QED
      BY <3>1, <3>2
  <2>3. CASE tree' = tree
    BY <1>3, <2>1, <2>2, <2>3
  <2>4. ASSUME NEW i \in Requests, Tear(i) PROVE InOrder' /\ ThereInv'
    <3>1. InOrder' /\ \A j \in Requests : LastBegun(j)' <=> LastBegun(j)
      BY <2>1, <2>2, OrderKept
    <3> SUFFICES ASSUME ~shared, NEW j \in Requests, LastBegun(j) PROVE request'[j].end # "exists"
      BY <2>1, <3>1 DEF ThereInv
    <3>2. Running(i) /\ request'[i].end = "failed"
      BY <1>4, <2>4, TearGoes, CrashGoes
    <3>3. i = j
      BY <3>2, OneLast DEF InOrder
    <3> QED
      BY <3>2, <3>3
  <2> QED
    BY <1>4, <2>3, <2>4, CrashTree
<1>5. CASE Reload \/ Done \/ UNCHANGED vars
  <2>1. UNCHANGED <<name, shared, tree, request>>
    BY <1>5 DEF Reload, Done, vars
  <2> QED
    BY <1>3, <2>1 DEF Running
<1> QED
  BY <1>1, <1>2, <1>4, <1>5, NextCases, Zenon

\* A publication that is refused leaves no trace, whatever requests overlap it; and
\* where requests come one at a time it is refused as a duplicate only of a version
\* that is listed and has its file, whatever failed requests and crashes left, in every
\* format whose guard asks for what is written last, as long as no write in place was
\* cut off. (But for vagrant, which is not among those that write the file before the
\* entry.)
THEOREM RefusalSoundAlways == Spec => [](name # "vagrant" => RefusalSound)
<1> DEFINE Inv == PackageTypeOK /\ FirstInv /\ InOrder /\ TraceInv /\ ThereInv
<1>1. Init => Inv
  BY TypeInit, FirstInit, TraceInit, ThereInit
<1>2. Inv /\ [Next]_vars => Inv'
  BY TypeNext, FirstNext, TraceNext, ThereNext
<1>3. Inv => (name # "vagrant" => RefusalSound)
  <2> SUFFICES ASSUME Inv, name # "vagrant", name \notin SeveralUploads PROVE RefusalSound
    BY DEF RefusalSound
  <2>1. ASSUME NEW i \in Requests, request[i].op \in Publications,
               request[i].end \in {"refused", "exists"}, NEW s \in DOMAIN tree, NEW v \in Versions
        PROVE  tree[s][v].by # i
    <3>1. Untraced(i)
      BY <2>1 DEF Untraced
    <3>2. DOMAIN tree = Slots[name]
      BY DEF PackageTypeOK
    <3> QED
      BY <2>1, <3>1, <3>2 DEF TraceInv, Free
  <2>2. ASSUME ~shared, name \notin GuardedFirst, NEW i, i = Cardinality(Begun), i > 0,
               request[i].op \in Publications, request[i].end = "exists", ~Removed(Version(i))
        PROVE  Stands(Version(i))
    <3>1. i \in Requests /\ LastBegun(i)
      BY <2>2, BegunFirst
    <3>2. PICK g \in Guards(name) : Present(g, Version(i))
      BY <2>2, <3>1 DEF ThereInv
    <3>3. PICK v \in Versions : v = Version(i)
      <4>1. request[i].op # "none" /\ Steady(name, request[i])
        BY <3>1 DEF LastBegun, PackageTypeOK
      <4> QED
        BY <4>1 DEF Steady, Version
    <3>4. name \in Names /\ AsksListed(name)
      <4>1. name \in Names
        BY DEF PackageTypeOK
      <4> QED
        BY <2>2, <4>1, Following, Zenon DEF Follows
    <3>5. ASSUME NEW s \in Listings PROVE Listed(s, v)
      <4>1. CASE "found" \in DOMAIN Formats[name]
        <5>1. g \in Formats[name].found
          BY <3>4, <4>1, Zenon DEF AsksListed
        <5> QED
          BY <3>2, <3>3, <4>1, <5>1 DEF Listed
      <4>2. CASE "found" \notin DOMAIN Formats[name]
        <5>1. g = s
          BY <3>4, <3>5, <4>2, Zenon DEF AsksListed, Listings
        <5> QED
          BY <3>2, <3>3, <4>2, <5>1 DEF Listed
      <4> QED
        BY <4>1, <4>2
    <3>6. name \notin EntryFirst
      BY <2>2 DEF EntryFirst, GuardedFirst, SeveralUploads
    <3>7. PICK s \in Listings : TRUE
      BY <3>4, Zenon DEF AsksListed, Listings
    <3>8. Present(File, v)
      <4>1. ListedResolves
        BY FirstListed
      <4> QED
        BY <2>2, <3>3, <3>5, <3>6, <3>7, <4>1 DEF ListedResolves
    <3> QED
      BY <3>3, <3>5, <3>8 DEF Stands
  <2> QED
    BY <2>1, <2>2 DEF RefusalSound
<1> QED
  BY <1>1, <1>2, <1>3, PTL DEF Spec

-----------------------------------------------------------------------------
(***************************************************************************)
(* Marks. Once a request alone with its version has marked it, the document*)
(* has the mark, and so does what any other request has read of it inside  *)
(* the mutex. The first request has ended when any other one runs.         *)
(***************************************************************************)
FirstAlone ==
  /\ request[1].op \in {"none", "publish"}
  /\ \A j \in Requests \ {1} : request[j].op # "none" => request[1].op # "none" /\ ~Running(1)
Lone(i) ==
  /\ request[i].op \in Marking
  /\ \A j \in Begun \ {i} : Version(j) = Version(i) => j = 1
DidSet(i, s) ==
  \/ request[i].end = "ok"
  \/ /\ Running(i) /\ request[i].end = "idle"
     /\ HasSet(request[i].op, Program(i), request[i].pc, s)
Bears(doc, op, v) == IF op = "hold" THEN doc[v] # Absent ELSE doc[v] # Absent => doc[v].yanked
MarkFormat == name \notin Healed /\ OneMutex /\ torn = {} /\ misread = {}
Bearing(i, s) ==
  /\ Bears(tree[s], request[i].op, Version(i))
  /\ \A j \in Requests \ {i} :
       InRegion(j) /\ Loaded(Program(j), request[j].pc, s) =>
         Bears(request[j].kept, request[i].op, Version(i))
MarkInv ==
  MarkFormat => \A i \in Requests : Lone(i) =>
    \A s \in MarkSlots(name, request[i].op) : DidSet(i, s) => Bearing(i, s)

\* The rules at the step of a request.
LEMMA MarkRules ==
  ASSUME PackageTypeOK, MarkFormat, NEW i \in Requests, Running(i)
  PROVE  LET p == Program(i)
             k == request[i].pc
             op == request[i].op
         IN /\ At(i).do \in Changes /\ At(i).at \in MarkedSlots(name) =>
                 \/ At(i).do \in {"write", "stream", "erase", "mark", "unmark"}
                 \/ /\ At(i).do \in {"put", "cut", "yank", "unyank"}
                    /\ Locked(p, k) /\ Loaded(p, k, At(i).at)
            /\ \A s \in MarkedSlots(name) : ~Clears(At(i), s)
            /\ At(i).do = "scan" => At(i).by \notin MarkedSlots(name)
            /\ op \in Marking =>
                 /\ At(i).do \notin {"unless", "known", "last"}
                 /\ \A s \in MarkSlots(name, op) :
                      /\ s \in MarkedSlots(name)
                      /\ Sets(op, At(i), s) => Locked(p, k)
                      /\ HasSet(op, p, k, s) /\ At(i).do \in Changes => At(i).at # s
                      /\ HasSet(op, p, Len(p) + 1, s)
<1> DEFINE p == Program(i)
           k == request[i].pc
           op == request[i].op
<1>1. /\ name \in Names /\ op \in Operations /\ p \in Programs(name, op) /\ k \in DOMAIN p
      /\ At(i) = p[k]
  BY RunningFacts
<1>2. MarksOnce(name, op, p)
  BY <1>1, Following, Zenon DEF Follows, MarkFormat
<1>3. /\ p[k].do \in Changes /\ p[k].at \in MarkedSlots(name) =>
           \/ p[k].do \in {"write", "stream", "erase", "mark", "unmark"}
           \/ /\ p[k].do \in {"put", "cut", "yank", "unyank"}
              /\ Locked(p, k) /\ Loaded(p, k, p[k].at)
      /\ \A s \in MarkedSlots(name) : ~Clears(p[k], s)
      /\ p[k].do = "scan" => p[k].by \notin MarkedSlots(name)
  BY <1>1, <1>2, Zenon DEF MarksOnce
<1>4. ASSUME op \in Marking
      PROVE  /\ p[k].do \notin {"unless", "known", "last"}
             /\ \A s \in MarkSlots(name, op) :
                  /\ Sets(op, p[k], s) => Locked(p, k)
                  /\ HasSet(op, p, k, s) /\ p[k].do \in Changes => p[k].at # s
                  /\ HasSet(op, p, Len(p) + 1, s)
  BY <1>1, <1>2, <1>4, Zenon DEF MarksOnce
<1>5. op \in Marking => \A s \in MarkSlots(name, op) : s \in MarkedSlots(name)
  BY <1>1 DEF MarkedSlots
<1> QED
  BY <1>1, <1>3, <1>4, <1>5

\* A request of another version leaves a version as it is, or writes the document,
\* inside the mutex, as it was read there.
LEMMA MarkTouch ==
  ASSUME PackageTypeOK, Keeps, MarkFormat, NEW i \in Requests,
         StepOf(i),
         NEW s \in MarkedSlots(name), s \in Slots[name], NEW v \in Versions, v # Version(i)
  PROVE  \/ tree'[s][v] = tree[s][v]
         \/ /\ InRegion(i) /\ Loaded(Program(i), request[i].pc, s)
            /\ tree'[s][v] = request[i].kept[v]
<1>1. DOMAIN tree = Slots[name] /\ tree[s] \in [Versions -> EntryOf]
  BY DEF PackageTypeOK, Docs
<1>2. ASSUME NEW t \in Slots[name], NEW doc, tree' = [tree EXCEPT ![t] = doc],
             t = s => doc[v] = tree[s][v]
      PROVE  tree'[s][v] = tree[s][v]
  BY <1>1, <1>2
<1>3. CASE Change(i)
  <2>1. /\ Running(i) /\ At(i).do \in Changes /\ request[i].end = "idle" /\ Takes(i, Changes)
        /\ tree' = [tree EXCEPT ![At(i).at] = Written(i)]
    BY <1>3, ChangeGoes
  <2>2. At(i).at \in Slots[name] /\ request[i].kept \in [Versions -> EntryOf]
    BY <2>1, WrittenFacts, RunningFacts DEF Docs
  <2>3. CASE At(i).at # s
    BY <1>2, <2>1, <2>2, <2>3
  <2>4. CASE At(i).at = s /\ At(i).do \in {"write", "stream", "erase", "mark", "unmark"}
    <3> DEFINE slot == tree[s]
    <3>1. \E e : Written(i) = [slot EXCEPT ![Version(i)] = e]
      <4>1. At(i).do \in {"write", "stream"} => Written(i) = [slot EXCEPT ![Version(i)] = Entry(i)]
        BY <2>4, WrittenExactly
      <4>2. At(i).do = "erase" => Written(i) = [slot EXCEPT ![Version(i)] = Absent]
        BY <2>4, WrittenExactly
      <4>3. At(i).do \in {"mark", "unmark"} =>
              \E flag : Written(i) =
                         [slot EXCEPT ![Version(i)] = Marked(request[i].kept[Version(i)], flag)]
        BY <2>4, WrittenExactly
      <4> QED
        BY <2>4, <4>1, <4>2, <4>3
    <3>2. slot \in [Versions -> EntryOf]
      BY <1>1
    <3> HIDE DEF slot
    <3>3. Written(i)[v] = slot[v]
      BY <3>1, <3>2
    <3> QED
      BY <1>2, <2>1, <2>2, <3>3 DEF slot
  <2>5. CASE /\ At(i).at = s /\ At(i).do \in {"put", "cut", "yank", "unyank"}
             /\ Locked(Program(i), request[i].pc) /\ Loaded(Program(i), request[i].pc, s)
    <3> DEFINE kept == request[i].kept
    <3>1. \E e : Written(i) = [kept EXCEPT ![Version(i)] = e]
      BY <2>5, WrittenExactly
    <3>2. kept \in [Versions -> EntryOf]
      BY <2>2
    <3> HIDE DEF kept
    <3>3. Written(i)[v] = kept[v]
      BY <3>1, <3>2
    <3>4. tree'[s] = Written(i)
      BY <1>1, <2>1, <2>2, <2>5
    <3>5. InRegion(i)
      BY <2>1, <2>5 DEF InRegion
    <3> QED
      BY <2>5, <3>3, <3>4, <3>5 DEF kept
  <2> QED
    BY <2>1, <2>3, <2>4, <2>5, MarkRules
<1>4. CASE Repair(i)
  <2>1. Running(i) /\ At(i).do = "scan" /\ At(i).by \in Slots[name]
    BY <1>4, RepairGoes
  <2>2. PICK metas \in Docs : tree' = [tree EXCEPT ![At(i).by] = metas]
    BY <1>4, RepairGoes
  <2>3. At(i).by # s
    BY <2>1, MarkRules
  <2> QED
    BY <1>2, <2>1, <2>2, <2>3
<1>5. CASE DeleteNext(i)
  <2>1. Running(i) /\ At(i).do = "tree"
    BY <1>5, DeleteNextGoes
  <2>2. PICK t \in Slots[name] : \E doc \in Docs : t \in At(i).by /\ tree' = [tree EXCEPT ![t] = doc]
    BY <1>5, DeleteNextGoes
  <2>3. t # s
    BY <2>1, <2>2, MarkRules DEF Clears
  <2> QED
    BY <1>2, <2>2, <2>3
<1>6. CASE FailChange(i)
  <2>1. /\ At(i).at \in Slots[name] /\ Running(i)
        /\ \/ tree' = tree
           \/ tree' = [tree EXCEPT ![At(i).at] = [@ EXCEPT ![Version(i)] = Absent]]
    BY <1>6, FailChangeGoes
  <2> DEFINE old == tree[At(i).at]
             doc == [old EXCEPT ![Version(i)] = Absent]
  <2>2. old \in [Versions -> EntryOf]
    BY <2>1 DEF PackageTypeOK, Docs
  <2>3. tree' = tree \/ tree' = [tree EXCEPT ![At(i).at] = doc]
    BY <2>1
  <2>4. At(i).at = s => old = tree[s]
    OBVIOUS
  <2> HIDE DEF old
  <2>5. doc[v] = old[v]
    BY <2>2
  <2> HIDE DEF doc
  <2> QED
    BY <1>2, <2>1, <2>3, <2>4, <2>5
<1>7. CASE FailDelete(i) \/ Asking(i) \/ Gather(i) \/ DeleteEnd(i) \/ Acquire(i) \/ Release(i)
  <2>1. tree' = tree
    BY <1>7, FailDeleteGoes, AskingGoes, GatherGoes, DeleteEndGoes, AcquireGoes, ReleaseGoes
  <2> QED
    BY <2>1
<1> QED
  BY <1>3, <1>4, <1>5, <1>6, <1>7 DEF StepOf, Advance, Asking

\* The request that marks: its own step.
LEMMA SetStep ==
  ASSUME PackageTypeOK, Keeps, MarkFormat, NEW i \in Requests, Running(i), request[i].op \in Marking,
         NEW s \in MarkSlots(name, request[i].op), NEW end \in EndsOf, NEW kept,
         MovesTo(i, end, kept), DidSet(i, s)'
  PROVE  DidSet(i, s) \/ (Change(i) /\ Sets(request[i].op, At(i), s))
<1> DEFINE r == request[i]
           p == Program(i)
<1>1. PICK t : t = request'[i]
  OBVIOUS
<1>2. /\ t.op = r.op /\ t.program = p
      /\ \/ /\ t.pc \in (r.pc + 1)..Len(p) /\ t.pc # 0 /\ t.end = end
            /\ end = "idle" => \A m \in (r.pc + 1)..(t.pc - 1) : p[m].do = "check"
         \/ /\ t.pc = 0 /\ t.end = IF end # "idle" THEN end ELSE "ok"
            /\ end = "idle" => \A m \in (r.pc + 1)..Len(p) : p[m].do = "check"
  BY <1>1 DEF MovesTo, Goes, After, Program
<1>3. /\ r.pc \in Nat /\ r.pc # 0 /\ Len(p) \in Nat /\ r.pc \in 1..Len(p) /\ At(i) = p[r.pc]
  BY RunningFacts
<1>4. ASSUME NEW l \in Nat, r.pc < l, \A m \in (r.pc + 1)..(l - 1) : p[m].do = "check",
             HasSet(r.op, p, l, s)
      PROVE  HasSet(r.op, p, r.pc, s) \/ Sets(r.op, At(i), s)
  <2>1. PICK m \in 1..(l - 1) : Sets(r.op, p[m], s)
    BY <1>4 DEF HasSet
  <2>2. p[m].do # "check"
    BY <2>1 DEF Sets
  <2>3. m = r.pc \/ m \in 1..(r.pc - 1)
    BY <1>3, <1>4, <2>2
  <2> QED
    BY <1>3, <2>1, <2>3 DEF HasSet
<1>5. CASE end = "idle"
  <2>1. r.end = "idle"
    BY <1>5 DEF MovesTo
  <2>2. HasSet(r.op, p, r.pc, s) \/ Sets(r.op, At(i), s)
    <3>1. CASE t.pc # 0
      <4>1. PICK l \in Nat : l = t.pc /\ r.pc < l
        BY <1>2, <1>3, <3>1
      <4>2. HasSet(r.op, p, l, s)
        BY <1>1, <1>2, <1>5, <3>1, <4>1 DEF DidSet, Program
      <4> QED
        BY <1>2, <1>4, <1>5, <3>1, <4>1, <4>2
    <3>2. CASE t.pc = 0
      <4>1. PICK l \in Nat : l = Len(p) + 1 /\ r.pc < l /\ l - 1 = Len(p)
        BY <1>3
      <4>2. HasSet(r.op, p, l, s)
        BY <4>1, MarkRules
      <4>3. \A m \in (r.pc + 1)..(l - 1) : p[m].do = "check"
        BY <1>2, <1>3, <1>5, <3>2, <4>1
      <4> QED
        BY <1>4, <4>1, <4>2, <4>3
    <3> QED
      BY <3>1, <3>2
  <2>3. Sets(r.op, At(i), s) => Change(i)
    <3>1. Sets(r.op, At(i), s) => At(i).do \in Changes /\ ~At(i).try
      BY DEF Sets, Changes
    <3> QED
      BY <1>5, <3>1 DEF MovesTo
  <2> QED
    BY <2>1, <2>2, <2>3 DEF DidSet
<1>6. CASE end # "idle"
  <2>1. end = "ok"
    BY <1>1, <1>2, <1>6 DEF DidSet
  <2>2. At(i).do \notin {"unless", "known", "last"}
    BY MarkRules
  <2>3. r.end = "ok"
    BY <2>1, <2>2 DEF MovesTo
  <2> QED
    BY <2>3 DEF DidSet
<1> QED
  BY <1>5, <1>6

LEMMA SetBears ==
  ASSUME PackageTypeOK, Keeps, NEW i \in Requests, request[i].op \in Marking, Change(i), NEW s,
         Sets(request[i].op, At(i), s)
  PROVE  Bears(tree'[s], request[i].op, Version(i))
<1> DEFINE v == Version(i)
           kept == request[i].kept
           slot == tree[s]
<1>1. /\ Running(i) /\ At(i).do \in Changes /\ request[i].end = "idle" /\ Takes(i, Changes)
      /\ tree' = [tree EXCEPT ![At(i).at] = Written(i)]
  BY ChangeGoes
<1>2. At(i).at = s /\ At(i).at \in Slots[name] /\ kept \in [Versions -> EntryOf] /\ v \in Versions
  BY <1>1, WrittenFacts, RunningFacts DEF Docs, Sets
<1>3. tree'[s] = Written(i) /\ slot \in [Versions -> EntryOf]
  BY <1>1, <1>2 DEF PackageTypeOK, Docs
<1>4. Entry(i) # Absent
  BY EntryFacts
<1>5. Marked(kept[v], TRUE) # Absent => Marked(kept[v], TRUE).yanked
  <2>1. kept[v] \in EntryOf
    BY <1>2
  <2>2. CASE kept[v] = Absent
    BY <2>2 DEF Marked
  <2>3. CASE kept[v] # Absent
    <3>1. Marked(kept[v], TRUE) = [kept[v] EXCEPT !.yanked = TRUE]
      BY <2>3 DEF Marked
    <3> QED
      BY <2>1, <3>1 DEF EntryOf, Absent
  <2> QED
    BY <2>2, <2>3
<1> HIDE DEF kept, slot
<1>6. CASE request[i].op = "hold"
  <2>1. Written(i) = [kept EXCEPT ![v] = Entry(i)]
    BY <1>6, WrittenExactly DEF Sets, kept
  <2> QED
    BY <1>2, <1>3, <1>4, <1>6, <2>1 DEF Bears
<1>7. CASE request[i].op # "hold"
  <2>1. \/ Written(i) = [kept EXCEPT ![v] = Marked(kept[v], TRUE)]
        \/ Written(i) = [slot EXCEPT ![v] = Marked(kept[v], TRUE)]
    BY <1>2, <1>7, WrittenExactly DEF Sets, kept, slot
  <2>2. Written(i)[v] = Marked(kept[v], TRUE)
    BY <1>2, <1>3, <2>1
  <2> QED
    BY <1>3, <1>5, <1>7, <2>2 DEF Bears
<1> QED
  BY <1>6, <1>7

LEMMA SetLeaves ==
  ASSUME PackageTypeOK, Keeps, MarkFormat, NEW i \in Requests, request[i].op \in Marking,
         StepOf(i),
         NEW s \in MarkSlots(name, request[i].op), s \in Slots[name], DidSet(i, s)
  PROVE  tree'[s] = tree[s]
<1>1. Running(i) /\ DOMAIN tree = Slots[name]
  BY Moves DEF PackageTypeOK
<1>2. s \in MarkedSlots(name)
  BY <1>1, MarkRules
<1>3. CASE request[i].end = "ok"
  <2>1. At(i).do = "unlock"
    BY <1>1, <1>3, RunningFacts
  <2> QED
    BY <2>1, LeavesTree
<1>4. CASE HasSet(request[i].op, Program(i), request[i].pc, s)
  <2>1. CASE Change(i) \/ FailChange(i)
    <3>1. At(i).do \in Changes /\ (tree' = tree \/ \E doc : tree' = [tree EXCEPT ![At(i).at] = doc])
      BY <2>1, ChangeGoes, FailChangeGoes
    <3>2. At(i).at # s
      BY <1>1, <1>4, <3>1, MarkRules
    <3> QED
      BY <1>1, <3>1, <3>2
  <2>2. CASE Repair(i)
    <3>1. Running(i) /\ At(i).do = "scan" /\ \E metas : tree' = [tree EXCEPT ![At(i).by] = metas]
      BY <2>2, RepairGoes
    <3>2. At(i).by # s
      BY <1>2, <3>1, MarkRules
    <3> QED
      BY <1>1, <3>1, <3>2
  <2>3. CASE DeleteNext(i)
    <3>1. Running(i) /\ At(i).do = "tree"
      BY <2>3, DeleteNextGoes
    <3>2. PICK t \in Slots[name] : \E doc \in Docs : t \in At(i).by /\ tree' = [tree EXCEPT ![t] = doc]
      BY <2>3, DeleteNextGoes
    <3>3. t # s
      BY <1>2, <3>1, <3>2, MarkRules DEF Clears
    <3> QED
      BY <1>1, <3>2, <3>3
  <2>4. CASE FailDelete(i) \/ Asking(i) \/ Gather(i) \/ DeleteEnd(i) \/ Acquire(i) \/ Release(i)
    <3>1. tree' = tree
      BY <2>4, FailDeleteGoes, AskingGoes, GatherGoes, DeleteEndGoes, AcquireGoes, ReleaseGoes
    <3> QED
      BY <3>1
  <2> QED
    BY <2>1, <2>2, <2>3, <2>4 DEF StepOf, Advance, Asking
<1> QED
  BY <1>3, <1>4 DEF DidSet

\* Whoever is alone with its version after a step was so before.
LEMMA LoneBefore ==
  ASSUME PackageTypeOK, Keeps, NEW i \in Requests, request[i].op # "none", Lone(i)'
  PROVE  Lone(i) /\ request'[i].op = request[i].op /\ Version(i)' = Version(i)
<1>1. request'[i].op = request[i].op /\ Version(i)' = Version(i)
  BY DEF Keeps, Version
<1>2. ASSUME NEW j \in Begun \ {i}, Version(j) = Version(i) PROVE j = 1
  <2>1. j \in Begun' \ {i} /\ Version(j)' = Version(j)
    BY DEF Begun, Keeps, Version
  <2> QED
    BY <1>1, <1>2, <2>1 DEF Lone
<1> QED
  BY <1>1, <1>2 DEF Lone

\* No other request of the same version runs.
LEMMA LoneVersion ==
  ASSUME PackageTypeOK, FirstAlone, NEW i \in Requests, Lone(i), NEW j \in Requests \ {i}, Running(j)
  PROVE  Version(j) # Version(i)
<1>1. request[j].op # "none" /\ request[i].op \in Marking
  BY RunningFacts DEF Lone
<1>2. i # 1 /\ request[i].op # "none"
  BY <1>1 DEF FirstAlone, Marking
<1>3. j # 1
  BY <1>2 DEF FirstAlone
<1> QED
  BY <1>1, <1>3 DEF Lone, Begun

LEMMA MarkAdvance ==
  ASSUME PackageTypeOK, PackageTypeOK', Keeps, AloneInv, FirstAlone, MarkFormat, MarkInv,
         NEW j \in Requests, StepOf(j),
         NEW i \in Requests, Lone(i)', NEW s \in MarkSlots(name, request'[i].op), DidSet(i, s)'
  PROVE  Bearing(i, s)'
<1>1. /\ Running(j) /\ Others(j) /\ UNCHANGED <<name, immutable, shared, object>>
      /\ \/ Stays(request[j], request'[j])
         \/ \E end \in EndsOf, kept \in Docs : MovesTo(j, end, kept)
  BY Moves
<1>2. request[i].op # "none"
  <2>1. CASE i = j
    BY <1>1, <2>1, RunningFacts
  <2>2. CASE i # j
    BY <1>1, <2>2 DEF Others, Lone, Marking
  <2> QED
    BY <2>1, <2>2
<1>3. Lone(i) /\ request'[i].op = request[i].op
  BY <1>2, LoneBefore
<1>4. PICK v \in Versions : v = Version(i) /\ v = Version(i)'
  BY <1>2 DEF PackageTypeOK, Steady, Version, Keeps
<1>5. PICK op : op = request[i].op /\ op \in Marking
  BY <1>3 DEF Lone
<1>6. s \in MarkedSlots(name) /\ s \in Slots[name]
  <2>1. name \in Names /\ request[i].op \in Operations /\ Program(i) \in Programs(name, request[i].op)
    BY <1>2 DEF PackageTypeOK, Steady, Program, RequestOf, OpsOf
  <2>2. s \in MarkedSlots(name)
    BY <1>3, <1>5, <2>1 DEF MarkedSlots
  <2>3. MarkedSlots(name) \subseteq Slots[name]
    BY <2>1, Following, Zenon DEF Follows, MarkFormat
  <2> QED
    BY <2>2, <2>3
<1>7. DidSet(i, s) => Bears(tree[s], op, v)
  BY <1>3, <1>4, <1>5 DEF MarkInv, Bearing
<1>8. DidSet(i, s) \/ (i = j /\ Change(i) /\ Sets(op, At(i), s))
  <2>1. CASE i # j
    <3>1. request'[i] = request[i]
      BY <1>1, <2>1 DEF Others
    <3> QED
      BY <3>1 DEF DidSet, Running, Program
  <2>2. CASE i = j /\ Stays(request[i], request'[i])
    BY <2>2 DEF Stays, DidSet, Running, Program
  <2>3. CASE i = j /\ \E end \in EndsOf, kept \in Docs : MovesTo(i, end, kept)
    BY <1>1, <1>3, <1>5, <2>3, SetStep
  <2> QED
    BY <1>1, <2>1, <2>2, <2>3
<1>9. Bears(tree'[s], op, v)
  <2>1. CASE i = j /\ DidSet(i, s)
    <3>1. tree'[s] = tree[s]
      BY <1>3, <1>5, <1>6, <2>1, SetLeaves
    <3> QED
      BY <1>7, <2>1, <3>1 DEF Bears
  <2>2. CASE i = j /\ Change(i) /\ Sets(op, At(i), s)
    BY <1>4, <1>5, <2>2, SetBears
  <2>3. CASE i # j /\ DidSet(i, s)
    <3>1. v # Version(j)
      BY <1>1, <1>3, <1>4, <2>3, LoneVersion
    <3>2. \/ tree'[s][v] = tree[s][v]
          \/ /\ InRegion(j) /\ Loaded(Program(j), request[j].pc, s)
             /\ tree'[s][v] = request[j].kept[v]
      BY <1>6, <3>1, MarkTouch
    <3>3. InRegion(j) /\ Loaded(Program(j), request[j].pc, s) => Bears(request[j].kept, op, v)
      BY <1>3, <1>4, <1>5, <2>3 DEF MarkInv, Bearing
    <3> QED
      BY <1>7, <2>3, <3>2, <3>3 DEF Bears
  <2> QED
    BY <1>8, <2>1, <2>2, <2>3
<1>10. ASSUME NEW k \in Requests \ {i}, InRegion(k)', Loaded(Program(k)', request'[k].pc, s)
       PROVE  Bears(request'[k].kept, op, v)
  <2>1. CASE /\ InRegion(k) /\ Loaded(Program(k), request[k].pc, s)
             /\ request'[k].kept = request[k].kept
    <3>1. DidSet(i, s)
      <4>1. ASSUME i = j, Change(i), Sets(op, At(i), s) PROVE FALSE
        <5>1. request[i].end = "idle" /\ Locked(Program(i), request[i].pc)
          BY <1>1, <1>3, <1>5, <4>1, MarkRules, ChangeGoes
        <5>2. InRegion(i)
          BY <1>1, <4>1, <5>1 DEF InRegion
        <5> QED
          BY <2>1, <5>2, OneInRegion DEF MarkFormat
      <4> QED
        BY <1>8, <4>1
    <3>2. Bears(request[k].kept, op, v)
      BY <1>3, <1>4, <1>5, <2>1, <3>1 DEF MarkInv, Bearing
    <3> QED
      BY <2>1, <3>2 DEF Bears
  <2>2. CASE k # j
    <3>1. request'[k] = request[k]
      BY <1>1, <2>2 DEF Others
    <3> QED
      BY <1>1, <1>10, <2>1, <3>1 DEF InRegion, Running, Program
  <2>3. CASE k = j /\ Stays(request[j], request'[j])
    BY <1>1, <1>10, <2>1, <2>3 DEF Stays, InRegion, Running, Program
  <2>4. CASE k = j /\ \E end \in EndsOf, kept \in Docs : MovesTo(j, end, kept)
    <3>1. PICK end \in EndsOf, kept \in Docs : MovesTo(j, end, kept)
      BY <2>4
    <3> DEFINE r == request[j]
               p == Program(j)
    <3>2. PICK t : t = request'[j]
      OBVIOUS
    <3>3. /\ t.program = p /\ t.pc \in (r.pc + 1)..Len(p) /\ t.kept = kept
          /\ t.pc # 0 /\ end = "idle" /\ t.end = end
          /\ \A m \in (r.pc + 1)..(t.pc - 1) : p[m].do = "check"
      BY <1>10, <2>4, <3>1, <3>2 DEF MovesTo, Goes, After, Program, InRegion, Running
    <3>4. r.pc \in Nat /\ r.pc # 0 /\ Len(p) \in Nat /\ At(j) = p[r.pc] /\ r.end = "idle"
      BY <1>1, <3>1, <3>3, RunningFacts DEF MovesTo
    <3>5. PICK l \in Nat : l = t.pc /\ r.pc < l
      BY <3>3, <3>4
    <3>6. Loaded(p, l, s) /\ \A m \in (r.pc + 1)..(l - 1) : p[m].do = "check"
      BY <1>10, <2>4, <3>2, <3>3, <3>5 DEF Program
    <3>7. \/ At(j).do = "load" /\ At(j).at = s
          \/ Loaded(p, r.pc, s) /\ At(j).do \notin {"load", "fold", "scan", "lock", "unlock"}
      BY <3>4, <3>5, <3>6, Behind
    <3>8. CASE At(j).do = "load" /\ At(j).at = s
      <4>1. kept = tree[s]
        BY <3>1, <3>3, <3>8 DEF MovesTo
      <4>2. DidSet(i, s)
        BY <1>8, <2>4
      <4> QED
        BY <1>7, <2>4, <3>2, <3>3, <4>1, <4>2 DEF Bears
    <3>9. CASE Loaded(p, r.pc, s) /\ At(j).do \notin {"load", "fold", "scan", "lock", "unlock"}
      <4>1. kept = r.kept
        BY <3>1, <3>9 DEF MovesTo
      <4>2. InRegion(j)
        <5>1. Goes(j, end, kept)
          BY <3>1 DEF MovesTo
        <5> QED
          BY <1>1, <1>10, <2>4, <3>4, <3>9, <5>1, RegionGoes
      <4> QED
        BY <2>1, <2>4, <3>2, <3>3, <3>9, <4>1, <4>2
    <3> QED
      BY <3>7, <3>8, <3>9
  <2> QED
    BY <1>1, <2>2, <2>3, <2>4
<1> QED
  BY <1>3, <1>4, <1>5, <1>9, <1>10 DEF Bearing, Bears, Program

LEMMA FirstAloneInit == Init => FirstAlone
<1> SUFFICES ASSUME Init PROVE FirstAlone
  OBVIOUS
<1>1. 1 \in Requests
  BY PackageStoreAssumption DEF Requests
<1>2. \A i \in Requests : request[i].op = "none"
  BY IdleFields DEF Init
<1> QED
  BY <1>1, <1>2 DEF FirstAlone

LEMMA FirstAloneNext ==
  ASSUME PackageTypeOK, PackageTypeOK', Keeps, FirstAlone, [Next]_vars
  PROVE  FirstAlone'
<1>1. 1 \in Requests
  BY PackageStoreAssumption DEF Requests
<1>2. ASSUME \A j \in Requests : request'[j].op = request[j].op, Running(1)' => Running(1)
      PROVE  FirstAlone'
  BY <1>1, <1>2 DEF FirstAlone
<1>3. ASSUME NEW i \in Requests, MayBegin(i), NEW op \in Operations, NEW v \in Versions,
             NEW program \in Programs(name, op), Begin(i, op, program, v)
      PROVE  FirstAlone'
  <2>1. Others(i) /\ request'[i].op = op /\ request[i].op = "none"
    BY <1>3, BeginGoes DEF Started
  <2>2. CASE i = 1
    <3>1. op = "publish"
      BY <1>3, <2>2 DEF Begin
    <3>2. ASSUME NEW j \in Requests \ {1} PROVE request'[j].op = "none"
      <4>1. request'[j] = request[j]
        BY <2>1, <2>2 DEF Others
      <4>2. request[j].op = "none"
        BY <2>1, <2>2, <3>2 DEF FirstAlone
      <4> QED
        BY <4>1, <4>2
    <3> QED
      BY <2>1, <2>2, <3>1, <3>2 DEF FirstAlone
  <2>3. CASE i # 1
    <3>1. request'[1] = request[1]
      BY <1>1, <2>1, <2>3 DEF Others
    <3>2. ~Running(1)
      <4>1. CASE Quiet
        BY <1>1, <4>1 DEF Quiet
      <4>2. CASE ~Quiet
        <5>1. shared /\ i > 2
          BY <1>3, <4>2 DEF MayBegin
        <5>2. 2 \in 1..(i - 1) /\ 2 \in Requests
          BY <5>1, PackageStoreAssumption DEF Requests
        <5>3. request[2].op # "none"
          BY <1>3, <5>2 DEF MayBegin
        <5> QED
          BY <5>2, <5>3 DEF FirstAlone
      <4> QED
        BY <4>1, <4>2
    <3>3. request[1].op # "none"
      <4>1. 1 \in 1..(i - 1)
        BY <2>3, RequestsNat
      <4> QED
        BY <1>3, <4>1 DEF MayBegin
    <3> QED
      BY <3>1, <3>2, <3>3 DEF FirstAlone, Running
  <2> QED
    BY <2>2, <2>3
<1>4. ASSUME NEW i \in Requests, AnyStep(i)
      PROVE  FirstAlone'
  <2>1. Running(i) /\ Others(i)
    BY <1>4, StepMoves
  <2>2. Running(1)' => Running(1)
    BY <1>1, <2>1, StillRuns
  <2>3. request[i].op # "none"
    BY <2>1, RunningFacts
  <2>4. \A j \in Requests : request'[j].op = request[j].op
    BY <2>1, <2>3 DEF Others, Keeps
  <2> QED
    BY <1>2, <2>2, <2>4
<1>5. CASE Crash
  <2>1. \A j \in Requests : request'[j].op = request[j].op
    BY <1>5, CrashGoes
  <2>2. ~Running(1) => ~Running(1)'
    BY <1>1, <1>5, CrashGoes DEF Running
  <2> QED
    BY <1>2, <2>1, <2>2
<1>6. CASE Reload \/ Done \/ UNCHANGED vars
  <2>1. request' = request
    BY <1>6 DEF Reload, Done, vars
  <2> QED
    BY <1>2, <2>1 DEF Running
<1> QED
  BY <1>3, <1>4, <1>5, <1>6, NextCases, Zenon

\* A step that leaves the tree alone, and of every request its state or nothing
\* that the invariant is about.
LEMMA MarkPlain ==
  ASSUME PackageTypeOK, Keeps, MarkFormat, MarkInv, tree' = tree, shared' = shared,
         \A j \in Requests :
           \/ request'[j] = request[j]
           \/ /\ request'[j].end # "ok"
              /\ \A s : /\ ~(InRegion(j)' /\ Loaded(Program(j)', request'[j].pc, s))
                        /\ ~(Running(j)' /\ HasSet(request'[j].op, Program(j)', request'[j].pc, s)),
         NEW i \in Requests, Lone(i)', NEW s \in MarkSlots(name, request'[i].op), DidSet(i, s)'
  PROVE  Bearing(i, s)'
<1>1. request'[i] = request[i]
  BY DEF DidSet
<1>2. request[i].op # "none" /\ DidSet(i, s)
  BY <1>1 DEF Lone, Marking, DidSet, Running, Program
<1>3. Lone(i)
  BY <1>2, LoneBefore
<1>4. Bearing(i, s)
  BY <1>1, <1>2, <1>3 DEF MarkInv
<1>5. Bears(tree'[s], request'[i].op, Version(i)')
  BY <1>1, <1>4 DEF Bearing, Bears, Version
<1>6. ASSUME NEW j \in Requests \ {i}, InRegion(j)', Loaded(Program(j)', request'[j].pc, s)
      PROVE  Bears(request'[j].kept, request'[i].op, Version(i)')
  <2>1. request'[j] = request[j]
    BY <1>6
  <2>2. InRegion(j) /\ Loaded(Program(j), request[j].pc, s)
    BY <1>6, <2>1 DEF InRegion, Running, Program
  <2> QED
    BY <1>1, <1>4, <2>1, <2>2 DEF Bearing, Bears, Version
<1> QED
  BY <1>5, <1>6 DEF Bearing

LEMMA MarkInit == Init => MarkInv
<1> SUFFICES ASSUME Init PROVE MarkInv
  OBVIOUS
<1>1. \A i \in Requests : request[i].op = "none"
  BY IdleFields DEF Init
<1> QED
  BY <1>1 DEF MarkInv, Lone, Marking

LEMMA MarkNext ==
  ASSUME PackageTypeOK, PackageTypeOK', Keeps, AloneInv, FirstAlone, MarkInv, [Next]_vars
  PROVE  MarkInv'
<1> DEFINE Fine ==
      \A i \in Requests : Lone(i)' =>
        \A s \in MarkSlots(name, request'[i].op) : DidSet(i, s)' => Bearing(i, s)'
<1>1. object \in Nat /\ object # 0 /\ name' = name
  BY PackageStoreAssumption DEF PackageTypeOK, Keeps
<1>2. ASSUME object <= object', object' \in Nat, MarkFormat => Fine PROVE MarkInv'
  <2>1. ASSUME MarkFormat' PROVE MarkFormat
    BY <1>1, <1>2, <2>1, LapsesGrow DEF MarkFormat, OneMutex
  <2> QED
    BY <1>1, <1>2, <2>1 DEF MarkInv
<1>3. ASSUME NEW i \in Requests, MayBegin(i), NEW op \in Operations, NEW v \in Versions,
             NEW program \in Programs(name, op), Begin(i, op, program, v)
      PROVE  MarkInv'
  <2>1. /\ UNCHANGED <<name, immutable, shared, tree, object, faults>>
        /\ Others(i) /\ Started(name, request'[i], op, program, v, object)
    BY <1>3, BeginGoes
  <2>2. /\ request'[i].end # "ok"
        /\ \A s : /\ ~Loaded(Program(i)', request'[i].pc, s)
                  /\ ~HasSet(request'[i].op, Program(i)', request'[i].pc, s)
    <3>1. \A m \in 1..(request'[i].pc - 1) : request'[i].program[m].do = "check"
      BY <2>1 DEF Started
    <3> QED
      BY <2>1, <3>1 DEF Started, Loaded, HasSet, Sets, Program
  <2>3. ASSUME MarkFormat PROVE Fine
    BY <2>1, <2>2, <2>3, MarkPlain DEF Others
  <2> QED
    BY <1>1, <1>2, <2>1, <2>3
<1>4. ASSUME NEW i \in Requests, AnyStep(i)
      PROVE  MarkInv'
  <2>1. object' = object
    BY <1>4, StepMoves
  <2>2. ASSUME MarkFormat' PROVE MarkFormat /\ StepOf(i)
    <3>1. torn' = {} /\ misread' = {}
      BY <2>2 DEF MarkFormat
    <3> QED
      BY <1>1, <1>4, <2>1, <2>2, <3>1, LapsesGrow DEF MarkFormat, OneMutex
  <2>3. ASSUME MarkFormat' PROVE Fine
    BY <2>2, <2>3, MarkAdvance
  <2> QED
    BY <1>1, <2>3 DEF MarkInv
<1>5. CASE Crash
  <2>1. UNCHANGED <<name, immutable, shared, object>> /\ (tree' = tree \/ torn' # {})
    BY <1>5, CrashGoes, LapsesGrow
  <2>2. ASSUME NEW j \in Requests
        PROVE  request'[j] = request[j] \/ (~Running(j)' /\ request'[j].end # "ok")
    <3>1. Running(j) => request'[j].pc = 0 /\ request'[j].end = "failed"
      BY <1>5, CrashGoes
    <3>2. ~Running(j) => request'[j] = request[j]
      BY <1>5, CrashGoes
    <3> QED
      BY <3>1, <3>2 DEF Running
  <2>3. ASSUME MarkFormat' PROVE Fine
    <3>1. \A j \in Requests : ~Running(j)' => ~InRegion(j)'
      BY DEF InRegion
    <3>2. MarkFormat /\ tree' = tree
      BY <1>1, <2>1, <2>3, LapsesGrow DEF MarkFormat, OneMutex
    <3> QED
      BY <2>1, <2>2, <3>1, <3>2, MarkPlain
  <2> QED
    BY <1>1, <2>3 DEF MarkInv
<1>6. CASE Reload \/ Done \/ UNCHANGED vars
  <2>1. /\ tree' = tree /\ shared' = shared /\ request' = request
        /\ object' = object \/ object' = object + 1
    BY <1>6 DEF Reload, Done, vars
  <2>2. object <= object' /\ object' \in Nat
    BY <1>1, <2>1
  <2>3. ASSUME MarkFormat PROVE Fine
    BY <2>1, <2>3, MarkPlain
  <2> QED
    BY <1>2, <2>2, <2>3
<1> QED
  BY <1>3, <1>4, <1>5, <1>6, NextCases, Zenon

\* An acknowledged yank of a version, and an acknowledged lock of a file (gitlfs),
\* hold until a request of the same version undoes them: no request that overlaps
\* writes an index back that it read before the mark was set, in whatever order
\* requests, faults and crashes come, unless a document was cut off or read in part;
\* in every format but pypi, whose listing is made again from files beside it.
THEOREM MarksKeptAlways == Spec => [](name \notin Healed => MarksKept)
<1> DEFINE Inv == PackageTypeOK /\ AloneInv /\ FirstAlone /\ MarkInv
<1>1. Init => Inv
  BY TypeInit, AloneInit, FirstAloneInit, MarkInit
<1>2. Inv /\ [Next]_vars => Inv'
  BY TypeNext, AloneNext, FirstAloneNext, MarkNext
<1>3. Inv => (name \notin Healed => MarksKept)
  <2> SUFFICES ASSUME Inv, name \notin Healed, OneMutex, torn = {}, misread = {},
                      NEW i \in Requests, Acked(i, {"yank", "hold"}),
                      \A j \in Begun \ {i} : Version(j) = Version(i) => j = 1
               PROVE  /\ request[i].op = "yank" =>
                           \A s \in Listings : Present(s, Version(i)) => tree[s][Version(i)].yanked
                      /\ request[i].op = "hold" => Present("locks", Version(i))
    BY DEF MarksKept
  <2>1. MarkFormat /\ Lone(i)
    BY DEF MarkFormat, Lone, Acked, Marking
  <2>2. \A s \in MarkSlots(name, request[i].op) : Bears(tree[s], request[i].op, Version(i))
    BY <2>1 DEF MarkInv, Bearing, DidSet, Acked
  <2> QED
    BY <2>2 DEF MarkSlots, Bears, Present, Listings
<1> QED
  BY <1>1, <1>2, <1>3, PTL DEF Spec

-----------------------------------------------------------------------------
(***************************************************************************)
(* Checksums. As long as nothing fails, every document agrees with the     *)
(* file, but for the version of the one request that is writing both; what *)
(* that request has written is its own, and what any other one has read    *)
(* inside the mutex agrees with the files.                                 *)
(***************************************************************************)
Agree(a, b) == a # Absent /\ b # Absent => a.by = b.by
Mine(i, entry) == entry # Absent => entry.by = i
PairedFormat == faults = 0 /\ name \in WrittenTogether /\ OneMutex
Writing(i) == InRegion(i) /\ Began(name, Program(i), request[i].pc)
PairsAgree ==
  \A s \in Paired(name), u \in Versions :
    Agree(tree[s][u], tree[File][u]) \/ \E i \in Requests : Writing(i) /\ Version(i) = u
StampedMine(i) ==
  InRegion(i) =>
    \A s \in Joined(name) :
      Stamped(name, Program(i), request[i].pc, s) => Mine(i, tree[s][Version(i)])
RereadMine(i) ==
  InRegion(i) /\ Rereads(name, Program(i), request[i].pc) => Mine(i, request[i].kept[Version(i)])
ReadAgrees(i) ==
  InRegion(i) =>
    \A t \in Paired(name) : Loaded(Program(i), request[i].pc, t) =>
      \A u \in Versions :
        \/ Agree(request[i].kept[u], tree[File][u])
        \/ u = Version(i) /\ Writing(i)
PairedInv ==
  /\ faults \in Nat /\ (faults = 0 => torn = {})
  /\ PairedFormat =>
       PairsAgree /\ \A i \in Requests : StampedMine(i) /\ RereadMine(i) /\ ReadAgrees(i)

LEMMA PairedRules ==
  ASSUME PackageTypeOK, PairedFormat, NEW i \in Requests, Running(i)
  PROVE  LET p == Program(i)
             k == request[i].pc
         IN /\ At(i).do \in Changes /\ At(i).at \in Joined(name) => JoinedChange(name, p, k)
            /\ At(i).do = "scan" => At(i).by \notin Joined(name)
            /\ Began(name, p, k) =>
                 /\ At(i).do # "lock"
                 /\ At(i).do = "tree" => At(i).try
                 /\ At(i).do \in Asks \cup {"unlock"} => \A s \in Joined(name) : Stamped(name, p, k, s)
            /\ Opens(name, p) => \A s \in Joined(name) : Stamped(name, p, Len(p) + 1, s)
<1> DEFINE p == Program(i)
           k == request[i].pc
<1>1. /\ name \in Names /\ request[i].op \in Operations /\ p \in Programs(name, request[i].op)
      /\ k \in DOMAIN p /\ At(i) = p[k]
  BY RunningFacts
<1>2. WritesBoth(name, p)
  BY <1>1, Following, Zenon DEF Follows, PairedFormat
<1>3. /\ p[k].do \in Changes /\ p[k].at \in Joined(name) => JoinedChange(name, p, k)
      /\ p[k].do = "scan" => p[k].by \notin Joined(name)
  BY <1>1, <1>2, Zenon DEF WritesBoth
<1>4. ASSUME Began(name, p, k)
      PROVE  /\ p[k].do # "lock"
             /\ p[k].do = "tree" => p[k].try
             /\ p[k].do \in Refuses \cup {"unless", "known", "last", "unlock"} =>
                  \A s \in Joined(name) : Stamped(name, p, k, s)
  BY <1>1, <1>2, <1>4, Zenon DEF WritesBoth
<1>5. Opens(name, p) => \A s \in Joined(name) : Stamped(name, p, Len(p) + 1, s)
  BY <1>2, Zenon DEF WritesBoth
<1>6. Began(name, p, k) /\ p[k].do \in Asks \cup {"unlock"} =>
        \A s \in Joined(name) : Stamped(name, p, k, s)
  <2>1. Asks \subseteq Refuses \cup {"unless", "known", "last"}
    BY DEF Asks, Refuses
  <2> QED
    BY <1>4, <2>1
<1> QED
  BY <1>1, <1>3, <1>4, <1>5, <1>6

LEMMA JoinedSlots ==
  ASSUME PackageTypeOK, PairedFormat
  PROVE  /\ Joined(name) \subseteq Slots[name] /\ File \in Joined(name) /\ File \notin Paired(name)
         /\ Paired(name) \subseteq Joined(name) /\ Listings \subseteq Joined(name)
<1>1. name \in Names
  BY DEF PackageTypeOK
<1>2. Formats[name].file \in Slots[name] /\ Paired(name) \subseteq Slots[name]
  BY <1>1, Following, Zenon DEF Follows, PairedFormat
<1> QED
  BY <1>2 DEF Joined, Paired, File, Listings

\* What is so at a later step, with nothing but checks in between.
LEMMA BehindPaired ==
  ASSUME NEW n, NEW p, NEW k \in Nat, k # 0, NEW l \in Nat, k < l,
         \A m \in (k + 1)..(l - 1) : p[m].do = "check"
  PROVE  /\ \A s : Stamped(n, p, l, s) => Stamped(n, p, k, s) \/ Stamps(n, p, k, s)
         /\ Began(n, p, l) =>
              Began(n, p, k) \/ (Opens(n, p) /\ p[k].do \in Changes /\ p[k].at \in Joined(n))
         /\ Began(n, p, k) \/ (Opens(n, p) /\ p[k].do \in Changes /\ p[k].at \in Joined(n)) =>
              Began(n, p, l)
         /\ Rereads(n, p, l) =>
              \/ Rereads(n, p, k) /\ p[k].do \notin {"load", "fold", "scan", "lock", "unlock"}
              \/ /\ p[k].do = "load" /\ p[k].at \in Paired(n) /\ Stamped(n, p, k, p[k].at)
<1>1. ASSUME NEW m \in 1..(l - 1) PROVE m \in 1..(k - 1) \/ m = k \/ p[m].do = "check"
  OBVIOUS
<1>2. "check" \notin Changes
  BY DEF Changes
<1>3. ASSUME NEW s, Stamped(n, p, l, s) PROVE Stamped(n, p, k, s) \/ Stamps(n, p, k, s)
  <2>1. PICK m \in 1..(l - 1) : Stamps(n, p, m, s)
    BY <1>3 DEF Stamped
  <2>2. p[m].do # "check"
    BY <2>1 DEF Stamps, Enters
  <2> QED
    BY <1>1, <2>1, <2>2 DEF Stamped
<1>4. ASSUME Began(n, p, l)
      PROVE  Began(n, p, k) \/ (Opens(n, p) /\ p[k].do \in Changes /\ p[k].at \in Joined(n))
  <2>1. PICK m \in 1..(l - 1) : p[m].do \in Changes /\ p[m].at \in Joined(n)
    BY <1>4 DEF Began
  <2> QED
    BY <1>1, <1>2, <1>4, <2>1 DEF Began
<1>5. ASSUME Began(n, p, k) \/ (Opens(n, p) /\ p[k].do \in Changes /\ p[k].at \in Joined(n))
      PROVE  Began(n, p, l)
  <2>1. k \in 1..(l - 1) /\ \A m \in 1..(k - 1) : m \in 1..(l - 1)
    OBVIOUS
  <2> QED
    BY <1>5, <2>1 DEF Began
<1>6. ASSUME Rereads(n, p, l)
      PROVE  \/ Rereads(n, p, k) /\ p[k].do \notin {"load", "fold", "scan", "lock", "unlock"}
             \/ p[k].do = "load" /\ p[k].at \in Paired(n) /\ Stamped(n, p, k, p[k].at)
  <2>1. Opens(n, p)
    BY <1>6 DEF Rereads
  <2>2. PICK m \in 1..(l - 1) :
          /\ p[m].do = "load" /\ p[m].at \in Paired(n)
          /\ \E r \in 1..(m - 1) : Enters(p[r], p[m].at)
          /\ \A q \in (m + 1)..(l - 1) : p[q].do \notin {"load", "fold", "scan", "lock", "unlock"}
    BY <1>6 DEF Rereads
  <2>3. CASE m = k
    BY <2>1, <2>2, <2>3 DEF Stamped, Stamps
  <2>4. CASE m \in 1..(k - 1)
    <3>1. k \in (m + 1)..(l - 1) /\ \A q \in (m + 1)..(k - 1) : q \in (m + 1)..(l - 1)
      BY <2>4
    <3> QED
      BY <2>1, <2>2, <2>4, <3>1 DEF Rereads
  <2> QED
    BY <1>1, <2>2, <2>3, <2>4
<1> QED
  BY <1>3, <1>4, <1>5, <1>6

LEMMA WrittenNewest ==
  ASSUME NEW i \in Requests, At(i).do = "newest"
  PROVE  \A u \in Versions : Written(i)[u] \in {Absent, request[i].kept[u]}
<1>1. Written(i) =
        [u \in Versions |-> IF Newer(request[i].kept, u) THEN Absent ELSE request[i].kept[u]]
  BY DEF Written
<1> QED
  BY <1>1

LEMMA StampGives ==
  ASSUME PackageTypeOK, NEW i \in Requests, Change(i), InRegion(i), RereadMine(i), NEW s,
         Stamps(name, Program(i), request[i].pc, s)
  PROVE  Mine(i, tree'[s][Version(i)])
<1> DEFINE v == Version(i)
           kept == request[i].kept
           slot == tree[s]
<1>1. /\ Running(i) /\ At(i).do \in Changes /\ Takes(i, Changes)
      /\ tree' = [tree EXCEPT ![At(i).at] = Written(i)]
  BY ChangeGoes
<1>2. At(i) = Program(i)[request[i].pc] /\ v \in Versions /\ kept \in [Versions -> EntryOf]
  BY <1>1, RunningFacts DEF Docs
<1>3. At(i).at = s /\ s \in Slots[name]
  BY <1>1, <1>2, WrittenFacts DEF Stamps, Enters
<1>4. tree'[s] = Written(i) /\ slot \in [Versions -> EntryOf]
  BY <1>1, <1>3 DEF PackageTypeOK, Docs
<1>5. Entry(i).by = i
  BY EntryFacts
<1>6. CASE At(i).do \in {"write", "put"}
  <2>1. Written(i) = [slot EXCEPT ![v] = Entry(i)] \/ Written(i) = [kept EXCEPT ![v] = Entry(i)]
    BY <1>3, <1>6, WrittenExactly
  <2> HIDE DEF slot, kept
  <2>2. Written(i)[v] = Entry(i)
    BY <1>2, <1>4, <2>1
  <2> QED
    BY <1>4, <1>5, <2>2 DEF Mine
<1>7. CASE At(i).do \in {"copy", "newest"} /\ Rereads(name, Program(i), request[i].pc)
  <2>1. Mine(i, kept[v])
    BY <1>7 DEF RereadMine
  <2>2. Written(i)[v] \in {Absent, kept[v]}
    BY <1>2, <1>7, WrittenExactly, WrittenNewest
  <2> QED
    BY <1>4, <2>1, <2>2 DEF Mine
<1> QED
  BY <1>2, <1>6, <1>7 DEF Stamps, Enters

\* What a step may make of a version in a document or of its file.
Comes(i, s, u) ==
  /\ InRegion(i) /\ s # File
  /\ \E t \in Paired(name) : Loaded(Program(i), request[i].pc, t)
  /\ u # Version(i) \/ ~Opens(name, Program(i))
  /\ tree'[s][u] # Absent => request[i].kept[u] # Absent /\ tree'[s][u].by = request[i].kept[u].by
LEMMA PairedTouch ==
  ASSUME PackageTypeOK, PairedFormat, NEW i \in Requests, Advance(i), NEW s \in Joined(name),
         NEW u \in Versions
  PROVE  \/ tree'[s][u] \in {Absent, tree[s][u]}
         \/ /\ u = Version(i) /\ Change(i) /\ InRegion(i)
            /\ Stamps(name, Program(i), request[i].pc, s)
         \/ Comes(i, s, u)
<1> DEFINE v == Version(i)
           kept == request[i].kept
           slot == tree[s]
<1>1. s \in Slots[name] /\ DOMAIN tree = Slots[name] /\ slot \in [Versions -> EntryOf]
  BY JoinedSlots DEF PackageTypeOK, Docs
<1>2. ASSUME NEW t, NEW doc, tree' = [tree EXCEPT ![t] = doc], t # s PROVE tree'[s][u] = tree[s][u]
  BY <1>1, <1>2
<1>3. CASE Change(i)
  <2>1. /\ Running(i) /\ At(i).do \in Changes /\ Takes(i, Changes) /\ request[i].end = "idle"
        /\ tree' = [tree EXCEPT ![At(i).at] = Written(i)]
    BY <1>3, ChangeGoes
  <2>2. At(i) = Program(i)[request[i].pc] /\ v \in Versions /\ kept \in [Versions -> EntryOf]
    BY <2>1, RunningFacts DEF Docs
  <2>3. CASE At(i).at # s
    BY <1>2, <2>1, <2>3
  <2>4. CASE At(i).at = s
    <3>1. JoinedChange(name, Program(i), request[i].pc)
      BY <2>1, <2>4, PairedRules
    <3>2. tree'[s] = Written(i)
      BY <1>1, <2>1, <2>4
    <3>3. CASE At(i).do = "erase"
      <4>1. Written(i) = [slot EXCEPT ![v] = Absent]
        BY <2>4, <3>3, WrittenExactly
      <4> HIDE DEF slot
      <4>2. Written(i)[u] \in {Absent, slot[u]}
        BY <1>1, <2>2, <4>1
      <4> QED
        BY <3>2, <4>2 DEF slot
    <3>4. CASE Locked(Program(i), request[i].pc) /\ At(i).do = "write"
               /\ Stamps(name, Program(i), request[i].pc, s)
      <4>1. InRegion(i)
        BY <2>1, <3>4 DEF InRegion
      <4>2. Written(i) = [slot EXCEPT ![v] = Entry(i)]
        BY <2>4, <3>4, WrittenExactly
      <4> HIDE DEF slot
      <4>3. u # v => Written(i)[u] = slot[u]
        BY <1>1, <2>2, <4>2
      <4> QED
        BY <1>3, <3>2, <3>4, <4>1, <4>3 DEF slot
    <3>5. CASE /\ Locked(Program(i), request[i].pc) /\ s # File
               /\ \E t \in Paired(name) : Loaded(Program(i), request[i].pc, t)
               /\ \/ At(i).do \in {"put", "copy", "newest"}
                     /\ Stamps(name, Program(i), request[i].pc, s)
                  \/ At(i).do \in {"cut", "yank", "unyank", "copy", "newest"}
                     /\ ~Opens(name, Program(i))
      <4>1. InRegion(i)
        BY <2>1, <3>5 DEF InRegion
      <4>2. CASE u = v /\ Stamps(name, Program(i), request[i].pc, s)
        BY <1>3, <4>1, <4>2
      <4>3. CASE u # v \/ ~Opens(name, Program(i))
        <5>1. At(i).do = "put" => u # v
          BY <3>5, <4>3 DEF Stamps
        <5>2. Entry(i) \in EntryOf
          BY EntryFacts
        <5>3. \A e : e \in EntryOf =>
                /\ Marked(e, TRUE).by = e.by /\ Marked(e, FALSE).by = e.by
                /\ e = Absent => Marked(e, TRUE) = Absent /\ Marked(e, FALSE) = Absent
          BY MarkedFacts
        <5>4. At(i).do = "newest" => Written(i)[u] \in {Absent, kept[u]}
          BY WrittenNewest
        <5>5. /\ At(i).do = "put" => Written(i) = [kept EXCEPT ![v] = Entry(i)]
              /\ At(i).do = "cut" => Written(i) = [kept EXCEPT ![v] = Absent]
              /\ At(i).do = "yank" => Written(i) = [kept EXCEPT ![v] = Marked(kept[v], TRUE)]
              /\ At(i).do = "unyank" => Written(i) = [kept EXCEPT ![v] = Marked(kept[v], FALSE)]
              /\ At(i).do = "copy" => Written(i) = kept
          BY WrittenExactly
        <5> HIDE DEF kept
        <5>6. Written(i)[u] # Absent => kept[u] # Absent /\ Written(i)[u].by = kept[u].by
          <6>1. kept[v] \in EntryOf /\ kept[u] \in EntryOf
            BY <2>2
          <6>2. CASE At(i).do = "put"
            BY <2>2, <5>1, <5>5, <6>2
          <6>3. CASE At(i).do = "cut"
            BY <2>2, <5>5, <6>3
          <6>4. CASE At(i).do = "yank"
            <7>1. Written(i)[u] = kept[u] \/ (u = v /\ Written(i)[u] = Marked(kept[u], TRUE))
              BY <2>2, <5>5, <6>4
            <7>2. Marked(kept[u], TRUE) # Absent =>
                    kept[u] # Absent /\ Marked(kept[u], TRUE).by = kept[u].by
              BY <5>3, <6>1
            <7> QED
              BY <7>1, <7>2
          <6>5. CASE At(i).do = "unyank"
            <7>1. Written(i)[u] = kept[u] \/ (u = v /\ Written(i)[u] = Marked(kept[u], FALSE))
              BY <2>2, <5>5, <6>5
            <7>2. Marked(kept[u], FALSE) # Absent =>
                    kept[u] # Absent /\ Marked(kept[u], FALSE).by = kept[u].by
              BY <5>3, <6>1
            <7> QED
              BY <7>1, <7>2
          <6>6. CASE At(i).do \in {"copy", "newest"}
            BY <5>4, <5>5, <6>6
          <6> QED
            BY <3>5, <6>2, <6>3, <6>4, <6>5, <6>6
        <5> QED
          BY <3>2, <3>5, <4>1, <4>3, <5>6 DEF Comes, kept
      <4> QED
        BY <3>5, <4>2, <4>3
    <3> QED
      BY <2>2, <2>4, <3>1, <3>3, <3>4, <3>5 DEF JoinedChange, File
  <2> QED
    BY <2>3, <2>4
<1>4. CASE Repair(i)
  <2>1. Running(i) /\ At(i).do = "scan" /\ \E metas : tree' = [tree EXCEPT ![At(i).by] = metas]
    BY <1>4, RepairGoes
  <2>2. At(i).by # s
    BY <2>1, PairedRules
  <2> QED
    BY <1>2, <2>1, <2>2
<1>5. CASE DeleteNext(i)
  <2>1. PICK t \in Slots[name], doc \in Docs :
          tree' = [tree EXCEPT ![t] = doc] /\ \A w \in Versions : doc[w] \in {Absent, tree[t][w]}
    BY <1>5, DeleteNextGoes
  <2>2. t = s => tree'[s][u] \in {Absent, tree[s][u]}
    BY <1>1, <2>1
  <2> QED
    BY <1>2, <2>1, <2>2
<1>6. CASE Ask(i) \/ Gather(i) \/ DeleteEnd(i) \/ Acquire(i) \/ Release(i)
  <2>1. tree' = tree
    BY <1>6, AskGoes, GatherGoes, DeleteEndGoes, AcquireGoes, ReleaseGoes
  <2> QED
    BY <2>1
<1> QED
  BY <1>3, <1>4, <1>5, <1>6 DEF Advance

LEMMA LockedOn ==
  ASSUME NEW p, NEW k \in Nat, k # 0, NEW l \in Nat, k < l,
         \A m \in (k + 1)..(l - 1) : p[m].do = "check", Locked(p, k), p[k].do # "unlock"
  PROVE  Locked(p, l)
<1>1. PICK m \in 1..(k - 1) : p[m].do = "lock" /\ \A q \in (m + 1)..(k - 1) : p[q].do # "unlock"
  BY DEF Locked
<1>2. ASSUME NEW q \in (m + 1)..(l - 1) PROVE p[q].do # "unlock"
  <2>1. q \in (m + 1)..(k - 1) \/ q = k \/ q \in (k + 1)..(l - 1)
    OBVIOUS
  <2> QED
    BY <1>1, <2>1
<1>3. m \in 1..(l - 1)
  OBVIOUS
<1> QED
  BY <1>1, <1>2, <1>3 DEF Locked

\* How a request goes on from a step that does not fail.
LEMMA Onward ==
  ASSUME PackageTypeOK, NEW i \in Requests, Advance(i), request[i].end = "idle"
  PROVE  \/ Stays(request[i], request'[i])
         \/ \E kept \in Docs : Goes(i, "idle", kept)
         \/ At(i).do \in Asks \/ (At(i).do = "tree" /\ ~At(i).try)
<1>1. Running(i) /\ request[i].kept \in Docs
  BY Moves, RunningFacts DEF StepOf
<1>2. CASE Ask(i)
  BY <1>2, AskGoes
<1>3. CASE Gather(i) \/ Change(i) \/ Repair(i) \/ Acquire(i)
  BY <1>1, <1>3, GatherGoes, ChangeGoes, RepairGoes, AcquireGoes
<1>4. CASE Release(i)
  <2>1. Goes(i, request[i].end, request[i].kept)
    BY <1>4, ReleaseGoes
  <2> QED
    BY <1>1, <2>1
<1>5. CASE DeleteNext(i)
  <2>1. request' = request
    BY <1>5, DeleteNextGoes
  <2> QED
    BY <2>1 DEF Stays
<1>6. CASE DeleteEnd(i)
  <2>1. PICK end \in {"idle", "failed"} :
          Goes(i, end, request[i].kept) /\ (end = "failed" => ~At(i).try)
    BY <1>6, DeleteEndGoes
  <2>2. At(i).do = "tree"
    BY <1>6, DeleteEndGoes
  <2> QED
    BY <1>1, <2>1, <2>2
<1> QED
  BY <1>2, <1>3, <1>4, <1>5, <1>6 DEF Advance

\* A request that leaves its region has written all of them.
LEMMA WritingLeaves ==
  ASSUME PackageTypeOK, Keeps, PairedFormat, shared' = shared, NEW i \in Requests, Advance(i),
         InRegion(i), ~InRegion(i)', NEW s \in Joined(name),
         \/ Began(name, Program(i), request[i].pc)
         \/ Opens(name, Program(i)) /\ At(i).do \in Changes /\ At(i).at \in Joined(name)
  PROVE  \/ Stamped(name, Program(i), request[i].pc, s)
         \/ Stamps(name, Program(i), request[i].pc, s)
<1> DEFINE p == Program(i)
           k == request[i].pc
<1>1. /\ Running(i) /\ request[i].end = "idle" /\ (shared => Locked(p, k))
  BY DEF InRegion
<1>2. k \in Nat /\ k # 0 /\ Len(p) \in Nat /\ k \in 1..Len(p) /\ At(i) = p[k]
  BY <1>1, RunningFacts
<1>10. CASE At(i).do \in Asks
  <2>1. At(i).do \notin Changes
    BY <1>10 DEF Changes, Asks
  <2> QED
    BY <1>1, <1>10, <2>1, PairedRules
<1> SUFFICES ASSUME At(i).do \notin Asks
             PROVE  \/ Stamped(name, p, k, s)
                    \/ Stamps(name, p, k, s)
  BY <1>10
<1>3. ~(At(i).do \in Asks \/ (At(i).do = "tree" /\ ~At(i).try))
  <2>1. At(i).do \in Changes => At(i).do # "tree"
    BY DEF Changes
  <2> QED
    BY <1>1, <2>1, PairedRules
<1>4. ~Stays(request[i], request'[i])
  BY <1>1 DEF Stays, InRegion, Running, Program
<1>5. PICK kept \in Docs : Goes(i, "idle", kept)
  BY <1>1, <1>3, <1>4, Onward
<1>6. PICK t : t = request'[i]
  OBVIOUS
<1>7. /\ t.program = p
      /\ \/ /\ t.pc \in (k + 1)..Len(p) /\ t.pc # 0 /\ t.end = "idle"
            /\ \A m \in (k + 1)..(t.pc - 1) : p[m].do = "check"
         \/ t.pc = 0 /\ \A m \in (k + 1)..Len(p) : p[m].do = "check"
  BY <1>5, <1>6 DEF Goes, After, Program
<1>8. CASE t.pc = 0
  <2>1. PICK l \in Nat : l = Len(p) + 1 /\ k < l /\ l - 1 = Len(p)
    BY <1>2
  <2>2. Stamped(name, p, l, s)
    BY <1>1, <2>1, PairedRules DEF Began
  <2>3. \A m \in (k + 1)..(l - 1) : p[m].do = "check"
    BY <1>2, <1>7, <1>8, <2>1
  <2>4. k \in Nat /\ k # 0 /\ k < l
    BY <1>2, <2>1
  <2> HIDE DEF p, k
  <2> QED
    BY <2>2, <2>3, <2>4, BehindPaired DEF p, k
<1>9. CASE t.pc # 0
  <2>1. PICK l \in Nat : l = t.pc /\ k < l
    BY <1>2, <1>7, <1>9
  <2>2. shared /\ ~Locked(p, l)
    BY <1>6, <1>7, <1>9, <2>1 DEF InRegion, Running, Program
  <2>3. p[k].do = "unlock"
    BY <1>1, <1>2, <1>7, <1>9, <2>1, <2>2, LockedOn
  <2>4. Began(name, p, k)
    BY <1>2, <2>3 DEF Changes
  <2> QED
    BY <1>1, <1>2, <2>3, <2>4, PairedRules
<1> QED
  BY <1>8, <1>9

LEMMA MineAfter ==
  ASSUME PackageTypeOK, PairedFormat, NEW i \in Requests, Advance(i), InRegion(i),
         StampedMine(i), RereadMine(i), NEW s \in Joined(name),
         \/ Stamped(name, Program(i), request[i].pc, s)
         \/ Stamps(name, Program(i), request[i].pc, s)
  PROVE  Mine(i, tree'[s][Version(i)])
<1>1. Running(i)
  BY DEF InRegion
<1>2. At(i) = Program(i)[request[i].pc] /\ Version(i) \in Versions
  BY <1>1, RunningFacts
<1>3. CASE Stamps(name, Program(i), request[i].pc, s)
  <2>1. At(i).do \in {"write", "put", "copy", "newest"}
    BY <1>2, <1>3 DEF Stamps, Enters
  <2>2. Change(i)
    BY <2>1 DEF Advance, Ask, Gather, Repair, DeleteNext, DeleteEnd, Acquire, Release, Takes
  <2> QED
    BY <1>3, <2>2, StampGives
<1>4. CASE Stamped(name, Program(i), request[i].pc, s)
  <2>1. Mine(i, tree[s][Version(i)])
    BY <1>4 DEF StampedMine
  <2>2. Opens(name, Program(i))
    BY <1>4 DEF Stamped, Stamps
  <2>3. tree'[s][Version(i)] \in {Absent, tree[s][Version(i)]} \/ Stamps(name, Program(i), request[i].pc, s)
    BY <1>2, <2>2, PairedTouch DEF Comes
  <2> QED
    BY <1>3, <2>1, <2>3 DEF Mine
<1> QED
  BY <1>3, <1>4

LEMMA StampedBegan ==
  ASSUME NEW n, NEW p, NEW k, NEW s \in Joined(n), Stamped(n, p, k, s)
  PROVE  Began(n, p, k)
<1>1. PICK m \in 1..(k - 1) : Stamps(n, p, m, s)
  BY DEF Stamped
<1>2. Opens(n, p) /\ p[m].at = s /\ p[m].do \in Changes
  BY <1>1 DEF Stamps, Enters, Changes
<1> QED
  BY <1>2 DEF Began

\* What holds of a request in its region, after a step of its own.
LEMMA PairedOwn ==
  ASSUME PackageTypeOK, Keeps, PairedFormat, shared' = shared, NEW i \in Requests, Advance(i),
         InRegion(i)'
  PROVE  LET p == Program(i)
             k == request[i].pc
             l == request'[i].pc
         IN /\ \A s \in Joined(name) : Stamped(name, p, l, s) =>
                 InRegion(i) /\ (Stamped(name, p, k, s) \/ Stamps(name, p, k, s))
            /\ Rereads(name, p, l) =>
                 /\ InRegion(i)
                 /\ \/ Rereads(name, p, k) /\ request'[i].kept = request[i].kept
                    \/ \E t \in Paired(name) :
                         Stamped(name, p, k, t) /\ request'[i].kept = tree[t]
            /\ \A t \in Paired(name) : Loaded(p, l, t) =>
                 /\ InRegion(i)
                 /\ \/ Loaded(p, k, t) /\ request'[i].kept = request[i].kept
                    \/ request'[i].kept = tree[t] /\ tree' = tree
            /\ \/ Began(name, p, k)
               \/ Opens(name, p) /\ At(i).do \in Changes /\ At(i).at \in Joined(name)
               => Began(name, p, l)
<1> DEFINE p == Program(i)
           k == request[i].pc
           r == request[i]
<1>1. /\ Running(i) /\ Others(i)
      /\ \/ Stays(request[i], request'[i])
         \/ \E end \in EndsOf, kept \in Docs : MovesTo(i, end, kept)
  BY Moves DEF StepOf
<1>2. k \in Nat /\ k # 0 /\ Len(p) \in Nat /\ At(i) = p[k]
  BY <1>1, RunningFacts
<1>3. PICK t : t = request'[i]
  OBVIOUS
<1>4. CASE Stays(request[i], request'[i])
  <2>1. t.pc = k /\ t.kept = r.kept /\ InRegion(i)
    BY <1>3, <1>4 DEF Stays, InRegion, Running, Program
  <2>2. At(i).do \notin Changes
    <3> SUFFICES ASSUME At(i).do \in Changes PROVE FALSE
      OBVIOUS
    <3>1. Change(i)
      BY DEF Changes, Advance, Ask, Gather, Repair, DeleteNext, DeleteEnd, Acquire, Release, Takes
    <3>2. Goes(i, "idle", r.kept)
      BY <3>1, ChangeGoes
    <3>3. t.pc \in (k + 1)..Len(p) \/ t.pc = 0
      BY <1>3, <3>2 DEF Goes, After, Program
    <3> QED
      BY <1>2, <2>1, <3>3
  <2> QED
    BY <1>3, <2>1, <2>2
<1>5. CASE \E end \in EndsOf, kept \in Docs : MovesTo(i, end, kept)
  <2>1. PICK end \in EndsOf, kept \in Docs : MovesTo(i, end, kept)
    BY <1>5
  <2>2. /\ t.program = p /\ t.pc \in (k + 1)..Len(p) /\ t.kept = kept
        /\ t.pc # 0 /\ end = "idle" /\ t.end = end /\ r.end = "idle"
        /\ \A m \in (k + 1)..(t.pc - 1) : p[m].do = "check"
    BY <1>3, <2>1 DEF MovesTo, Goes, After, Program, InRegion, Running
  <2>3. PICK l \in Nat : l = t.pc /\ k < l /\ \A m \in (k + 1)..(l - 1) : p[m].do = "check"
    BY <1>2, <2>2
  <2>4. At(i).do = "lock" \/ InRegion(i)
    <3>1. Goes(i, end, kept)
      BY <2>1 DEF MovesTo
    <3> QED
      BY <1>1, <2>2, <3>1, RegionGoes
  <2>5. At(i).do = "lock" => ~Began(name, p, k)
    BY <1>1, PairedRules
  <2>6. ASSUME NEW s \in Joined(name), Stamped(name, p, l, s)
        PROVE  InRegion(i) /\ (Stamped(name, p, k, s) \/ Stamps(name, p, k, s))
    <3>1. Stamped(name, p, k, s) \/ Stamps(name, p, k, s)
      BY <1>2, <2>3, <2>6, BehindPaired
    <3>2. At(i).do # "lock"
      <4>1. Stamps(name, p, k, s) => p[k].do # "lock"
        BY DEF Stamps, Enters
      <4> QED
        BY <1>2, <2>5, <3>1, <4>1, StampedBegan
    <3> QED
      BY <2>4, <3>1, <3>2
  <2>7. ASSUME Rereads(name, p, l)
        PROVE  /\ InRegion(i)
               /\ \/ Rereads(name, p, k) /\ t.kept = r.kept
                  \/ \E q \in Paired(name) : Stamped(name, p, k, q) /\ t.kept = tree[q]
    <3>1. \/ Rereads(name, p, k) /\ p[k].do \notin {"load", "fold", "scan", "lock", "unlock"}
          \/ /\ p[k].do = "load" /\ p[k].at \in Paired(name) /\ Stamped(name, p, k, p[k].at)
      BY <1>2, <2>3, <2>7, BehindPaired
    <3>2. InRegion(i)
      BY <1>2, <2>4, <3>1
    <3> QED
      BY <1>2, <2>1, <2>2, <3>1, <3>2 DEF MovesTo
  <2>8. ASSUME NEW q \in Paired(name), Loaded(p, l, q)
        PROVE  /\ InRegion(i)
               /\ \/ Loaded(p, k, q) /\ t.kept = r.kept
                  \/ t.kept = tree[q] /\ tree' = tree
    <3>1. \/ p[k].do = "load" /\ p[k].at = q
          \/ Loaded(p, k, q) /\ p[k].do \notin {"load", "fold", "scan", "lock", "unlock"}
      BY <1>2, <2>3, <2>8, Behind
    <3>2. InRegion(i)
      BY <1>2, <2>4, <3>1
    <3>3. At(i).do = "load" => tree' = tree
      BY <1>1, LeavesTree DEF StepOf
    <3> QED
      BY <1>2, <2>1, <2>2, <3>1, <3>2, <3>3 DEF MovesTo
  <2>9. \/ Began(name, p, k)
        \/ Opens(name, p) /\ At(i).do \in Changes /\ At(i).at \in Joined(name)
        => Began(name, p, l)
    BY <1>2, <2>3, BehindPaired
  <2> QED
    BY <1>3, <2>3, <2>6, <2>7, <2>8, <2>9
<1> QED
  BY <1>1, <1>4, <1>5

LEMMA PairedAdvance ==
  ASSUME PackageTypeOK, PackageTypeOK', Keeps, AloneInv, PairedFormat, PairsAgree,
         \A i \in Requests : StampedMine(i) /\ RereadMine(i) /\ ReadAgrees(i),
         NEW j \in Requests, Advance(j)
  PROVE  PairsAgree' /\ \A i \in Requests : StampedMine(i)' /\ RereadMine(i)' /\ ReadAgrees(i)'
<1> DEFINE p == Program(j)
           k == request[j].pc
           v == Version(j)
<1>1. /\ Running(j) /\ Others(j) /\ name' = name /\ shared' = shared /\ object' = object
  BY Moves DEF StepOf
<1>2. /\ Program(j)' = p /\ Version(j)' = v /\ v \in Versions /\ At(j) = p[k]
      /\ File' = File
  <2>1. request[j].op # "none" /\ v \in Versions /\ At(j) = p[k]
    BY <1>1, RunningFacts
  <2> QED
    BY <1>1, <2>1 DEF Keeps, Program, Version, File
<1>3. ASSUME NEW i \in Requests \ {j}
      PROVE  /\ request'[i] = request[i] /\ Version(i)' = Version(i) /\ Program(i)' = Program(i)
             /\ InRegion(i)' <=> InRegion(i)
             /\ Writing(i)' <=> Writing(i)
  <2>1. request'[i] = request[i]
    BY <1>1 DEF Others
  <2>2. InRegion(i)' <=> InRegion(i)
    BY <1>1, <2>1 DEF InRegion, Running, Program
  <2> QED
    BY <1>1, <2>1, <2>2 DEF Writing, Version, Program
<1>4. ASSUME NEW s \in Joined(name), NEW u \in Versions
      PROVE  \/ tree'[s][u] \in {Absent, tree[s][u]}
             \/ /\ u = v /\ Change(j) /\ InRegion(j) /\ Stamps(name, p, k, s)
             \/ Comes(j, s, u)
  BY PairedTouch
<1>5. File \in Joined(name) /\ File \notin Paired(name) /\ Paired(name) \subseteq Joined(name)
  BY JoinedSlots
<1>6. ASSUME NEW s \in Joined(name), Stamps(name, p, k, s), Change(j)
      PROVE  Opens(name, p) /\ At(j).do \in Changes /\ At(j).at \in Joined(name)
  BY <1>2, <1>6, ChangeGoes DEF Stamps, Enters
<1>7. ASSUME NEW i \in Requests \ {j} PROVE StampedMine(i)' /\ RereadMine(i)' /\ ReadAgrees(i)'
  <2> SUFFICES ASSUME InRegion(i)' PROVE StampedMine(i)' /\ RereadMine(i)' /\ ReadAgrees(i)'
    BY DEF StampedMine, RereadMine, ReadAgrees
  <2>1. InRegion(i) /\ ~InRegion(j)
    BY <1>3, <1>7, OneInRegion DEF PairedFormat
  <2>2. \A s \in Joined(name), u \in Versions : tree'[s][u] \in {Absent, tree[s][u]}
    BY <1>4, <2>1 DEF Comes
  <2>3. StampedMine(i)'
    <3> SUFFICES ASSUME NEW s \in Joined(name), Stamped(name, Program(i), request[i].pc, s)
                 PROVE  Mine(i, tree'[s][Version(i)])
      BY <1>1, <1>3 DEF StampedMine
    <3>1. Mine(i, tree[s][Version(i)])
      BY <2>1 DEF StampedMine
    <3>2. Version(i) \in Versions
      BY <2>1, RunningFacts DEF InRegion
    <3> QED
      BY <2>2, <3>1, <3>2 DEF Mine
  <2>4. RereadMine(i)'
    BY <1>1, <1>3, <2>1 DEF RereadMine
  <2>5. ReadAgrees(i)'
    <3> SUFFICES ASSUME NEW t \in Paired(name), Loaded(Program(i), request[i].pc, t),
                        NEW u \in Versions, ~(u = Version(i) /\ Writing(i))
                 PROVE  Agree(request[i].kept[u], tree'[File][u])
      BY <1>1, <1>2, <1>3 DEF ReadAgrees
    <3>1. Agree(request[i].kept[u], tree[File][u])
      BY <2>1 DEF ReadAgrees
    <3>2. tree'[File][u] \in {Absent, tree[File][u]}
      BY <1>5, <2>2
    <3> QED
      BY <3>1, <3>2 DEF Agree
  <2> QED
    BY <2>3, <2>4, <2>5
<1>8. ASSUME InRegion(j)' PROVE StampedMine(j)' /\ RereadMine(j)' /\ ReadAgrees(j)'
  <2> DEFINE l == request'[j].pc
  <2>1. /\ \A s \in Joined(name) : Stamped(name, p, l, s) =>
                 InRegion(j) /\ (Stamped(name, p, k, s) \/ Stamps(name, p, k, s))
        /\ Rereads(name, p, l) =>
                 /\ InRegion(j)
                 /\ \/ Rereads(name, p, k) /\ request'[j].kept = request[j].kept
                    \/ \E t \in Paired(name) :
                         Stamped(name, p, k, t) /\ request'[j].kept = tree[t]
        /\ \A t \in Paired(name) : Loaded(p, l, t) =>
                 /\ InRegion(j)
                 /\ \/ Loaded(p, k, t) /\ request'[j].kept = request[j].kept
                    \/ request'[j].kept = tree[t] /\ tree' = tree
        /\ \/ Began(name, p, k)
           \/ Opens(name, p) /\ At(j).do \in Changes /\ At(j).at \in Joined(name)
           => Began(name, p, l)
    BY <1>1, <1>8, PairedOwn
  <2>2. StampedMine(j)'
    <3> SUFFICES ASSUME NEW s \in Joined(name), Stamped(name, p, l, s)
                 PROVE  Mine(j, tree'[s][v])
      BY <1>1, <1>2 DEF StampedMine
    <3> QED
      BY <2>1, MineAfter
  <2>3. RereadMine(j)'
    <3> SUFFICES ASSUME Rereads(name, p, l) PROVE Mine(j, request'[j].kept[v])
      BY <1>1, <1>2 DEF RereadMine
    <3> QED
      BY <1>5, <2>1 DEF RereadMine, StampedMine
  <2>4. ReadAgrees(j)'
    <3> SUFFICES ASSUME NEW t \in Paired(name), Loaded(p, l, t), NEW u \in Versions,
                        ~(u = v /\ Writing(j)')
                 PROVE  Agree(request'[j].kept[u], tree'[File][u])
      BY <1>1, <1>2 DEF ReadAgrees
    <3>1. InRegion(j)
      BY <2>1
    <3>2. u = v => ~Began(name, p, k) /\ \A s \in Joined(name) : ~(Stamps(name, p, k, s) /\ Change(j))
      BY <1>1, <1>2, <1>6, <1>8, <2>1 DEF Writing
    <3>3. CASE Loaded(p, k, t) /\ request'[j].kept = request[j].kept
      <4>1. Agree(request[j].kept[u], tree[File][u])
        BY <3>1, <3>2, <3>3 DEF ReadAgrees, Writing
      <4>2. tree'[File][u] \in {Absent, tree[File][u]}
        BY <1>4, <1>5, <3>2 DEF Comes
      <4> QED
        BY <3>3, <4>1, <4>2 DEF Agree
    <3>4. CASE request'[j].kept = tree[t] /\ tree' = tree
      <4>1. \A i \in Requests : Writing(i) /\ Version(i) = u => FALSE
        <5> SUFFICES ASSUME NEW i \in Requests, Writing(i), Version(i) = u PROVE FALSE
          OBVIOUS
        <5>1. i = j
          BY <3>1, OneInRegion DEF PairedFormat, Writing
        <5> QED
          BY <3>2, <5>1 DEF Writing
      <4>2. Agree(tree[t][u], tree[File][u])
        BY <4>1 DEF PairsAgree
      <4> QED
        BY <3>4, <4>2
    <3> QED
      BY <2>1, <3>3, <3>4
  <2> QED
    BY <2>2, <2>3, <2>4
<1>9. PairsAgree'
  <2> SUFFICES ASSUME NEW s \in Paired(name), NEW u \in Versions,
                      ~\E i \in Requests : Writing(i)' /\ Version(i)' = u
               PROVE  Agree(tree'[s][u], tree'[File][u])
    BY <1>1, <1>2 DEF PairsAgree
  <2>1. ASSUME u = v, InRegion(j),
               \/ Began(name, p, k)
               \/ Opens(name, p) /\ At(j).do \in Changes /\ At(j).at \in Joined(name)
        PROVE  Agree(tree'[s][u], tree'[File][u])
    <3>1. ~InRegion(j)'
      <4> SUFFICES ASSUME InRegion(j)' PROVE FALSE
        OBVIOUS
      <4>1. Began(name, p, request'[j].pc)
        BY <1>1, <2>1, PairedOwn
      <4> QED
        BY <1>1, <1>2, <2>1, <4>1 DEF Writing
    <3>2. \A q \in Joined(name) : Stamped(name, p, k, q) \/ Stamps(name, p, k, q)
      BY <1>1, <2>1, <3>1, WritingLeaves
    <3>3. Mine(j, tree'[s][v]) /\ Mine(j, tree'[File][v])
      BY <1>5, <2>1, <3>2, MineAfter
    <3> QED
      BY <2>1, <3>3 DEF Mine, Agree
  <2>2. ASSUME NEW i \in Requests, Writing(i), Version(i) = u
        PROVE  Agree(tree'[s][u], tree'[File][u])
    <3>1. i = j
      BY <1>3, <2>2
    <3> QED
      BY <2>1, <2>2, <3>1 DEF Writing
  <2>3. CASE \A i \in Requests : ~(Writing(i) /\ Version(i) = u)
    <3>1. Agree(tree[s][u], tree[File][u])
      BY <2>3 DEF PairsAgree
    <3>2. CASE u = v /\ Change(j) /\ InRegion(j)
               /\ (Stamps(name, p, k, s) \/ Stamps(name, p, k, File))
      BY <1>5, <1>6, <2>1, <3>2
    <3>3. CASE /\ tree'[s][u] \in {Absent, tree[s][u]} \/ Comes(j, s, u)
               /\ tree'[File][u] \in {Absent, tree[File][u]}
      <4>1. CASE tree'[s][u] \in {Absent, tree[s][u]}
        BY <3>1, <3>3, <4>1 DEF Agree
      <4>2. CASE Comes(j, s, u)
        <5>1. InRegion(j) /\ (u # v \/ ~Opens(name, p))
          BY <4>2 DEF Comes
        <5>2. Agree(request[j].kept[u], tree[File][u])
          BY <4>2, <5>1 DEF Comes, ReadAgrees, Writing, Began
        <5> QED
          BY <3>3, <4>2, <5>2 DEF Comes, Agree
      <4> QED
        BY <3>3, <4>1, <4>2
    <3> QED
      BY <1>4, <1>5, <3>2, <3>3 DEF Comes
  <2> QED
    BY <2>2, <2>3
<1>10. ~InRegion(j)' => StampedMine(j)' /\ RereadMine(j)' /\ ReadAgrees(j)'
  BY DEF StampedMine, RereadMine, ReadAgrees
<1> QED
  BY <1>7, <1>8, <1>9, <1>10

LEMMA PairedInit == Init => PairedInv
<1> SUFFICES ASSUME Init PROVE PairedInv
  OBVIOUS
<1>1. \A i \in Requests : request[i].pc = 0
  BY IdleFields DEF Init
<1>2. \A i \in Requests : ~InRegion(i)
  BY <1>1 DEF InRegion, Running
<1>3. faults = 0 /\ torn = {} /\ name \in Names /\ tree = [s \in Slots[name] |-> Nothing]
  BY DEF Init
<1>4. PairedFormat => PairsAgree
  <2> SUFFICES ASSUME PairedFormat, NEW s \in Paired(name), NEW u \in Versions
               PROVE  tree[s][u] = Absent
    BY DEF PairsAgree, Agree
  <2>1. s \in Slots[name]
    BY <1>3, Following, Zenon DEF Follows, PairedFormat
  <2> QED
    BY <1>3, <2>1 DEF Nothing
<1> QED
  BY <1>2, <1>3, <1>4 DEF PairedInv, StampedMine, RereadMine, ReadAgrees

\* A step that leaves the tree alone, and every request but one that is new.
LEMMA PairedPlain ==
  ASSUME PairsAgree, \A i \in Requests : StampedMine(i) /\ RereadMine(i) /\ ReadAgrees(i),
         name' = name, shared' = shared, tree' = tree,
         \A i \in Requests :
           \/ request'[i] = request[i]
           \/ /\ ~Running(i)
              /\ \A s : /\ ~Stamped(name, Program(i)', request'[i].pc, s)
                        /\ ~Loaded(Program(i)', request'[i].pc, s)
              /\ ~Rereads(name, Program(i)', request'[i].pc)
              /\ ~Began(name, Program(i)', request'[i].pc)
  PROVE  PairsAgree' /\ \A i \in Requests : StampedMine(i)' /\ RereadMine(i)' /\ ReadAgrees(i)'
<1>1. File' = File
  BY DEF File
<1>2. ASSUME NEW i \in Requests, request'[i] = request[i]
      PROVE  /\ InRegion(i)' <=> InRegion(i)
             /\ Writing(i)' <=> Writing(i)
             /\ Version(i)' = Version(i) /\ Program(i)' = Program(i)
  <2>1. InRegion(i)' <=> InRegion(i)
    BY <1>2 DEF InRegion, Running, Program
  <2> QED
    BY <1>2, <2>1 DEF Writing, Version, Program
<1>3. ASSUME NEW i \in Requests, Writing(i) PROVE Writing(i)' /\ Version(i)' = Version(i)
  <2>1. Running(i)
    BY <1>3 DEF Writing, InRegion
  <2> QED
    BY <1>2, <1>3, <2>1
<1>4. PairsAgree'
  BY <1>1, <1>3 DEF PairsAgree
<1>5. ASSUME NEW i \in Requests PROVE StampedMine(i)' /\ RereadMine(i)' /\ ReadAgrees(i)'
  <2>1. CASE request'[i] = request[i]
    <3>1. StampedMine(i)'
      BY <1>2, <2>1 DEF StampedMine
    <3>2. RereadMine(i)'
      BY <1>2, <2>1 DEF RereadMine
    <3>3. ReadAgrees(i)'
      BY <1>1, <1>2, <2>1 DEF ReadAgrees
    <3> QED
      BY <3>1, <3>2, <3>3
  <2>2. CASE /\ \A s : /\ ~Stamped(name, Program(i)', request'[i].pc, s)
                       /\ ~Loaded(Program(i)', request'[i].pc, s)
             /\ ~Rereads(name, Program(i)', request'[i].pc)
    BY <2>2 DEF StampedMine, RereadMine, ReadAgrees
  <2> QED
    BY <2>1, <2>2
<1> QED
  BY <1>4, <1>5

LEMMA PairedNext ==
  ASSUME PackageTypeOK, PackageTypeOK', Keeps, AloneInv, PairedInv, [Next]_vars
  PROVE  PairedInv'
<1> DEFINE Fine ==
      PairsAgree' /\ \A i \in Requests : StampedMine(i)' /\ RereadMine(i)' /\ ReadAgrees(i)'
<1>1. faults \in Nat /\ object \in Nat /\ object # 0 /\ name' = name
  BY PackageStoreAssumption DEF PackageTypeOK, Keeps, PairedInv
<1>2. ASSUME faults' = faults, torn' = torn, object' \in Nat, object <= object', PairedFormat => Fine
      PROVE  PairedInv'
  <2>1. PairedFormat' => PairedFormat
    BY <1>1, <1>2 DEF PairedFormat, OneMutex
  <2> QED
    BY <1>1, <1>2, <2>1 DEF PairedInv
<1>3. ASSUME faults' = faults + 1 \/ (faults' = faults /\ torn # {}) PROVE PairedInv'
  <2>1. faults' \in Nat /\ faults' # 0
    BY <1>1, <1>3 DEF PairedInv
  <2> QED
    BY <2>1 DEF PairedInv, PairedFormat
<1>4. ASSUME NEW i \in Requests, MayBegin(i), NEW op \in Operations, NEW v \in Versions,
             NEW program \in Programs(name, op), Begin(i, op, program, v)
      PROVE  PairedInv'
  <2>1. /\ UNCHANGED <<name, immutable, shared, tree, object, faults>> /\ ~Running(i)
        /\ Others(i) /\ Started(name, request'[i], op, program, v, object)
    BY <1>4, BeginGoes
  <2>6. torn' = torn
    BY <1>4, Zenon DEF Begin
  <2>2. PICK k : k = request'[i].pc /\ \A m \in 1..(k - 1) : program[m].do = "check"
    BY <2>1 DEF Started
  <2>3. /\ \A s : ~Stamped(name, program, k, s) /\ ~Loaded(program, k, s)
        /\ ~Rereads(name, program, k) /\ ~Began(name, program, k)
    BY <2>2 DEF Stamped, Stamps, Enters, Loaded, Rereads, Began, Changes
  <2>4. Program(i)' = program
    BY <2>1 DEF Started, Program
  <2>5. PairedFormat => Fine
    BY <2>1, <2>2, <2>3, <2>4, PairedPlain DEF Others, PairedInv
  <2> QED
    BY <1>1, <1>2, <2>1, <2>5, <2>6
<1>5. ASSUME NEW i \in Requests, Advance(i) PROVE PairedInv'
  <2>1. object' = object
    BY <1>5, Moves DEF StepOf
  <2>2. faults' = faults /\ torn' = torn
    BY <1>5 DEF Advance, Ask, Gather, Change, Repair, DeleteNext, DeleteEnd, Acquire, Release, Rest
  <2>3. PairedFormat => Fine
    BY <1>5, PairedAdvance DEF PairedInv
  <2> QED
    BY <1>1, <1>2, <2>1, <2>2, <2>3
<1>6. ASSUME NEW i \in Requests, AnyStep(i) PROVE PairedInv'
  <2>1. CASE FailChange(i) \/ FailDelete(i) \/ CutOff(i)
    BY <1>3, <2>1 DEF FailChange, FailDelete, CutOff
  <2>2. CASE FailRead(i) \/ Mislead(i) \/ Misread(i)
    <3>1. Unreadable(i)
      BY <2>2 DEF FailRead, Mislead, Misread
    <3> QED
      BY <1>3, <3>1 DEF Unreadable
  <2> QED
    BY <1>5, <1>6, <2>1, <2>2 DEF AnyStep, StepOf
<1>7. CASE Crash
  BY <1>3, <1>7, CrashGoes
<1>8. CASE Reload \/ Done \/ UNCHANGED vars
  <2>1. /\ UNCHANGED <<name, shared, tree, request, faults, torn>>
        /\ object' = object \/ object' = object + 1
    BY <1>8 DEF Reload, Done, vars
  <2>2. object <= object' /\ object' \in Nat
    BY <1>1, <2>1
  <2>3. PairedFormat => Fine
    BY <2>1, PairedPlain DEF PairedInv
  <2> QED
    BY <1>2, <2>1, <2>2, <2>3
<1> QED
  BY <1>4, <1>6, <1>7, <1>8, NextCases, Zenon

\* Where one mutex covers the writes of file and entry, requests that overlap in any
\* way leave the checksum that is listed that of the file, as long as nothing fails:
\* no document is written back with an entry of a file that was replaced meanwhile.
THEOREM PairedListingAlways == Spec => []PairedListing
<1> DEFINE Inv == PackageTypeOK /\ AloneInv /\ PairedInv
<1>1. Init => Inv
  BY TypeInit, AloneInit, PairedInit
<1>2. Inv /\ [Next]_vars => Inv'
  BY TypeNext, AloneNext, PairedNext
<1>3. Inv => PairedListing
  <2> SUFFICES ASSUME Inv, PairedFormat, Quiet, NEW v \in Versions, NEW s \in Listings,
                      Present(s, v), Present(File, v)
               PROVE  tree[s][v].by = tree[File][v].by
    BY DEF PairedListing, PairedFormat
  <2>1. CASE s = File
    BY <2>1
  <2>2. CASE s # File
    <3>1. s \in Paired(name)
      BY <2>2 DEF Paired, Listings, File
    <3>2. \A i \in Requests : ~Writing(i)
      BY DEF Quiet, Writing, InRegion
    <3>3. Agree(tree[s][v], tree[File][v])
      BY <3>1, <3>2 DEF PairedInv, PairsAgree
    <3> QED
      BY <3>3 DEF Agree, Present
  <2> QED
    BY <2>1, <2>2
<1> QED
  BY <1>1, <1>2, <1>3, PTL DEF Spec
=============================================================================
