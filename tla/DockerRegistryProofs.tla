------------------------ MODULE DockerRegistryProofs ------------------------
(* Proofs about the Docker repository, for every set of images, tags and    *)
(* clients.                                                                 *)
EXTENDS DockerRegistry, TLAPS

\* The steps at which a push has named the manifest it puts.
Putting == {"check", "write", "settag", "readref", "writeref"}

\* A push under way has an image, at the later steps a current manifest, and at the
\* last ones that manifest has a subject; a deletion under way has a manifest, and
\* one with a subject when it takes it out of an index.
Named(new) ==
  /\ new.pc # "idle" => new.image \in Manifests
  /\ new.pc \in Putting => new.cur \in Manifests
  /\ new.pc \in {"readref", "writeref"} => Subject[new.cur] \in Manifests
NamedInv ==
  /\ \A p \in Pushers : Named(push[p])
  /\ del.pc # "idle" => del.image \in Manifests
  /\ del.pc = "unref" => Subject[del.image] \in Manifests

TypeInv == TypeOK /\ NamedInv

\* The indexes, and what is noted about them.
Noted ==
  /\ refs \in [Manifests -> SUBSET Manifests]
  /\ torn \in SUBSET Manifests
  /\ unlisted \in SUBSET Manifests
  /\ faults \in 0..MaxFaults

LEMMA NoneTypes == NoPush \in Push /\ NoDel \in Del /\ NoGc \in Gc
BY DEF NoPush, Push, NoDel, Del, NoGc, Gc, Digest

\* Content stored is noted by the pushes in flight.
LEMMA StoredEffect ==
  ASSUME NEW pushes \in [Pushers -> Push], NEW d \in Digest
  PROVE  /\ Stored(pushes, d) \in [Pushers -> Push]
         /\ \A q \in Pushers :
              LET new == Stored(pushes, d)[q]
              IN /\ new.pc = pushes[q].pc /\ new.by = pushes[q].by
                 /\ new.image = pushes[q].image /\ new.ref = pushes[q].ref
                 /\ new.have = pushes[q].have /\ new.cur = pushes[q].cur
                 /\ new.since = IF pushes[q].pc = "idle" THEN pushes[q].since
                                ELSE pushes[q].since \cup {d}
<1> SUFFICES ASSUME NEW q \in Pushers
             PROVE  LET new == Stored(pushes, d)[q]
                    IN /\ new \in Push
                       /\ new.pc = pushes[q].pc /\ new.by = pushes[q].by
                       /\ new.image = pushes[q].image /\ new.ref = pushes[q].ref
                       /\ new.have = pushes[q].have /\ new.cur = pushes[q].cur
                       /\ new.since = IF pushes[q].pc = "idle" THEN pushes[q].since
                                      ELSE pushes[q].since \cup {d}
  BY DEF Stored
<1>1. pushes[q] \in Push /\ pushes[q].since \cup {d} \in SUBSET Digest
  BY DEF Push
<1>2. CASE pushes[q].pc = "idle"
  BY <1>1, <1>2 DEF Stored
<1>3. CASE pushes[q].pc # "idle"
  <2>1. Stored(pushes, d)[q] = [pushes[q] EXCEPT !.since = @ \cup {d}]
    BY <1>3 DEF Stored
  <2> QED BY <1>1, <1>3, <2>1 DEF Push
<1> QED BY <1>2, <1>3

\* The push after a manifest was answered, and before that.
LEMMA AnswerEffect ==
  ASSUME TypeInv, NEW p \in Pushers, push[p].pc \in Putting
  PROVE  /\ Answer(p) \in [Pushers -> Push]
         /\ \A q \in Pushers \ {p} : Answer(p)[q] = push[q]
         /\ \/ Answer(p)[p] = NoPush
            \/ /\ Answer(p)[p] = [push[p] EXCEPT !.pc = "collect", !.have = @ \cup {push[p].cur},
                                                 !.cur = None, !.idx = {}]
               /\ push[p].cur = push[p].image => Promoted(p)
<1>1. push \in [Pushers -> Push] /\ push[p].cur \in Manifests /\ push[p].image \in Manifests
  BY DEF TypeInv, TypeOK, NamedInv, Named, Putting
<1>2. [push[p] EXCEPT !.pc = "collect", !.have = @ \cup {push[p].cur}, !.cur = None, !.idx = {}]
           \in Push
  BY <1>1 DEF Push, Digest
<1> QED BY <1>1, <1>2, NoneTypes DEF Answer

LEMMA ThenReferrersEffect ==
  ASSUME TypeInv, NEW p \in Pushers, push[p].pc \in Putting
  PROVE  /\ ThenReferrers(p) \in [Pushers -> Push]
         /\ \A q \in Pushers \ {p} : ThenReferrers(p)[q] = push[q]
         /\ \/ ThenReferrers(p) = Answer(p)
            \/ ThenReferrers(p)[p] = [push[p] EXCEPT !.pc = "readref"]
<1>1. push \in [Pushers -> Push] /\ [push[p] EXCEPT !.pc = "readref"] \in Push
  BY DEF TypeInv, TypeOK, Push
<1> QED BY <1>1, AnswerEffect DEF ThenReferrers

\* What is noted about the indexes keeps its type: one lemma for every step.
LEMMA NotedPush ==
  ASSUME TypeInv, NEW p \in Pushers, PushStep(p)
  PROVE  Noted'
<1>1. /\ Noted /\ push[p] \in Push /\ Named(push[p])
  BY DEF TypeInv, TypeOK, NamedInv, Noted
<1>2. CASE UNCHANGED <<refs, torn, unlisted, faults>>
  BY <1>1, <1>2 DEF Noted
<1>3. Fails => faults' \in 0..MaxFaults
  BY <1>1, SwitchAssumption DEF Fails, Noted
<1>4. CASE ReadReferrers(p)
  <2>1. Subject[push[p].cur] \in Manifests /\ UNCHANGED <<refs, torn>>
    BY <1>1, <1>4 DEF ReadReferrers, Named
  <2> QED BY <1>1, <1>3, <1>4, <2>1 DEF ReadReferrers, Noted
<1>5. CASE AddReferrer(p)
  <2>1. /\ Subject[push[p].cur] \in Manifests /\ push[p].cur \in Manifests
        /\ push[p].idx \in SUBSET Manifests
    BY <1>1, <1>5 DEF AddReferrer, Named, Push, Putting
  <2> DEFINE s == Subject[push[p].cur]
  <2>2. CASE WriteIndex(s, push[p].idx \cup {push[p].cur}) /\ unlisted' = unlisted \ refs'[s] /\ UNCHANGED faults
    BY <1>1, <2>1, <2>2 DEF WriteIndex, Noted
  <2>3. CASE WriteFails(s) /\ unlisted' = unlisted \cup ((refs[s] \cup {push[p].cur}) \ refs'[s])
    BY <1>1, <1>3, <2>1, <2>3 DEF WriteFails, Noted
  <2> QED BY <1>5, <2>2, <2>3 DEF AddReferrer
<1>6. CASE \E m \in Manifests, t \in Tags \cup {None} : StartPush(p, m, t) \/ StartPromotion(p, m, t)
  BY <1>2, <1>6 DEF StartPush, StartPromotion
<1>7. CASE (\E b \in Blobs : Upload(p, b)) \/ (\E d \in Digest : Head(p, d)) \/ AbortPush(p)
  BY <1>2, <1>7 DEF Upload, Head, AbortPush
<1>8. CASE (\E x \in Manifests : PutManifest(p, x)) \/ CheckImmutableTag(p) \/ WriteManifest(p)
  BY <1>2, <1>8 DEF PutManifest, CheckImmutableTag, WriteManifest
<1>9. CASE SetTag(p) \/ (\E t \in Tags : SetFallbackTag(p, t)) \/ EndPromotion(p)
  BY <1>2, <1>9 DEF SetTag, SetFallbackTag, EndPromotion
<1> QED BY <1>4, <1>5, <1>6, <1>7, <1>8, <1>9 DEF PushStep

LEMMA NotedDelete ==
  ASSUME TypeInv, DeleteStep
  PROVE  Noted'
<1>1. /\ Noted /\ del \in Del /\ (del.pc # "idle" => del.image \in Manifests)
      /\ man \in [Manifests -> Age]
  BY DEF TypeInv, TypeOK, NamedInv, Noted
<1>2. CASE UNCHANGED <<refs, torn, unlisted, faults>>
  BY <1>1, <1>2 DEF Noted
<1>3. Fails => faults' \in 0..MaxFaults
  BY <1>1, SwitchAssumption DEF Fails, Noted
<1>4. ASSUME NEW s \in Manifests, DropIndex(s), UNCHANGED faults PROVE Noted'
  BY <1>1, <1>4 DEF DropIndex, WriteIndex, Noted
<1>5. CASE DeleteManifestRead \/ CascadeMark
  BY <1>1, <1>3, <1>5 DEF DeleteManifestRead, CascadeMark, Noted
<1>6. CASE RemoveReferrer
  <2> DEFINE s == Subject[del.image]
  <2>1. del.image \in Manifests /\ del.idx \in SUBSET Manifests /\ s \in Manifests
    BY <1>1, <1>6 DEF RemoveReferrer, Del, TypeInv, NamedInv
  <2>2. CASE /\ WriteIndex(s, del.idx \ {del.image}) /\ unlisted' = unlisted \cup {del.image}
             /\ UNCHANGED faults
    BY <1>1, <2>1, <2>2 DEF WriteIndex, Noted
  <2>3. CASE WriteFails(s) /\ unlisted' = unlisted \cup (refs[s] \ refs'[s])
    <3>1. CASE UNCHANGED <<refs, torn>>
      BY <1>1, <1>3, <2>3, <3>1 DEF WriteFails, Noted
    <3>2. CASE refs' = [refs EXCEPT ![s] = {}] /\ torn' = torn \cup {s}
      BY <1>1, <1>3, <2>1, <2>3, <3>2 DEF WriteFails, Noted
    <3> QED BY <2>3, <3>1, <3>2 DEF WriteFails
  <2> QED BY <1>6, <2>2, <2>3 DEF RemoveReferrer
<1>7. CASE DeleteReferrersIndex
  <2>1. del.image \in Manifests
    BY <1>1, <1>7 DEF DeleteReferrersIndex
  <2>2. CASE Fails /\ UNCHANGED <<refs, torn, unlisted>>
    BY <1>1, <1>3, <2>2 DEF Noted
  <2> QED BY <1>4, <1>7, <2>1, <2>2 DEF DeleteReferrersIndex
<1>8. ASSUME NEW x \in Manifests, CascadeReap(x) PROVE Noted'
  BY <1>2, <1>4, <1>8 DEF CascadeReap
<1>9. CASE \E t \in Tags : DeleteTag(t)
  BY <1>2, <1>9 DEF DeleteTag
<1>10. CASE (\E b \in Blobs : DeleteBlob(b)) \/ (\E m \in Manifests : DeleteManifestStart(m))
  BY <1>2, <1>10 DEF DeleteBlob, DeleteManifestStart
<1>11. CASE DeleteManifest \/ \E x \in Manifests : CascadeCheck(x)
  BY <1>2, <1>11 DEF DeleteManifest, CascadeCheck
<1> QED BY <1>5, <1>6, <1>7, <1>8, <1>9, <1>10, <1>11 DEF DeleteStep

LEMMA NotedGC ==
  ASSUME TypeInv, GCStep \/ GrowOld
  PROVE  Noted'
<1>1. Noted
  BY DEF TypeInv, TypeOK, Noted
<1>2. CASE UNCHANGED <<refs, torn, unlisted, faults>>
  BY <1>1, <1>2 DEF Noted
<1>3. Fails => faults' \in 0..MaxFaults
  BY <1>1, SwitchAssumption DEF Fails, Noted
<1>4. CASE StartGC \/ MarkReferrers \/ \E t \in Tags : MarkTag(t)
  BY <1>1, <1>3, <1>4 DEF StartGC, MarkReferrers, MarkTag, Noted
<1>5. CASE StartSweep \/ CancelWalk \/ StartManifestSweep \/ EndGC
  BY <1>2, <1>5 DEF StartSweep, CancelWalk, StartManifestSweep, EndGC
<1>6. CASE \E b \in Blobs : ExamineBlob(b) \/ SweepBlob(b)
  BY <1>2, <1>6 DEF ExamineBlob, SweepBlob, Examine
<1>7. CASE \E m \in Manifests : ExamineManifest(m) \/ SweepManifest(m)
  BY <1>2, <1>7 DEF ExamineManifest, SweepManifest, Examine
<1>8. CASE GrowOld
  BY <1>2, <1>8 DEF GrowOld
<1> QED BY <1>4, <1>5, <1>6, <1>7, <1>8 DEF GCStep

LEMMA NotedStep == TypeInv /\ [Next]_vars => Noted'
<1>1. TypeInv /\ UNCHANGED vars => Noted'
  BY DEF vars, TypeInv, TypeOK, Noted
<1> QED BY <1>1, NotedPush, NotedDelete, NotedGC DEF Next

\* A step of one push that stores nothing.
LEMMA PushOnlyType ==
  ASSUME TypeInv, Noted', NEW p \in Pushers, NEW new \in Push, push' = [push EXCEPT ![p] = new],
         Named(new), UNCHANGED <<blob, man, del, gc, gone>>,
         tag' \in [Tags -> Manifests \cup {None}]
  PROVE  TypeInv'
<1>1. push' \in [Pushers -> Push] /\ push'[p] = new /\ \A q \in Pushers \ {p} : push'[q] = push[q]
  BY DEF TypeInv, TypeOK
<1>2. TypeOK'
  BY <1>1 DEF TypeInv, TypeOK, Noted
<1>3. NamedInv'
  BY <1>1 DEF TypeInv, NamedInv, Named
<1> QED BY <1>2, <1>3 DEF TypeInv

LEMMA StartType ==
  ASSUME TypeInv, Noted', NEW p \in Pushers, NEW m \in Manifests, NEW t \in Tags \cup {None},
         StartPush(p, m, t) \/ StartPromotion(p, m, t)
  PROVE  TypeInv'
<1> DEFINE tags == UNION {Fallbacks(x) : x \in Copied[m]}
           client == [NoPush EXCEPT !.pc = "collect", !.image = m, !.ref = t]
           promotion == [NoPush EXCEPT !.pc = "collect", !.by = "promotion", !.image = m, !.ref = t,
                                       !.tags = tags]
<1>5. tags \in SUBSET Tags
  BY DEF Fallbacks
<1> HIDE DEF tags
<1>1. client \in Push /\ Named(client) /\ promotion \in Push /\ Named(promotion)
  BY <1>5, NoneTypes DEF Push, Named, Putting, NoPush
<1>2. push' = [push EXCEPT ![p] = client] \/ push' = [push EXCEPT ![p] = promotion]
  BY DEF StartPush, StartPromotion, tags
<1>3. UNCHANGED <<blob, man, tag, refs, del, gc, gone>>
  BY DEF StartPush, StartPromotion
<1>4. tag' \in [Tags -> Manifests \cup {None}]
  BY <1>3 DEF TypeInv, TypeOK
<1> HIDE DEF client, promotion
<1> QED BY <1>1, <1>2, <1>3, <1>4, PushOnlyType

\* The steps of a push that touch nothing but the push.
LEMMA PushStepType ==
  ASSUME TypeInv, Noted', NEW p \in Pushers,
         \/ \E d \in Digest : Head(p, d)
         \/ AbortPush(p) \/ CheckImmutableTag(p) \/ ReadReferrers(p)
         \/ \E x \in Manifests : PutManifest(p, x)
  PROVE  TypeInv'
<1>1. /\ push[p] \in Push /\ Named(push[p])
      /\ tag \in [Tags -> Manifests \cup {None}] /\ refs \in [Manifests -> SUBSET Manifests]
  BY DEF TypeInv, TypeOK, NamedInv, Named
<1>2. UNCHANGED <<blob, man, tag, refs, del, gc, gone>>
  BY DEF Head, AbortPush, CheckImmutableTag, ReadReferrers, PutManifest
<1>3. ASSUME NEW new \in Push, push' = [push EXCEPT ![p] = new], Named(new) PROVE TypeInv'
  BY <1>1, <1>2, <1>3, PushOnlyType
<1>4. NoPush \in Push /\ Named(NoPush)
  BY NoneTypes DEF Named, NoPush, Putting
<1>5. ASSUME NEW d \in Digest, Head(p, d) PROVE TypeInv'
  <2>1. [push[p] EXCEPT !.have = @ \cup {d}] \in Push /\ Named([push[p] EXCEPT !.have = @ \cup {d}])
    BY <1>1 DEF Push, Named
  <2> QED BY <1>3, <1>5, <2>1 DEF Head
<1>6. CASE AbortPush(p)
  BY <1>3, <1>4, <1>6 DEF AbortPush
<1>7. CASE CheckImmutableTag(p)
  <2>1. /\ [push[p] EXCEPT !.pc = "write"] \in Push
        /\ Named([push[p] EXCEPT !.pc = "write"])
    BY <1>1, <1>7 DEF Push, Named, CheckImmutableTag, Putting
  <2> QED BY <1>3, <1>4, <1>7, <2>1 DEF CheckImmutableTag
<1>8. CASE ReadReferrers(p)
  <2>1. push[p].pc = "readref" /\ push[p].cur \in Manifests
    BY <1>1, <1>8 DEF ReadReferrers, Named, Putting
  <2>3. Subject[push[p].cur] \in Manifests /\ refs[Subject[push[p].cur]] \in SUBSET Manifests
    BY <1>1, <2>1, <1>8 DEF Named, ReadReferrers
  <2>2. PICK idx \in SUBSET Manifests :
          push' = [push EXCEPT ![p] = [push[p] EXCEPT !.idx = idx, !.pc = "writeref"]]
    BY <1>8, <2>3 DEF ReadReferrers
  <2> DEFINE new == [push[p] EXCEPT !.idx = idx, !.pc = "writeref"]
  <2>4. new \in Push /\ Named(new)
    BY <1>1, <2>1, <2>3 DEF Push, Named, Putting
  <2> HIDE DEF new
  <2> QED BY <1>3, <2>2, <2>4 DEF new
<1>9. ASSUME NEW x \in Manifests, PutManifest(p, x) PROVE TypeInv'
  <2> DEFINE pc == IF x = push[p].image /\ push[p].ref \in Immutable /\ ~Promoted(p)
                   THEN "check" ELSE "write"
             new == [push[p] EXCEPT !.cur = x, !.pc = pc]
  <2>1. new \in Push /\ Named(new)
    BY <1>1, <1>9 DEF Push, Named, Putting, PutManifest
  <2>2. push' = [push EXCEPT ![p] = new]
    BY <1>9, ZenonT(60) DEF PutManifest
  <2> HIDE DEF new
  <2> QED BY <1>3, <2>1, <2>2
<1> QED BY <1>5, <1>6, <1>7, <1>8, <1>9

\* A step after the manifest, and its tag if it has one, was written.
LEMMA AfterPut ==
  ASSUME TypeInv, NEW p \in Pushers, push[p].pc \in Putting
  PROVE  Named(Answer(p)[p]) /\ Named(ThenReferrers(p)[p])
<1>1. /\ push[p] \in Push /\ push[p].cur \in Manifests /\ push[p].image \in Manifests
      /\ push \in [Pushers -> Push]
  BY DEF TypeInv, TypeOK, NamedInv, Named, Putting
<1>2. Named(Answer(p)[p])
  <2>1. Named(NoPush)
    BY DEF Named, NoPush, Putting
  <2>2. Named([push[p] EXCEPT !.pc = "collect", !.have = @ \cup {push[p].cur}, !.cur = None, !.idx = {}])
    BY <1>1 DEF Named, Push, Putting
  <2> QED BY <2>1, <2>2, AnswerEffect
<1>3. CASE Subject[push[p].cur] = None
  BY <1>2, <1>3 DEF ThenReferrers
<1>4. CASE Subject[push[p].cur] # None
  <2>1. Subject[push[p].cur] \in Manifests
    BY <1>1, <1>4, ContentAssumption
  <2>2. Named([push[p] EXCEPT !.pc = "readref"])
    BY <1>1, <2>1 DEF Named, Push, Putting
  <2> QED BY <1>1, <1>2, <1>4, <2>2 DEF ThenReferrers
<1> QED BY <1>2, <1>3, <1>4

LEMMA SetTagType ==
  ASSUME TypeInv, Noted', NEW p \in Pushers, SetTag(p) \/ AddReferrer(p)
  PROVE  TypeInv'
<1>1. /\ push[p] \in Push /\ push[p].cur \in Manifests /\ push[p].pc \in Putting
      /\ push \in [Pushers -> Push]
      /\ tag \in [Tags -> Manifests \cup {None}]
  BY DEF TypeInv, TypeOK, NamedInv, Named, Putting, SetTag, AddReferrer
<1>2. push' \in [Pushers -> Push] /\ \A q \in Pushers : Named(push'[q])
  <2>1. CASE push' = [push EXCEPT ![p] = NoPush]
    <3>1. Named(NoPush)
      BY DEF Named, NoPush, Putting
    <3> QED BY <1>1, <2>1, <3>1, NoneTypes DEF TypeInv, NamedInv
  <2>2. CASE push' = Answer(p)
    BY <1>1, <2>2, AnswerEffect, AfterPut DEF TypeInv, NamedInv
  <2>3. CASE push' = ThenReferrers(p)
    BY <1>1, <2>3, ThenReferrersEffect, AfterPut DEF TypeInv, NamedInv
  <2> QED BY <2>1, <2>2, <2>3 DEF SetTag, AddReferrer
<1>3. tag' \in [Tags -> Manifests \cup {None}]
  BY <1>1 DEF SetTag, AddReferrer
<1>4. UNCHANGED <<blob, man, del, gc, gone>>
  BY DEF SetTag, AddReferrer
<1> QED BY <1>2, <1>3, <1>4 DEF TypeInv, TypeOK, NamedInv, Noted

\* A promotion sets a tag.
LEMMA PromotionType ==
  ASSUME TypeInv, Noted', NEW p \in Pushers,
         EndPromotion(p) \/ \E t \in Tags : SetFallbackTag(p, t)
  PROVE  TypeInv'
<1>1. /\ push[p] \in Push /\ Named(push[p]) /\ push \in [Pushers -> Push]
      /\ tag \in [Tags -> Manifests \cup {None}] /\ push[p].pc = "collect"
      /\ UNCHANGED <<blob, man, del, gc, gone>>
  BY DEF TypeInv, TypeOK, NamedInv, SetFallbackTag, EndPromotion
<1>2. CASE EndPromotion(p)
  <2>1. tag' \in [Tags -> Manifests \cup {None}]
    BY <1>1, <1>2 DEF EndPromotion, Named
  <2>2. NoPush \in Push /\ Named(NoPush)
    BY NoneTypes DEF Named, NoPush, Putting
  <2> QED BY <1>1, <1>2, <2>1, <2>2, PushOnlyType DEF EndPromotion
<1>3. ASSUME NEW t \in Tags, SetFallbackTag(p, t) PROVE TypeInv'
  <2>1. tag' \in [Tags -> Manifests \cup {None}]
    BY <1>1, <1>3, ContentAssumption DEF SetFallbackTag
  <2> DEFINE new == [push[p] EXCEPT !.tags = @ \ {t}]
  <2>2. new \in Push /\ Named(new)
    BY <1>1 DEF Push, Named
  <2>3. push' = [push EXCEPT ![p] = new]
    BY <1>3 DEF SetFallbackTag
  <2> HIDE DEF new
  <2> QED BY <1>1, <2>1, <2>2, <2>3, PushOnlyType
<1> QED BY <1>2, <1>3

\* Content is stored, and everything that looks at ages knows.
LEMMA StoreType ==
  ASSUME TypeInv, Noted', NEW d \in Digest, NEW pushes \in [Pushers -> Push],
         \A q \in Pushers : Named(pushes[q]), push' = Stored(pushes, d), Refresh(d),
         blob' \in [Blobs -> Age], man' \in [Manifests -> Age],
         gone' = gone \ {d}, UNCHANGED tag
  PROVE  TypeInv'
<1>1. push' \in [Pushers -> Push]
  BY StoredEffect
<1>2. \A q \in Pushers : Named(push'[q])
  BY StoredEffect, ZenonT(30) DEF Named
<1>3. gc' \in Gc /\ del' \in Del /\ del'.pc = del.pc /\ del'.image = del.image
  BY DEF TypeInv, TypeOK, Refresh, Gc, Del
<1> QED BY <1>1, <1>2, <1>3 DEF TypeInv, TypeOK, NamedInv, Noted

LEMMA UploadType ==
  ASSUME TypeInv, Noted', NEW p \in Pushers, NEW b \in Blobs, Upload(p, b)
  PROVE  TypeInv'
<1> DEFINE pushes == [push EXCEPT ![p].have = @ \cup {b}]
<1>1. pushes \in [Pushers -> Push] /\ b \in Digest
  BY DEF TypeInv, TypeOK, Push, Digest
<1>2. \A q \in Pushers : Named(pushes[q])
  <2>1. Named([push[p] EXCEPT !.have = @ \cup {b}])
    BY DEF TypeInv, TypeOK, NamedInv, Named, Push
  <2> QED BY <2>1 DEF TypeInv, TypeOK, NamedInv
<1>3. /\ push' = Stored(pushes, b) /\ Refresh(b) /\ gone' = gone \ {b}
      /\ blob' \in [Blobs -> Age] /\ man' \in [Manifests -> Age] /\ UNCHANGED tag
  BY DEF Upload, TypeInv, TypeOK, Age
<1> HIDE DEF pushes
<1> QED BY <1>1, <1>2, <1>3, StoreType

LEMMA WriteManifestType ==
  ASSUME TypeInv, Noted', NEW p \in Pushers, WriteManifest(p)
  PROVE  TypeInv'
<1>1. /\ push[p] \in Push /\ push[p].cur \in Manifests /\ push[p].pc \in Putting
      /\ push \in [Pushers -> Push]
  BY DEF TypeInv, TypeOK, NamedInv, Named, Putting, WriteManifest
<1> DEFINE pushes == IF RefOf(p) # None THEN [push EXCEPT ![p].pc = "settag"] ELSE ThenReferrers(p)
<1>2. pushes \in [Pushers -> Push] /\ \A q \in Pushers : Named(pushes[q])
  <2>1. [push[p] EXCEPT !.pc = "settag"] \in Push /\ Named([push[p] EXCEPT !.pc = "settag"])
    BY <1>1 DEF Push, Named, Putting, TypeInv, NamedInv
  <2>2. CASE RefOf(p) # None
    BY <1>1, <2>1, <2>2 DEF TypeInv, NamedInv
  <2>3. CASE RefOf(p) = None
    BY <1>1, <2>3, ThenReferrersEffect, AfterPut DEF TypeInv, NamedInv
  <2> QED BY <2>2, <2>3
<1>3. push' = Stored(pushes, push[p].cur)
  BY DEF WriteManifest
<1>4. /\ Refresh(push[p].cur) /\ gone' = gone \ {push[p].cur} /\ push[p].cur \in Digest
      /\ blob' \in [Blobs -> Age] /\ man' \in [Manifests -> Age] /\ UNCHANGED tag
  BY <1>1 DEF WriteManifest, TypeInv, TypeOK, Age, Digest
<1> HIDE DEF pushes
<1> QED BY <1>2, <1>3, <1>4, StoreType

\* The deletions.
LEMMA DeleteType ==
  ASSUME TypeInv, Noted', DeleteStep
  PROVE  TypeInv'
<1> USE DEF TypeInv
<1>1. /\ del \in Del /\ NoDel \in Del /\ NoDel.pc = "idle"
      /\ refs \in [Manifests -> SUBSET Manifests] /\ man \in [Manifests -> Age]
  BY NoneTypes DEF TypeOK, NoDel
<1>2. ASSUME UNCHANGED <<push, gc>>, del' \in Del,
             del'.pc # "idle" => del'.image \in Manifests,
             del'.pc = "unref" => Subject[del'.image] \in Manifests,
             blob' \in [Blobs -> Age], man' \in [Manifests -> Age],
             tag' \in [Tags -> Manifests \cup {None}], gone' \in SUBSET Digest
      PROVE  TypeInv'
  BY <1>2 DEF TypeOK, NamedInv, Noted
<1>3. ASSUME NEW t \in Tags, DeleteTag(t) PROVE TypeInv'
  BY <1>1, <1>2, <1>3 DEF DeleteTag, TypeOK, NamedInv
<1>4. ASSUME NEW b \in Blobs, DeleteBlob(b) PROVE TypeInv'
  BY <1>1, <1>2, <1>4 DEF DeleteBlob, TypeOK, NamedInv, Age, Digest
<1>5. ASSUME NEW m \in Manifests, DeleteManifestStart(m) PROVE TypeInv'
  <2>1. del' \in Del /\ del'.image = m /\ del'.pc = "read"
    BY <1>1, <1>5 DEF DeleteManifestStart, Del
  <2> QED BY <1>2, <1>5, <2>1 DEF DeleteManifestStart, TypeOK
<1>6. CASE DeleteManifestRead
  <2>1. del.pc = "read" /\ del.image \in Manifests
    BY <1>6 DEF DeleteManifestRead, NamedInv
  <2>2. Subs[del.image] \in SUBSET Manifests
    BY <2>1, ContentAssumption
  <2>3. Subject[del.image] # None => refs[Subject[del.image]] \in SUBSET Manifests
    BY <1>1, <2>1, ContentAssumption
  <2>4. del' \in Del /\ del'.image = del.image
    BY <1>1, <1>6, <2>2, <2>3 DEF DeleteManifestRead, Del
  <2>5. Subject[del.image] \in Manifests \cup {None}
    BY <2>1, ContentAssumption
  <2>6. del'.pc = "unref" => Subject[del'.image] \in Manifests
    BY <1>1, <1>6, <2>4, <2>5 DEF DeleteManifestRead, Del
  <2> QED BY <1>2, <1>6, <2>1, <2>4, <2>6 DEF DeleteManifestRead, TypeOK
<1>7. CASE RemoveReferrer
  <2>1. del' \in Del /\ del'.image = del.image /\ del'.pc = "delete" /\ del.image \in Manifests
    BY <1>1, <1>7 DEF RemoveReferrer, Del, NamedInv
  <2> QED BY <1>2, <1>7, <2>1 DEF RemoveReferrer, TypeOK
<1>8. CASE DeleteManifest
  <2>1. del.image \in Manifests
    BY <1>8 DEF DeleteManifest, NamedInv
  <2>2. del' \in Del /\ (del'.pc # "idle" => del'.image = del.image) /\ del'.pc # "unref"
    BY <1>1, <1>8 DEF DeleteManifest, Del
  <2>3. man' \in [Manifests -> Age] /\ gone' \in SUBSET Digest
    BY <1>1, <1>8, <2>1 DEF DeleteManifest, TypeOK, Age, Digest
  <2> QED BY <1>2, <1>8, <2>1, <2>2, <2>3 DEF DeleteManifest, TypeOK
<1>9. CASE DeleteReferrersIndex
  <2>1. /\ del' \in Del /\ (del'.pc # "idle" => del'.image = del.image) /\ del.image \in Manifests
        /\ del'.pc # "unref"
    BY <1>1, <1>9 DEF DeleteReferrersIndex, Del, NamedInv
  <2> QED BY <1>2, <1>9, <2>1 DEF DeleteReferrersIndex, TypeOK
<1>10. CASE CascadeMark
  <2>1. MarkScoped(del.image) \in SUBSET Manifests
    BY <1>1 DEF MarkScoped, Indexed, Walk
  <2>2. {m \in Manifests : man[m] = "old"} \in SUBSET Digest
    BY DEF Digest
  <2>3. del' \in Del /\ del'.image = del.image /\ del'.pc = "cascade" /\ del.image \in Manifests
    BY <1>1, <1>10, <2>1, <2>2 DEF CascadeMark, Del, NamedInv
  <2> QED BY <1>2, <1>10, <2>3 DEF CascadeMark, TypeOK
<1>11. ASSUME NEW x \in Manifests, CascadeCheck(x) PROVE TypeInv'
  <2>1. /\ del' \in Del /\ (del'.pc # "idle" => del'.image = del.image) /\ del.image \in Manifests
        /\ del'.pc # "unref"
    BY <1>1, <1>11 DEF CascadeCheck, Del, NamedInv
  <2> QED BY <1>2, <1>11, <2>1 DEF CascadeCheck, TypeOK
<1>12. ASSUME NEW x \in Manifests, CascadeReap(x) PROVE TypeInv'
  <2>1. /\ del' \in Del /\ (del'.pc # "idle" => del'.image = del.image) /\ del.image \in Manifests
        /\ del'.pc # "unref"
    BY <1>1, <1>12 DEF CascadeReap, Del, NamedInv
  <2>2. man' \in [Manifests -> Age]
    BY <1>1, <1>12 DEF CascadeReap, Age
  <2> QED BY <1>2, <1>12, <2>1, <2>2 DEF CascadeReap, TypeOK
<1> QED BY <1>3, <1>4, <1>5, <1>6, <1>7, <1>8, <1>9, <1>10, <1>11, <1>12 DEF DeleteStep

\* The collector and the clock.
LEMMA WalkType ==
  ASSUME NEW m, NEW live
  PROVE  Walk(m, live) \in SUBSET Manifests
BY DEF Walk

LEMMA GCType ==
  ASSUME TypeInv, Noted', GCStep
  PROVE  TypeInv'
<1> USE DEF TypeInv
<1>1. /\ gc \in Gc /\ NoGc \in Gc /\ refs \in [Manifests -> SUBSET Manifests]
      /\ tag \in [Tags -> Manifests \cup {None}]
  BY NoneTypes DEF TypeOK
<1>2. ASSUME UNCHANGED <<tag, push, del, gone>>, gc' \in Gc,
             blob' \in [Blobs -> Age], man' \in [Manifests -> Age]
      PROVE  TypeInv'
  BY <1>2 DEF TypeOK, NamedInv, Noted
<1>3. CASE StartGC
  <2>1. gc' \in Gc
    <3>1. PICK tags \in SUBSET Tags : tags = {t \in Tags : tag[t] # None}
      OBVIOUS
    <3>2. \/ gc' = [NoGc EXCEPT !.pc = "tags", !.tags = tags]
          \/ gc' = [NoGc EXCEPT !.pc = "refs"]
      BY <1>3, <3>1 DEF StartGC
    <3>3. CASE gc' = [NoGc EXCEPT !.pc = "tags", !.tags = tags]
      BY <1>1, <3>3 DEF Gc
    <3>4. CASE gc' = [NoGc EXCEPT !.pc = "refs"]
      BY <1>1, <3>4 DEF Gc
    <3> QED BY <3>2, <3>3, <3>4
  <2> QED BY <1>2, <1>3, <2>1 DEF StartGC, TypeOK
<1>4. ASSUME NEW t \in Tags, MarkTag(t) PROVE TypeInv'
  <2>2. {tag[t]} \ {None} \in SUBSET Manifests /\ {} \in SUBSET Manifests
    BY <1>1
  <2> DEFINE walked == IF tag[t] = None THEN {} ELSE Walk(tag[t], gc.liveM)
  <2>3. PICK new \in SUBSET Manifests : new = walked
    BY WalkType
  <2> HIDE DEF walked
  <2> DEFINE below == UNION {Layers[x] : x \in {y \in new : HasManifest(y)}}
  <2>4. below \in SUBSET Blobs
    BY <2>3, ContentAssumption
  <2>8. PICK layers \in SUBSET Blobs : layers = below
    BY <2>4
  <2>5. CASE gc' = [gc EXCEPT !.tags = @ \ {t}, !.liveM = @ \cup new, !.liveB = @ \cup layers]
    <3>1. gc' \in Gc
      BY <1>1, <2>5 DEF Gc
    <3> QED BY <1>2, <1>4, <3>1 DEF MarkTag, TypeOK
  <2>6. CASE \/ gc' = [gc EXCEPT !.tags = @ \ {t}, !.liveM = @ \cup {}]
             \/ gc' = [gc EXCEPT !.tags = @ \ {t}, !.liveM = @ \cup ({tag[t]} \ {None})]
    <3>1. gc.liveM \in SUBSET Manifests /\ gc.liveM \cup ({tag[t]} \ {None}) \in SUBSET Manifests
      BY <1>1, <2>2 DEF Gc
    <3>2. gc' \in Gc
      <4>1. CASE gc' = [gc EXCEPT !.tags = @ \ {t}, !.liveM = @ \cup {}]
        BY <1>1, <3>1, <4>1 DEF Gc
      <4>2. CASE gc' = [gc EXCEPT !.tags = @ \ {t}, !.liveM = @ \cup ({tag[t]} \ {None})]
        BY <1>1, <3>1, <4>2 DEF Gc
      <4> QED BY <2>6, <4>1, <4>2
    <3> QED BY <1>2, <1>4, <3>2 DEF MarkTag, TypeOK
  <2>7. \/ gc' = [gc EXCEPT !.tags = @ \ {t}, !.liveM = @ \cup new, !.liveB = @ \cup layers]
        \/ gc' = [gc EXCEPT !.tags = @ \ {t}, !.liveM = @ \cup {}]
        \/ gc' = [gc EXCEPT !.tags = @ \ {t}, !.liveM = @ \cup ({tag[t]} \ {None})]
    BY <1>4, <2>3, <2>8 DEF MarkTag, walked
  <2> QED BY <2>5, <2>6, <2>7
<1>5. CASE MarkReferrers
  <2>1. Indexed(None) \in SUBSET Manifests
    BY <1>1 DEF Indexed
  <2>3. PICK new \in SUBSET Indexed(None) : gc' = [gc EXCEPT !.pc = "refs", !.liveM = @ \cup new]
    BY <1>5 DEF MarkReferrers
  <2>2. gc' \in Gc
    BY <1>1, <2>1, <2>3 DEF Gc
  <2> QED BY <1>2, <1>5, <2>2 DEF MarkReferrers, TypeOK
<1>6. CASE StartSweep
  <2>1. /\ {b \in Blobs : blob[b] = "old"} \cup {m \in Manifests : man[m] = "old"} \in SUBSET Digest
        /\ Blobs \in SUBSET Digest
    BY DEF Digest
  <2>2. PICK old \in SUBSET Digest :
          old = {b \in Blobs : blob[b] = "old"} \cup {m \in Manifests : man[m] = "old"}
    BY <2>1
  <2>3. gc' = [gc EXCEPT !.pc = "blobs", !.todo = Blobs, !.aged = old]
    BY <1>6, <2>2 DEF StartSweep
  <2>4. gc' \in Gc
    BY <1>1, <2>1, <2>3 DEF Gc
  <2> QED BY <1>2, <1>6, <2>4 DEF StartSweep, TypeOK
<1>7. ASSUME NEW d \in Digest, NEW live, NEW swept \in BOOLEAN, Examine(d, live, swept) PROVE TypeInv'
  <2>1. gc' \in Gc
    BY <1>1, <1>7 DEF Examine, Gc
  <2> QED BY <1>2, <1>7, <2>1 DEF Examine, TypeOK
<1>8. ASSUME NEW b \in Blobs, ExamineBlob(b) PROVE TypeInv'
  BY <1>7, <1>8 DEF ExamineBlob, Digest
<1>9. ASSUME NEW m \in Manifests, ExamineManifest(m) PROVE TypeInv'
  BY <1>7, <1>9 DEF ExamineManifest, Digest
<1>10. ASSUME NEW d, (d \in Blobs /\ SweepBlob(d)) \/ (d \in Manifests /\ SweepManifest(d)) PROVE TypeInv'
  <2>1. gc' \in Gc
    BY <1>1, <1>10 DEF SweepBlob, SweepManifest, Gc
  <2> QED BY <1>2, <1>10, <2>1 DEF SweepBlob, SweepManifest, TypeOK, Age
<1>11. CASE CancelWalk \/ StartManifestSweep \/ EndGC
  <2>1. {m \in Manifests : HasManifest(m)} \in SUBSET Digest
    BY DEF Digest
  <2>2. gc' \in Gc
    BY <1>1, <1>11, <2>1, ZenonT(30) DEF CancelWalk, StartManifestSweep, EndGC, Gc
  <2> QED BY <1>2, <1>11, <2>2 DEF CancelWalk, StartManifestSweep, EndGC, TypeOK
<1> QED BY <1>3, <1>4, <1>5, <1>6, <1>8, <1>9, <1>10, <1>11 DEF GCStep

LEMMA GrowOldType ==
  ASSUME TypeInv, Noted', GrowOld
  PROVE  TypeInv'
<1>1. blob' \in [Blobs -> Age] /\ man' \in [Manifests -> Age]
  BY DEF GrowOld, GrowOldBlob, GrowOldManifest, TypeInv, TypeOK, Age
<1> QED BY <1>1 DEF GrowOld, TypeInv, TypeOK, NamedInv, Noted

LEMMA TypeStep == TypeInv /\ [Next]_vars => TypeInv'
<1> SUFFICES ASSUME TypeInv, [Next]_vars PROVE TypeInv'
  OBVIOUS
<1>1. CASE UNCHANGED vars
  BY <1>1 DEF vars, TypeInv, TypeOK, NamedInv
<1>3. Noted'
  BY NotedStep
<1>2. ASSUME NEW p \in Pushers, PushStep(p) PROVE TypeInv'
  BY <1>2, <1>3, StartType, PushStepType, UploadType, WriteManifestType, SetTagType, PromotionType
     DEF PushStep
<1> QED BY <1>1, <1>2, <1>3, DeleteType, GCType, GrowOldType DEF Next

LEMMA TypeInit == Init => TypeInv
<1> SUFFICES ASSUME Init PROVE TypeInv
  OBVIOUS
<1>1. Named(NoPush) /\ NoDel.pc = "idle"
  BY DEF Named, NoPush, NoDel, Putting
<1> QED BY <1>1, NoneTypes, SwitchAssumption DEF Init, TypeInv, TypeOK, NamedInv, Age

LEMMA TypeInvAlways == Spec => []TypeInv
BY TypeInit, TypeStep, PTL DEF Spec

\* The variables of the repository, of the pushes, of the deletion and of the
\* collector stay in their types: what is noted as stored or live is always a
\* digest, also when a push or a deletion goes on after what it worked on changed.
THEOREM TypeCorrect == Spec => []TypeOK
<1>1. TypeInv => TypeOK
  BY DEF TypeInv
<1> QED BY <1>1, TypeInvAlways, PTL
------------------------------------------------------------------------------
\* What a manifest names, and everything an image is made of.
Kids(x) == Subs[x] \cup Layers[x]
All(m) == Tree(m) \cup TreeBlobs(m)

LEMMA TreeFacts ==
  ASSUME NEW m \in Manifests
  PROVE  /\ m \in Tree(m) /\ Tree(m) \subseteq Manifests
         /\ \A x \in Tree(m) : Subs[x] \subseteq Tree(m)
<1> USE ContentAssumption DEF Tree, Below
<1>1. m \in Tree(m) /\ Tree(m) \subseteq Manifests
  OBVIOUS
<1>2. ASSUME NEW x \in Tree(m), NEW z \in Subs[x] PROVE z \in Tree(m)
  <2>1. x \in Manifests /\ z \in Manifests
    BY <1>1
  <2>2. ASSUME NEW X \in SUBSET Manifests, m \in X, \A y \in X : Subs[y] \subseteq X PROVE z \in X
    BY <2>1, <2>2
  <2> QED BY <2>1, <2>2
<1> QED BY <1>1, <1>2

LEMMA TreeLeast ==
  ASSUME NEW m \in Manifests, NEW X \in SUBSET Manifests, m \in X, \A y \in X : Subs[y] \subseteq X
  PROVE  Tree(m) \subseteq X
BY DEF Tree, Below

\* An image holds what its manifests name and the images of its sub-manifests.
LEMMA AllFacts ==
  ASSUME NEW m \in Manifests
  PROVE  /\ m \in All(m) /\ All(m) \subseteq Digest
         /\ \A x \in Tree(m) : x \in Manifests /\ Kids(x) \subseteq All(m) /\ All(x) \subseteq All(m)
         /\ All(m) \cap Manifests = Tree(m)
         /\ \A d \in All(m) : d \in Tree(m) \/ \E x \in Tree(m) : d \in Layers[x]
<1>1. TreeBlobs(m) \subseteq Blobs
  BY TreeFacts, ContentAssumption DEF TreeBlobs
<1>2. ASSUME NEW x \in Tree(m)
      PROVE  x \in Manifests /\ Kids(x) \subseteq All(m) /\ All(x) \subseteq All(m)
  <2>1. x \in Manifests
    BY TreeFacts
  <2>2. Kids(x) \subseteq All(m)
    BY TreeFacts DEF Kids, All, TreeBlobs
  <2>3. Tree(x) \subseteq Tree(m)
    BY <2>1, TreeFacts, TreeLeast
  <2> QED BY <2>1, <2>2, <2>3 DEF All, TreeBlobs
<1>3. \A d \in All(m) : d \in Tree(m) \/ \E x \in Tree(m) : d \in Layers[x]
  BY DEF All, TreeBlobs
<1> QED BY <1>1, <1>2, <1>3, TreeFacts, DigestAssumption DEF All, Digest

\* A set that holds what each of its manifests names holds whole images.
Closed(have) == \A x \in have \cap Manifests : Kids(x) \subseteq have

LEMMA AllLeast ==
  ASSUME NEW m \in Manifests, NEW have, Closed(have), Kids(m) \subseteq have
  PROVE  All(m) \subseteq have \cup {m}
<1> DEFINE X == {m} \cup (have \cap Manifests)
<1>1. X \in SUBSET Manifests /\ m \in X
  OBVIOUS
<1>2. ASSUME NEW y \in X PROVE y \in Manifests /\ Kids(y) \subseteq have
  BY DEF Closed
<1>3. \A y \in X : Subs[y] \subseteq X
  BY <1>2, ContentAssumption DEF Kids
<1>4. Tree(m) \subseteq X
  BY <1>1, <1>3, TreeLeast
<1>5. TreeBlobs(m) \subseteq have
  BY <1>2, <1>4 DEF TreeBlobs, Kids
<1> QED BY <1>4, <1>5 DEF All
------------------------------------------------------------------------------
\* The conditions under which the collector may run beside pushes: clients push
\* what is not stored yet, delete nothing but tags, and no read fails.
FreshOnly ==
  Fresh /\ Reuse = {} /\ Deletes \subseteq {"tag"} /\ ~Promotes /\ MaxFaults = 0

Present(d) == IF d \in Blobs THEN HasBlob(d) ELSE HasManifest(d)
Young(d) == IF d \in Blobs THEN blob[d] = "young" ELSE man[d] = "young"
Live == gc.liveM \cup gc.liveB

\* A push puts a manifest when all it names was stored since the push began, and
\* sets the tag, and the referrers index, when the manifest was stored too.
PushOf(new, since) ==
  new.pc # "idle" =>
    /\ new.by = "client"
    /\ new.have \subseteq since /\ Closed(new.have)
    /\ new.pc \in Putting => new.cur \in Tree(new.image) /\ Kids(new.cur) \subseteq new.have
    /\ new.pc \in {"settag", "readref", "writeref"} => new.cur \in since
    /\ new.pc = "settag" => new.ref \in Tags
PushInv == \A p \in Pushers : PushOf(push[p], push[p].since)

\* What was stored since a push began is young, and not taken for old by a sweep;
\* and whatever is stored of the image of a push was stored since it began.
SinceOf(new) ==
  new.pc # "idle" =>
    /\ \A d \in new.since : Young(d) /\ d \notin gc.aged
    /\ \A d \in All(new.image) : Present(d) => d \in new.since
SinceInv == \A p \in Pushers : SinceOf(push[p])

QuietInv == gone = {} /\ del.pc = "idle"
Pullable == \A t \in Tags : tag[t] # None => \A d \in All(tag[t]) : Present(d)

\* During a mark: what a walk has reached, it has gone below, or it was written
\* since with everything below it; and of every tag that is not to be read any
\* more the whole image is live or young.
Walked ==
  \A x \in gc.liveM : HasManifest(x) => Kids(x) \subseteq Live \/ \A d \in All(x) : Young(d)
Spared(m) == \A d \in All(m) : d \in Live \/ Young(d)
MarkInv ==
  /\ gc.pc = "tags" => Walked
  /\ gc.pc \in {"tags", "refs"} =>
       \A t \in Tags : tag[t] # None => (gc.pc = "tags" /\ t \in gc.tags) \/ Spared(tag[t])

\* During a sweep: what is old of a tag's image is live; what is about to be removed
\* is old, not live and still there.
SweepInv ==
  gc.pc \in {"blobs", "manifests"} =>
    \A t \in Tags : tag[t] # None => All(tag[t]) \cap gc.aged \subseteq Live
VictimInv ==
  /\ gc.pc \notin {"blobs", "manifests"} => gc.victim = {}
  /\ \A d \in gc.victim : d \in gc.aged /\ d \notin Live /\ Present(d)
  /\ gc.pc = "blobs" => gc.victim \subseteq Blobs
  /\ gc.pc = "manifests" =>
       /\ gc.todo \cup gc.victim \subseteq Manifests /\ gc.todo \cap gc.victim = {}
       /\ \A m \in gc.todo : HasManifest(m)

RepoInv == Pullable /\ MarkInv /\ SweepInv /\ VictimInv
PullInv == TypeInv /\ QuietInv /\ PushInv /\ SinceInv /\ RepoInv

LEMMA AnswerPull ==
  ASSUME TypeInv, NEW p \in Pushers, NEW since, push[p].pc \in Putting,
         PushOf(push[p], since), push[p].cur \in since,
         NEW new, new = Answer(p)[p] \/ new = ThenReferrers(p)[p]
  PROVE  /\ PushOf(new, since)
         /\ new.pc = "idle" \/ (new.image = push[p].image /\ new.since = push[p].since)
<1>1. /\ push[p] \in Push /\ push[p].pc # "idle" /\ push[p].cur \in Manifests /\ ~Promoted(p)
      /\ Closed(push[p].have) /\ Kids(push[p].cur) \subseteq push[p].have
      /\ push[p].have \subseteq since /\ push[p].by = "client" /\ push[p].cur \in Tree(push[p].image)
  BY DEF TypeInv, TypeOK, NamedInv, Named, Putting, PushOf, Promoted
<1>2. CASE new = NoPush
  BY <1>2 DEF NoPush, PushOf
<1>3. CASE new = [push[p] EXCEPT !.pc = "collect", !.have = @ \cup {push[p].cur},
                                 !.cur = None, !.idx = {}]
  <2>1. /\ new.pc = "collect" /\ new.by = "client" /\ new.have = push[p].have \cup {push[p].cur}
        /\ new.image = push[p].image /\ new.since = push[p].since
    BY <1>1, <1>3 DEF Push
  <2>2. new.have \subseteq since /\ Closed(new.have)
    BY <1>1, <2>1 DEF Closed
  <2> QED BY <2>1, <2>2 DEF PushOf, Putting
<1>4. CASE new = [push[p] EXCEPT !.pc = "readref"]
  <2>1. /\ new.pc = "readref" /\ new.by = "client" /\ new.have = push[p].have /\ new.cur = push[p].cur
        /\ new.image = push[p].image /\ new.since = push[p].since
    BY <1>1, <1>4 DEF Push
  <2> QED BY <1>1, <2>1 DEF PushOf
<1> QED BY <1>1, <1>2, <1>3, <1>4, AnswerEffect, ThenReferrersEffect

\* A step of one push that stores nothing and sets no tag.
LEMMA PushOnlyPull ==
  ASSUME PullInv, TypeInv', NEW p \in Pushers,
         \A q \in Pushers \ {p} : push'[q] = push[q],
         PushOf(push'[p], push'[p].since),
         \/ push'[p].pc = "idle"
         \/ /\ push[p].pc # "idle"
            /\ push'[p].image = push[p].image /\ push'[p].since = push[p].since
         \/ push'[p].since = {} /\ \A d \in All(push'[p].image) : ~Present(d),
         UNCHANGED <<blob, man, tag, del, gc, gone>>
  PROVE  PullInv'
<1>1. QuietInv' /\ RepoInv'
  BY DEF PullInv, QuietInv, RepoInv, Pullable, MarkInv, SweepInv, VictimInv, Walked, Spared,
         Live, Present, Young, HasBlob, HasManifest
<1>2. PushInv'
  BY DEF PullInv, PushInv, PushOf
<1>3. SinceInv'
  <2>1. ASSUME NEW q \in Pushers PROVE SinceOf(push[q])'
    <3>1. SinceOf(push[q]) /\ SinceOf(push[p])
      BY DEF PullInv, SinceInv
    <3>2. CASE q # p
      BY <3>1, <3>2 DEF SinceOf, Present, Young, HasBlob, HasManifest
    <3>3. CASE q = p
      BY <3>1, <3>3 DEF SinceOf, Present, Young, HasBlob, HasManifest
    <3> QED BY <3>2, <3>3
  <2> QED BY <2>1 DEF SinceInv
<1> QED BY <1>1, <1>2, <1>3 DEF PullInv

\* The steps of a push that touch no content and no tag.
LEMMA PushStepPull ==
  ASSUME FreshOnly, PullInv, TypeInv', NEW p \in Pushers,
         \/ \E m \in Manifests, t \in Tags \cup {None} : StartPush(p, m, t) \/ StartPromotion(p, m, t)
         \/ \E d \in Digest : Head(p, d)
         \/ \E x \in Manifests : PutManifest(p, x)
         \/ AbortPush(p) \/ CheckImmutableTag(p) \/ ReadReferrers(p) \/ AddReferrer(p)
  PROVE  PullInv'
<1>1. /\ push \in [Pushers -> Push] /\ push[p] \in Push /\ TypeInv
      /\ PushOf(push[p], push[p].since) /\ Named(push[p])
  BY DEF PullInv, TypeInv, TypeOK, PushInv, NamedInv
<1>0. ~Fails
  BY <1>1 DEF FreshOnly, Fails, TypeInv, TypeOK
<1>2. /\ UNCHANGED <<blob, man, tag, del, gc, gone>>
      /\ \A q \in Pushers \ {p} : push'[q] = push[q]
  <2>1. UNCHANGED <<blob, man, tag, del, gc, gone>>
    BY DEF StartPush, StartPromotion, Head, PutManifest, AbortPush, CheckImmutableTag, ReadReferrers,
           AddReferrer
  <2>2. CASE AddReferrer(p)
    BY <1>0, <1>1, <2>1, <2>2, AnswerEffect DEF AddReferrer, WriteFails, Putting
  <2>3. ASSUME NEW m \in Manifests, NEW t, StartPush(p, m, t) \/ StartPromotion(p, m, t)
        PROVE  \A q \in Pushers \ {p} : push'[q] = push[q]
    BY <1>1, <2>3 DEF StartPush, StartPromotion
  <2>4. ASSUME NEW d, Head(p, d) \/ PutManifest(p, d)
        PROVE  \A q \in Pushers \ {p} : push'[q] = push[q]
    BY <1>1, <2>4 DEF Head, PutManifest
  <2>5. CASE AbortPush(p) \/ CheckImmutableTag(p) \/ ReadReferrers(p)
    BY <1>1, <2>1, <2>5 DEF AbortPush, CheckImmutableTag, ReadReferrers
  <2> QED BY <2>1, <2>2, <2>3, <2>4, <2>5
<1>3. PushOf(NoPush, NoPush.since) /\ NoPush.pc = "idle"
  BY DEF PushOf, NoPush
<1>4. ASSUME NEW m \in Manifests, NEW t \in Tags \cup {None}, StartPush(p, m, t) PROVE PullInv'
  <2>1. push'[p] = [NoPush EXCEPT !.pc = "collect", !.image = m, !.ref = t]
    BY <1>1, <1>4 DEF StartPush
  <2>2. /\ push'[p].pc = "collect" /\ push'[p].image = m /\ push'[p].since = {} /\ push'[p].have = {}
        /\ push'[p].by = "client"
    BY <2>1 DEF NoPush
  <2>3. PushOf(push'[p], push'[p].since)
    BY <2>2 DEF PushOf, Putting, Closed
  <2>4. ASSUME NEW d \in All(m) PROVE ~Present(d)
    <3>1. /\ \A x \in Tree(m) : ~HasManifest(x)
          /\ \A b \in TreeBlobs(m) : ~HasBlob(b)
      BY <1>4 DEF StartPush, FreshOnly
    <3>2. Tree(m) \subseteq Manifests /\ TreeBlobs(m) \subseteq Blobs
      BY TreeFacts, ContentAssumption DEF TreeBlobs
    <3> QED BY <3>1, <3>2, DigestAssumption DEF All, Present
  <2> QED BY <1>2, <2>2, <2>3, <2>4, PushOnlyPull
<1>5. ASSUME NEW d \in Digest, Head(p, d) PROVE FALSE
  <2>1. push[p].by = "client"
    BY <1>1, <1>5 DEF Head, PushOf
  <2> QED BY <1>5, <2>1 DEF Head, Found, Promoted, FreshOnly
<1>6. ASSUME NEW x \in Manifests, PutManifest(p, x) PROVE PullInv'
  <2>1. push[p].pc = "collect" /\ push[p].by = "client" /\ Wanted(p) = Tree(push[p].image)
    BY <1>1, <1>6 DEF PutManifest, PushOf, Wanted, Promoted
  <2>2. /\ push'[p].pc \in {"check", "write"} /\ push'[p].cur = x /\ push'[p].by = "client"
        /\ push'[p].have = push[p].have /\ push'[p].since = push[p].since
        /\ push'[p].image = push[p].image
    BY <1>1, <1>6, <2>1 DEF PutManifest, Push
  <2>3. x \in Tree(push[p].image) /\ Kids(x) \subseteq push[p].have
    BY <1>6, <2>1 DEF PutManifest, Kids
  <2>4. PushOf(push'[p], push'[p].since)
    BY <1>1, <2>1, <2>2, <2>3 DEF PushOf
  <2> QED BY <1>2, <2>1, <2>2, <2>4, PushOnlyPull
<1>7. CASE AbortPush(p)
  <2>1. push'[p] = NoPush
    BY <1>1, <1>7 DEF AbortPush
  <2> QED BY <1>2, <1>3, <2>1, PushOnlyPull
<1>8. CASE CheckImmutableTag(p)
  <2>1. CASE push'[p] = NoPush
    BY <1>2, <1>3, <2>1, PushOnlyPull
  <2>2. CASE push'[p] = [push[p] EXCEPT !.pc = "write"]
    <3>1. /\ push[p].pc = "check" /\ push'[p].pc = "write" /\ push'[p].cur = push[p].cur
          /\ push'[p].by = push[p].by /\ push'[p].have = push[p].have
          /\ push'[p].since = push[p].since /\ push'[p].image = push[p].image
      BY <1>1, <1>8, <2>2 DEF CheckImmutableTag, Push
    <3>2. PushOf(push'[p], push'[p].since)
      BY <1>1, <3>1 DEF PushOf, Putting
    <3> QED BY <1>2, <3>1, <3>2, PushOnlyPull
  <2> QED BY <1>1, <1>8, <2>1, <2>2 DEF CheckImmutableTag
<1>9. CASE ReadReferrers(p)
  <2>1. /\ push[p].pc = "readref" /\ push'[p].pc = "writeref" /\ push'[p].cur = push[p].cur
        /\ push'[p].by = push[p].by /\ push'[p].have = push[p].have
        /\ push'[p].since = push[p].since /\ push'[p].image = push[p].image
    BY <1>1, <1>9 DEF ReadReferrers, Push
  <2>2. PushOf(push'[p], push'[p].since)
    BY <1>1, <2>1 DEF PushOf, Putting
  <2> QED BY <1>2, <2>1, <2>2, PushOnlyPull
<1>10. CASE AddReferrer(p)
  <2>1. push[p].pc = "writeref" /\ push[p].pc \in Putting /\ push'[p] = Answer(p)[p]
    BY <1>0, <1>10 DEF AddReferrer, WriteFails, Putting
  <2>2. push[p].cur \in push[p].since
    BY <1>1, <2>1 DEF PushOf
  <2>3. PICK new : new = Answer(p)[p]
    OBVIOUS
  <2>4. /\ PushOf(new, push[p].since)
        /\ new.pc = "idle" \/ (new.image = push[p].image /\ new.since = push[p].since)
    BY <1>1, <2>1, <2>2, <2>3, AnswerPull
  <2>5. PushOf(push'[p], push'[p].since)
    BY <2>1, <2>3, <2>4 DEF PushOf
  <2> QED BY <1>2, <2>1, <2>3, <2>4, <2>5, PushOnlyPull
<1> QED BY <1>4, <1>5, <1>6, <1>7, <1>8, <1>9, <1>10 DEF StartPromotion, FreshOnly

\* Content of the image of a push is stored: it is young, no sweep has chosen it,
\* and a manifest is stored on top of everything it names.
LEMMA StorePull ==
  ASSUME PullInv, TypeInv', NEW p \in Pushers, push[p].pc # "idle",
         NEW d \in All(push[p].image), NEW pushes \in [Pushers -> Push],
         push' = Stored(pushes, d), Refresh(d), gone' = gone \ {d}, UNCHANGED tag,
         \A q \in Pushers \ {p} : pushes[q] = push[q],
         PushOf(pushes[p], push[p].since \cup {d}),
         \/ pushes[p].pc = "idle"
         \/ pushes[p].image = push[p].image /\ pushes[p].since = push[p].since,
         Young(d)', Present(d)',
         \A e \in Digest \ {d} : (Young(e) <=> Young(e)') /\ (Present(e) <=> Present(e)'),
         d \in Manifests => \A e \in All(d) : Young(e)'
  PROVE  PullInv'
<1>1. /\ push[p].image \in Manifests /\ d \in Digest /\ gc \in Gc
      /\ tag \in [Tags -> Manifests \cup {None}]
  <2>1. push[p].image \in Manifests
    BY DEF PullInv, TypeInv, NamedInv, Named
  <2> QED BY <2>1, AllFacts DEF PullInv, TypeInv, TypeOK
<1>2. QuietInv'
  BY DEF PullInv, TypeInv, TypeOK, QuietInv, Refresh, Del
<1>3. /\ gc'.pc = gc.pc /\ gc'.tags = gc.tags /\ gc'.liveM = gc.liveM /\ gc'.liveB = gc.liveB
      /\ gc'.aged = gc.aged \ {d} /\ gc'.todo = gc.todo /\ gc'.victim = gc.victim /\ Live' = Live
  BY <1>1 DEF Refresh, Gc, Live
<1>4. PushInv'
  <2> SUFFICES ASSUME NEW q \in Pushers PROVE PushOf(push'[q], push'[q].since)
    BY DEF PushInv
  <2>1. PushOf(push[q], push[q].since)
    BY DEF PullInv, PushInv
  <2> DEFINE new == Stored(pushes, d)[q]
  <2>2. /\ new.pc = pushes[q].pc /\ new.by = pushes[q].by /\ new.image = pushes[q].image
        /\ new.ref = pushes[q].ref /\ new.have = pushes[q].have /\ new.cur = pushes[q].cur
        /\ new.since = IF pushes[q].pc = "idle" THEN pushes[q].since ELSE pushes[q].since \cup {d}
    BY <1>1, StoredEffect, ZenonT(30)
  <2> HIDE DEF new
  <2>3. PushOf(new, new.since)
    <3>1. CASE q = p
      BY <2>2, <3>1 DEF PushOf
    <3>2. CASE q # p
      BY <2>1, <2>2, <3>2 DEF PushOf
    <3> QED BY <3>1, <3>2
  <2> QED BY <2>3 DEF new
<1>5. SinceInv'
  <2> SUFFICES ASSUME NEW q \in Pushers, push'[q].pc # "idle"
               PROVE  /\ \A e \in push'[q].since : Young(e)' /\ e \notin gc'.aged
                      /\ \A e \in All(push'[q].image) : Present(e)' => e \in push'[q].since
    BY DEF SinceInv, SinceOf
  <2>1. push[q].pc # "idle" /\ SinceOf(push[q])
    <3>1. push'[q].pc = pushes[q].pc
      BY <1>1, StoredEffect
    <3> QED BY <3>1 DEF PullInv, SinceInv
  <2>2. push'[q].image = push[q].image /\ push'[q].since = push[q].since \cup {d}
    <3>1. /\ push'[q].pc = pushes[q].pc /\ push'[q].image = pushes[q].image
          /\ push'[q].since = IF pushes[q].pc = "idle" THEN pushes[q].since
                              ELSE pushes[q].since \cup {d}
      BY <1>1, StoredEffect, ZenonT(30)
    <3>2. pushes[q].image = push[q].image /\ pushes[q].since = push[q].since
      BY <3>1
    <3> QED BY <3>1, <3>2
  <2>3. push[q].since \subseteq Digest /\ push[q].image \in Manifests
    BY <2>1 DEF PullInv, TypeInv, TypeOK, Push, NamedInv, Named
  <2>4. All(push[q].image) \subseteq Digest
    BY <2>3, AllFacts
  <2> QED BY <1>1, <1>3, <2>1, <2>2, <2>3, <2>4 DEF SinceOf
<1>6. ASSUME NEW m \in Manifests, NEW e \in All(m) PROVE e \in Digest
  BY <1>6, AllFacts
<1>7. \A t \in Tags : tag[t] # None => tag[t] \in Manifests
  BY <1>1
<1>8. Pullable'
  BY <1>6, <1>7 DEF PullInv, RepoInv, Pullable
<1>9. ASSUME NEW e \in Digest PROVE (Young(e) => Young(e)') /\ (Present(e) => Present(e)')
  BY <1>9
<1>10. ASSUME NEW x \in Manifests PROVE HasManifest(x) <=> Present(x)
  BY DigestAssumption DEF Present
<1>11. \A x \in Manifests : HasManifest(x)' <=> Present(x)'
  BY DigestAssumption DEF Present
<1>12. MarkInv'
  <2>1. ASSUME Walked PROVE Walked'
    <3> SUFFICES ASSUME NEW x \in gc.liveM, HasManifest(x)', ~(Kids(x) \subseteq Live)
                 PROVE  \A e \in All(x) : Young(e)'
      BY <1>3 DEF Walked
    <3>1. x \in Manifests
      BY <1>1 DEF Gc
    <3>2. CASE x = d
      BY <3>1, <3>2
    <3>3. CASE x # d
      <4>1. HasManifest(x)
        BY <1>10, <1>11, <3>1, <3>3 DEF Digest
      <4> QED BY <1>6, <1>9, <2>1, <3>1, <4>1 DEF Walked
    <3> QED BY <3>2, <3>3
  <2>2. ASSUME NEW m \in Manifests, Spared(m) PROVE Spared(m)'
    BY <1>3, <1>6, <1>9, <2>2 DEF Spared
  <2> QED BY <1>3, <1>7, <2>1, <2>2 DEF PullInv, RepoInv, MarkInv
<1>13. SweepInv'
  BY <1>3 DEF PullInv, RepoInv, SweepInv
<1>14. d \notin gc.victim
  <2>1. Present(d) => d \in push[p].since /\ d \notin gc.aged
    BY DEF PullInv, SinceInv, SinceOf
  <2> QED BY <2>1 DEF PullInv, RepoInv, VictimInv
<1>15. VictimInv'
  <2>1. gc.victim \subseteq Digest
    BY <1>1 DEF Gc
  <2>2. VictimInv
    BY DEF PullInv, RepoInv
  <2>3. \A e \in gc'.victim : e \in gc'.aged /\ e \notin Live' /\ Present(e)'
    BY <1>3, <1>9, <1>14, <2>1, <2>2 DEF VictimInv
  <2>4. gc.pc = "manifests" => \A m \in gc'.todo : HasManifest(m)'
    BY <1>3, <1>9, <1>10, <1>11, <2>2 DEF VictimInv, Digest
  <2> QED BY <1>3, <2>2, <2>3, <2>4 DEF VictimInv
<1> QED BY <1>2, <1>4, <1>5, <1>8, <1>12, <1>13, <1>15 DEF PullInv, RepoInv

LEMMA UploadPull ==
  ASSUME PullInv, TypeInv', NEW p \in Pushers, NEW b \in Blobs, Upload(p, b)
  PROVE  PullInv'
<1>1. /\ push \in [Pushers -> Push] /\ push[p] \in Push /\ push[p].pc = "collect"
      /\ PushOf(push[p], push[p].since) /\ push[p].by = "client" /\ blob \in [Blobs -> Age]
  BY DEF PullInv, TypeInv, TypeOK, PushInv, Upload, PushOf
<1>2. b \in All(push[p].image)
  BY <1>1 DEF Upload, WantedBlobs, Wanted, Promoted, All, TreeBlobs
<1>3. b \notin Manifests
  BY DigestAssumption
<1> DEFINE pushes == [push EXCEPT ![p].have = @ \cup {b}]
<1>4. /\ pushes \in [Pushers -> Push] /\ \A q \in Pushers \ {p} : pushes[q] = push[q]
      /\ pushes[p].image = push[p].image /\ pushes[p].since = push[p].since
  BY <1>1 DEF Push, Digest
<1>5. PushOf(pushes[p], push[p].since \cup {b})
  <2>1. /\ pushes[p].pc = "collect" /\ pushes[p].by = "client"
        /\ pushes[p].have = push[p].have \cup {b}
    BY <1>1 DEF Push
  <2>2. Closed(push[p].have \cup {b})
    BY <1>1, <1>3 DEF PushOf, Closed
  <2> HIDE DEF pushes
  <2> QED BY <1>1, <2>1, <2>2 DEF PushOf, Putting
<1>6. /\ push' = Stored(pushes, b) /\ Refresh(b) /\ gone' = gone \ {b} /\ UNCHANGED tag
  BY DEF Upload
<1>7. /\ Young(b)' /\ Present(b)'
      /\ \A e \in Digest \ {b} : (Young(e) <=> Young(e)') /\ (Present(e) <=> Present(e)')
  BY <1>1 DEF Upload, Young, Present, HasBlob, HasManifest
<1> HIDE DEF pushes
<1> QED BY <1>1, <1>2, <1>3, <1>4, <1>5, <1>6, <1>7, StorePull

\* All of the image that a push is putting is young once its manifest is written.
LEMMA PutWhole ==
  ASSUME PullInv, NEW p \in Pushers, push[p].pc \in Putting
  PROVE  /\ push[p].cur \in Manifests /\ push[p].cur \in All(push[p].image)
         /\ All(push[p].cur) \subseteq push[p].have \cup {push[p].cur}
         /\ push[p].have \subseteq push[p].since
         /\ \A e \in push[p].since : Young(e) /\ e \notin gc.aged
<1>1. /\ push[p].pc # "idle" /\ push[p].cur \in Manifests /\ push[p].image \in Manifests
      /\ PushOf(push[p], push[p].since) /\ SinceOf(push[p])
  BY DEF PullInv, TypeInv, NamedInv, Named, Putting, PushInv, SinceInv
<1> QED BY <1>1, AllLeast, AllFacts DEF PushOf, SinceOf

LEMMA WriteManifestPull ==
  ASSUME PullInv, TypeInv', NEW p \in Pushers, WriteManifest(p)
  PROVE  PullInv'
<1>1. /\ push \in [Pushers -> Push] /\ push[p] \in Push /\ push[p].pc = "write"
      /\ push[p].pc \in Putting /\ push[p].pc # "idle" /\ TypeInv
      /\ PushOf(push[p], push[p].since) /\ push[p].by = "client" /\ man \in [Manifests -> Age]
  BY DEF PullInv, TypeInv, TypeOK, PushInv, WriteManifest, PushOf, Putting
<1>2. PICK d \in Manifests : d = push[p].cur
  BY <1>1, PutWhole
<1>3. d \in All(push[p].image) /\ d \notin Blobs
  BY <1>1, <1>2, PutWhole, DigestAssumption
<1> DEFINE since == push[p].since \cup {d}
           pushes == IF RefOf(p) # None THEN [push EXCEPT ![p].pc = "settag"] ELSE ThenReferrers(p)
<1>4. PushOf(push[p], since) /\ d \in since
  BY <1>1 DEF PushOf, Putting
<1>5. /\ pushes \in [Pushers -> Push] /\ \A q \in Pushers \ {p} : pushes[q] = push[q]
      /\ PushOf(pushes[p], since)
      /\ \/ pushes[p].pc = "idle"
         \/ pushes[p].image = push[p].image /\ pushes[p].since = push[p].since
  <2>1. CASE RefOf(p) # None
    <3> DEFINE new == [push[p] EXCEPT !.pc = "settag"]
    <3>1. /\ pushes = [push EXCEPT ![p] = new] /\ new \in Push /\ pushes[p] = new
          /\ pushes \in [Pushers -> Push] /\ \A q \in Pushers \ {p} : pushes[q] = push[q]
      BY <1>1, <2>1 DEF Push
    <3>2. /\ new.pc = "settag" /\ new.by = push[p].by /\ new.have = push[p].have
          /\ new.cur = push[p].cur /\ new.ref = push[p].ref
          /\ new.image = push[p].image /\ new.since = push[p].since
      BY <1>1 DEF Push
    <3>3. push[p].ref \in Tags
      BY <1>1, <2>1 DEF RefOf, Push
    <3> HIDE DEF new
    <3>4. PushOf(new, since)
      BY <1>1, <1>2, <1>4, <3>2, <3>3 DEF PushOf, Putting
    <3> QED BY <3>1, <3>2, <3>4
  <2>2. CASE RefOf(p) = None
    <3>1. pushes = ThenReferrers(p)
      BY <2>2
    <3>2. /\ ThenReferrers(p) \in [Pushers -> Push]
          /\ \A q \in Pushers \ {p} : ThenReferrers(p)[q] = push[q]
      BY <1>1, ThenReferrersEffect
    <3>3. PICK new : new = ThenReferrers(p)[p]
      OBVIOUS
    <3>4. PICK s : s = since
      OBVIOUS
    <3>5. /\ PushOf(new, s)
          /\ new.pc = "idle" \/ (new.image = push[p].image /\ new.since = push[p].since)
      <4>1. PushOf(push[p], s) /\ push[p].cur \in s
        BY <1>2, <1>4, <3>4
      <4> QED BY <1>1, <3>3, <4>1, AnswerPull
    <3> HIDE DEF since, pushes
    <3> QED BY <3>1, <3>2, <3>3, <3>4, <3>5
  <2> QED BY <2>1, <2>2
<1>6. push' = Stored(pushes, d)
  BY <1>2 DEF WriteManifest
<1>7. /\ Refresh(d) /\ gone' = gone \ {d} /\ UNCHANGED tag
  BY <1>2 DEF WriteManifest
<1>8. /\ Young(d)' /\ Present(d)'
      /\ \A e \in Digest \ {d} : (Young(e) <=> Young(e)') /\ (Present(e) <=> Present(e)')
  BY <1>1, <1>2, <1>3 DEF WriteManifest, Young, Present, HasBlob, HasManifest, Digest
<1>9. \A e \in All(d) : Young(e)'
  BY <1>1, <1>2, <1>8, PutWhole, AllFacts
<1> HIDE DEF pushes
<1> QED BY <1>1, <1>3, <1>5, <1>6, <1>7, <1>8, <1>9, StorePull

\* A tag is set when the whole image is young, and so out of every sweep's reach.
LEMMA SetTagPull ==
  ASSUME PullInv, TypeInv', NEW p \in Pushers, SetTag(p)
  PROVE  PullInv'
<1>1. /\ push \in [Pushers -> Push] /\ push[p] \in Push /\ push[p].pc = "settag"
      /\ push[p].pc \in Putting /\ push[p].pc # "idle" /\ TypeInv
      /\ PushOf(push[p], push[p].since) /\ push[p].by = "client" /\ ~Promoted(p)
      /\ tag \in [Tags -> Manifests \cup {None}]
  BY DEF PullInv, TypeInv, TypeOK, PushInv, SetTag, PushOf, Putting, Promoted
<1>2. PICK m \in Manifests : m = push[p].cur
  BY <1>1, PutWhole
<1>3. PICK ref \in Tags : ref = push[p].ref
  BY <1>1 DEF PushOf
<1>4. \A e \in All(m) : Young(e) /\ e \notin gc.aged
  BY <1>1, <1>2, PutWhole DEF PushOf
<1>5. tag' = [tag EXCEPT ![ref] = m] /\ UNCHANGED <<blob, man, del, gc, gone>>
  BY <1>2, <1>3 DEF SetTag
<1>6. \A t \in Tags : tag'[t] = IF t = ref THEN m ELSE tag[t]
  BY <1>1, <1>5
<1>7. \A e \in All(m) : Present(e)
  BY <1>4 DEF Young, Present, HasBlob, HasManifest
<1>8. QuietInv' /\ VictimInv'
  BY <1>5 DEF PullInv, QuietInv, RepoInv, VictimInv, Live, Present, HasBlob, HasManifest
<1>9. Pullable'
  <2>1. \A e : Present(e)' <=> Present(e)
    BY <1>5 DEF Present, HasBlob, HasManifest
  <2> QED BY <1>6, <1>7, <2>1 DEF PullInv, RepoInv, Pullable
<1>10. SweepInv'
  BY <1>4, <1>5, <1>6 DEF PullInv, RepoInv, SweepInv, Live
<1>11. MarkInv'
  <2>1. (\A x : Spared(x)' <=> Spared(x)) /\ (Walked' <=> Walked)
    BY <1>5 DEF Spared, Walked, Live, Young, HasManifest
  <2>2. Spared(m)
    BY <1>4 DEF Spared
  <2> QED BY <1>5, <1>6, <2>1, <2>2 DEF PullInv, RepoInv, MarkInv
<1>12. PICK new : new = ThenReferrers(p)[p]
  OBVIOUS
<1>13. /\ push' = ThenReferrers(p) /\ \A q \in Pushers \ {p} : push'[q] = push[q]
  BY <1>1, ThenReferrersEffect DEF SetTag
<1>14. /\ PushOf(new, push[p].since)
       /\ new.pc = "idle" \/ (new.image = push[p].image /\ new.since = push[p].since)
  <2>1. push[p].cur \in push[p].since
    BY <1>1 DEF PushOf
  <2> QED BY <1>1, <1>12, <2>1, AnswerPull
<1>15. PushInv'
  <2> SUFFICES ASSUME NEW q \in Pushers PROVE PushOf(push'[q], push'[q].since)
    BY DEF PushInv
  <2>1. PushOf(push[q], push[q].since)
    BY DEF PullInv, PushInv
  <2> QED BY <1>12, <1>13, <1>14, <2>1 DEF PushOf
<1>16. SinceInv'
  <2>1. ASSUME NEW q \in Pushers PROVE SinceOf(push[q])'
    <3>1. SinceOf(push[q]) /\ SinceOf(push[p])
      BY DEF PullInv, SinceInv
    <3> QED BY <1>1, <1>5, <1>12, <1>13, <1>14, <3>1 DEF SinceOf, Present, Young, HasBlob, HasManifest
  <2> QED BY <2>1 DEF SinceInv
<1> QED BY <1>8, <1>9, <1>10, <1>11, <1>15, <1>16 DEF PullInv, RepoInv

\* Of the deletions only those of tags happen.
LEMMA DeletePull ==
  ASSUME FreshOnly, PullInv, TypeInv', DeleteStep
  PROVE  PullInv'
<1>1. \E t \in Tags : DeleteTag(t)
  BY DEF DeleteStep, PullInv, QuietInv, FreshOnly, DeleteBlob, DeleteManifestStart, DeleteManifestRead,
     RemoveReferrer, DeleteManifest, DeleteReferrersIndex, CascadeMark, CascadeCheck, CascadeReap
<1>2. /\ UNCHANGED <<blob, man, push, del, gc, gone>>
      /\ \A u \in Tags : tag'[u] = tag[u] \/ tag'[u] = None
  BY <1>1 DEF DeleteTag, PullInv, TypeInv, TypeOK
<1>3. QuietInv' /\ PushInv' /\ SinceInv' /\ VictimInv'
  BY <1>2 DEF PullInv, QuietInv, PushInv, PushOf, SinceInv, SinceOf, RepoInv, VictimInv, Live, Present,
     Young, HasBlob, HasManifest
<1>4. Pullable'
  BY <1>2 DEF PullInv, RepoInv, Pullable, Present, HasBlob, HasManifest
<1>5. SweepInv'
  BY <1>2 DEF PullInv, RepoInv, SweepInv, Live
<1>6. MarkInv'
  <2>1. (\A x : Spared(x)' <=> Spared(x)) /\ (Walked' <=> Walked)
    BY <1>2 DEF Spared, Walked, Live, Young, HasManifest
  <2> QED BY <1>2, <2>1 DEF PullInv, RepoInv, MarkInv
<1> QED BY <1>3, <1>4, <1>5, <1>6 DEF PullInv, RepoInv

\* What a push in flight relies on does not grow old.
LEMMA GrowOldPull ==
  ASSUME PullInv, TypeInv', GrowOld
  PROVE  PullInv'
<1>1. /\ UNCHANGED <<tag, push, del, gc, gone>> /\ gc.pc \notin {"tags", "refs"}
      /\ blob \in [Blobs -> Age] /\ man \in [Manifests -> Age] /\ push \in [Pushers -> Push]
  BY DEF GrowOld, PullInv, TypeInv, TypeOK
<1>2. /\ \A b \in Blobs : HasBlob(b)' <=> HasBlob(b)
      /\ \A m \in Manifests : HasManifest(m)' <=> HasManifest(m)
  BY <1>1 DEF GrowOld, GrowOldBlob, GrowOldManifest, HasBlob, HasManifest
<1>3. \A e \in Digest : Present(e)' <=> Present(e)
  BY <1>2 DEF Present, Digest
<1>4. ASSUME NEW e \in Digest, Held(e), Young(e) PROVE Young(e)'
  <2>1. CASE e \in Blobs
    BY <1>1, <1>4, <2>1 DEF Young, GrowOld, GrowOldBlob, GrowOldManifest
  <2>2. CASE e \notin Blobs
    BY <1>1, <1>4, <2>2 DEF Young, GrowOld, GrowOldBlob, GrowOldManifest, Digest
  <2> QED BY <2>1, <2>2
<1>5. QuietInv' /\ PushInv'
  BY <1>1 DEF PullInv, QuietInv, PushInv, PushOf
<1>6. SinceInv'
  <2>1. ASSUME NEW q \in Pushers, push[q].pc # "idle" PROVE SinceOf(push[q])'
    <3>1. SinceOf(push[q]) /\ push[q].image \in Manifests /\ push[q].since \subseteq Digest
      BY <1>1, <2>1 DEF PullInv, SinceInv, TypeInv, NamedInv, Named, Push
    <3>2. All(push[q].image) \subseteq Digest
      BY <3>1, AllFacts
    <3> QED BY <1>1, <1>3, <1>4, <2>1, <3>1, <3>2 DEF SinceOf, Held
  <2> QED BY <1>1, <2>1 DEF SinceInv, SinceOf
<1>7. Pullable'
  <2>1. \A t \in Tags : tag[t] # None => All(tag[t]) \subseteq Digest
    BY AllFacts DEF PullInv, TypeInv, TypeOK
  <2> QED BY <1>1, <1>3, <2>1 DEF PullInv, RepoInv, Pullable
<1>8. MarkInv' /\ SweepInv'
  BY <1>1 DEF PullInv, RepoInv, MarkInv, SweepInv, Live
<1>9. VictimInv'
  <2>1. gc.victim \subseteq Digest
    BY DEF PullInv, TypeInv, TypeOK, Gc
  <2> QED BY <1>1, <1>2, <1>3, <2>1 DEF PullInv, RepoInv, VictimInv, Live
<1> QED BY <1>5, <1>6, <1>7, <1>8, <1>9 DEF PullInv, RepoInv

\* A walk reaches what it starts from and what the manifests it reads name, as far
\* as that is not live already.
LEMMA WalkFacts ==
  ASSUME NEW m \in Manifests, NEW live \in SUBSET Manifests
  PROVE  /\ m \in live \cup Walk(m, live) /\ Walk(m, live) \subseteq Manifests
         /\ \A y \in Walk(m, live) : HasManifest(y) => Subs[y] \subseteq live \cup Walk(m, live)
<1>1. m \in live \cup Walk(m, live) /\ Walk(m, live) \subseteq Manifests
  BY DEF Walk
<1>2. ASSUME NEW y \in Walk(m, live), HasManifest(y), NEW z \in Subs[y], z \notin live
      PROVE  z \in Walk(m, live)
  <2>1. y \in Manifests /\ z \in Manifests \ live /\ z \in Children(y)
    BY <1>1, <1>2, ContentAssumption DEF Children
  <2>2. ASSUME NEW X \in SUBSET (Manifests \ live), m \notin live => m \in X,
               \A x \in X : HasManifest(x) => Children(x) \ live \subseteq X
        PROVE  z \in X
    <3>1. y \in X
      BY <2>2 DEF Walk
    <3> QED BY <1>2, <2>1, <2>2, <3>1
  <2> QED BY <2>1, <2>2 DEF Walk
<1> QED BY <1>1, <1>2

\* A step of the collector that removes nothing.
LEMMA CollectorPull ==
  ASSUME PullInv, TypeInv', UNCHANGED <<blob, man, tag, push, del, gone>>,
         \A d \in gc'.aged : d \in gc.aged \/ ~Young(d),
         MarkInv', SweepInv', VictimInv'
  PROVE  PullInv'
<1>1. \A d : (Present(d)' <=> Present(d)) /\ (Young(d)' <=> Young(d))
  BY DEF Present, Young, HasBlob, HasManifest
<1>2. QuietInv' /\ PushInv'
  BY DEF PullInv, QuietInv, PushInv, PushOf
<1>3. Pullable'
  BY <1>1 DEF PullInv, RepoInv, Pullable
<1>4. SinceInv'
  BY <1>1 DEF PullInv, SinceInv, SinceOf
<1> QED BY <1>2, <1>3, <1>4 DEF PullInv, RepoInv

\* The mark of a tag leaves the tag's whole image live, but for what was written
\* during the mark.
LEMMA MarkTagPull ==
  ASSUME FreshOnly, PullInv, TypeInv', NEW t \in Tags, MarkTag(t)
  PROVE  PullInv'
<1>1. /\ gc \in Gc /\ gc.pc = "tags" /\ tag \in [Tags -> Manifests \cup {None}]
      /\ UNCHANGED <<blob, man, tag, push, del, gone>> /\ Walked /\ Pullable /\ VictimInv
      /\ gc.liveM \subseteq Manifests /\ gc.victim = {}
  BY DEF PullInv, TypeInv, TypeOK, MarkTag, RepoInv, MarkInv, VictimInv, Gc
<1> DEFINE walked == IF tag[t] = None THEN {} ELSE Walk(tag[t], gc.liveM)
<1>2. PICK new : new = walked
  OBVIOUS
<1> DEFINE below == UNION {Layers[x] : x \in {y \in new : HasManifest(y)}}
<1>3. gc' = [gc EXCEPT !.tags = @ \ {t}, !.liveM = @ \cup new, !.liveB = @ \cup below]
  BY <1>2 DEF MarkTag, Fails, FreshOnly, TypeInv, TypeOK, PullInv
<1>4. /\ new \subseteq Manifests
      /\ \A y \in new : HasManifest(y) => Subs[y] \subseteq gc.liveM \cup new
      /\ tag[t] # None => tag[t] \in gc.liveM \cup new
  <2>1. tag[t] # None => tag[t] \in Manifests
    BY <1>1
  <2> QED BY <1>1, <1>2, <2>1, WalkFacts
<1>5. /\ gc'.pc = "tags" /\ gc'.tags = gc.tags \ {t} /\ gc'.liveM = gc.liveM \cup new
      /\ gc'.aged = gc.aged /\ gc'.victim = {} /\ Live' = Live \cup new \cup below
  BY <1>1, <1>3 DEF Gc, Live
<1>6. \A d : (Present(d)' <=> Present(d)) /\ (Young(d)' <=> Young(d))
  BY <1>1 DEF Present, Young, HasBlob, HasManifest
<1>7. ASSUME NEW x \in gc'.liveM, HasManifest(x)
      PROVE  Kids(x) \subseteq Live' \/ \A d \in All(x) : Young(d)
  <2>1. CASE x \in gc.liveM
    BY <1>1, <1>5, <1>7, <2>1 DEF Walked
  <2>2. CASE x \in new
    <3>1. Layers[x] \subseteq below
      BY <1>7, <2>2
    <3>2. Subs[x] \subseteq Live'
      BY <1>4, <1>5, <1>7, <2>2 DEF Live
    <3> QED BY <1>5, <3>1, <3>2 DEF Kids
  <2> QED BY <1>5, <2>1, <2>2
<1>8. Walked'
  BY <1>1, <1>6, <1>7 DEF Walked, HasManifest
<1>9. ASSUME tag[t] # None PROVE Spared(tag[t])'
  <2>1. PICK m \in Manifests : m = tag[t]
    BY <1>1, <1>9
  <2> DEFINE Sure(y) == (y \in gc'.liveM /\ Kids(y) \subseteq Live') \/ \A d \in All(y) : Young(d)
             X == {y \in Tree(m) : Sure(y)}
  <2>2. \A x \in Tree(m) : x \in Manifests /\ HasManifest(x)
    <3>1. Tree(m) \subseteq Manifests /\ \A d \in Tree(m) : Present(d)
      BY <1>1, <1>9, <2>1, TreeFacts DEF Pullable, All
    <3> QED BY <3>1, DigestAssumption DEF Present
  <2>3. ASSUME NEW y \in Tree(m), y \in gc'.liveM PROVE Sure(y)
    BY <1>7, <2>2, <2>3
  <2>4. m \in X
    BY <1>4, <1>5, <1>9, <2>1, <2>3, TreeFacts
  <2>5. ASSUME NEW y \in X, NEW z \in Subs[y] PROVE z \in X
    <3>1. z \in Tree(m) /\ y \in Manifests
      BY <2>2, <2>5, TreeFacts
    <3>2. CASE \A d \in All(y) : Young(d)
      <4>1. z \in Tree(y)
        BY <2>5, <3>1, TreeFacts
      <4>2. All(z) \subseteq All(y)
        BY <3>1, <4>1, AllFacts
      <4> QED BY <3>1, <3>2, <4>2
    <3>3. CASE y \in gc'.liveM /\ Kids(y) \subseteq Live'
      <4>1. z \in Live' /\ z \in Manifests
        BY <2>2, <2>5, <3>1, <3>3 DEF Kids
      <4>2. z \in gc'.liveM
        <5>1. gc'.liveB \subseteq Blobs
          BY DEF TypeInv, TypeOK, Gc
        <5> QED BY <4>1, <5>1, DigestAssumption DEF Live
      <4> QED BY <2>3, <3>1, <4>2
    <3> QED BY <2>5, <3>2, <3>3
  <2>6. Tree(m) \subseteq X
    <3>1. X \in SUBSET Manifests
      BY <2>2
    <3> HIDE DEF X
    <3> QED BY <2>4, <2>5, <3>1, TreeLeast
  <2>7. ASSUME NEW d \in All(m) PROVE d \in Live' \/ Young(d)
    <3>1. PICK x \in Tree(m) : d = x \/ d \in Layers[x]
      BY <2>7, AllFacts
    <3>2. Sure(x) /\ x \in Manifests
      BY <2>2, <2>6, <3>1
    <3>3. d = x \/ d \in Kids(x)
      BY <3>1 DEF Kids
    <3>4. d \in All(x)
      BY <3>2, <3>3, AllFacts, TreeFacts
    <3> QED BY <3>2, <3>3, <3>4 DEF Live
  <2> QED BY <1>1, <1>6, <2>1, <2>7 DEF Spared
<1>10. MarkInv'
  <2>1. ASSUME NEW u \in Tags, tag'[u] # None PROVE u \in gc'.tags \/ Spared(tag[u])'
    <3>1. CASE u = t
      BY <1>1, <1>9, <2>1, <3>1
    <3>2. CASE u # t
      <4>1. u \in gc.tags \/ Spared(tag[u])
        BY <1>1, <2>1 DEF PullInv, RepoInv, MarkInv
      <4> QED BY <1>1, <1>5, <1>6, <3>2, <4>1 DEF Spared
    <3> QED BY <3>1, <3>2
  <2> QED BY <1>5, <1>8, <2>1 DEF MarkInv
<1>11. SweepInv' /\ VictimInv'
  BY <1>5 DEF SweepInv, VictimInv
<1> QED BY <1>1, <1>5, <1>10, <1>11, CollectorPull

\* The other steps of the collector.
LEMMA GCPull ==
  ASSUME FreshOnly, PullInv, TypeInv', GCStep
  PROVE  PullInv'
<1>1. /\ gc \in Gc /\ tag \in [Tags -> Manifests \cup {None}]
      /\ blob \in [Blobs -> Age] /\ man \in [Manifests -> Age]
      /\ MarkInv /\ SweepInv /\ VictimInv /\ Pullable /\ faults = 0
  BY DEF PullInv, TypeInv, TypeOK, RepoInv, FreshOnly
<1>2. \A t \in Tags : tag[t] # None => All(tag[t]) \subseteq Digest
  BY <1>1, AllFacts
<1>3. CASE StartGC
  <2>1. UNCHANGED <<blob, man, tag, push, del, gone>>
    BY <1>3 DEF StartGC
  <2>2. gc' = [NoGc EXCEPT !.pc = "tags", !.tags = {t \in Tags : tag[t] # None}]
    BY <1>1, <1>3 DEF StartGC, Fails, FreshOnly
  <2>3. /\ gc'.pc = "tags" /\ gc'.tags = {t \in Tags : tag[t] # None}
        /\ gc'.aged = {} /\ gc'.victim = {} /\ gc'.liveM = {}
    BY <2>2 DEF NoGc
  <2>4. MarkInv' /\ SweepInv' /\ VictimInv'
    BY <2>1, <2>3 DEF MarkInv, Walked, SweepInv, VictimInv
  <2> QED BY <2>1, <2>3, <2>4, CollectorPull
<1>4. CASE MarkReferrers
  <2>1. UNCHANGED <<blob, man, tag, push, del, gone>> /\ gc.pc = "tags" /\ gc.tags = {}
    BY <1>4 DEF MarkReferrers
  <2>2. /\ gc'.pc = "refs" /\ gc'.aged = gc.aged /\ gc'.victim = {} /\ Live \subseteq Live'
    BY <1>1, <1>4, <2>1 DEF MarkReferrers, Gc, Live, VictimInv
  <2>3. MarkInv'
    BY <1>1, <2>1, <2>2 DEF MarkInv, Spared, Young
  <2>4. SweepInv' /\ VictimInv'
    BY <2>2 DEF SweepInv, VictimInv
  <2> QED BY <2>1, <2>2, <2>3, <2>4, CollectorPull
<1>5. CASE StartSweep
  <2>1. UNCHANGED <<blob, man, tag, push, del, gone>> /\ gc.pc = "refs"
    BY <1>5 DEF StartSweep
  <2> DEFINE old == {b \in Blobs : blob[b] = "old"} \cup {m \in Manifests : man[m] = "old"}
  <2>2. gc' = [gc EXCEPT !.pc = "blobs", !.todo = Blobs, !.aged = old]
    BY <1>5 DEF StartSweep
  <2>3. \A d \in old : ~Young(d)
    BY DigestAssumption DEF Young
  <2> HIDE DEF old
  <2>4. gc'.pc = "blobs" /\ gc'.aged = old /\ gc'.victim = {} /\ Live' = Live
    BY <1>1, <2>1, <2>2 DEF Gc, Live, VictimInv
  <2>5. SweepInv'
    BY <1>1, <2>1, <2>3, <2>4 DEF MarkInv, Spared, SweepInv
  <2>6. MarkInv' /\ VictimInv'
    BY <2>4 DEF MarkInv, VictimInv
  <2> QED BY <2>1, <2>3, <2>4, <2>5, <2>6, CollectorPull
<1>6. ASSUME NEW d \in Digest, NEW live, NEW swept \in BOOLEAN, Examine(d, live, swept),
             gc.pc \in {"blobs", "manifests"},
             d \notin live /\ swept => d \in gc.aged /\ d \notin Live /\ Present(d),
             gc.pc = "blobs" => d \in Blobs
      PROVE  PullInv'
  <2>1. UNCHANGED <<blob, man, tag, push, del, gone>> /\ d \in gc.todo /\ gc.victim = {}
    BY <1>6 DEF Examine
  <2>2. /\ gc'.pc = gc.pc /\ gc'.aged = gc.aged /\ Live' = Live /\ gc'.todo = gc.todo \ {d}
        /\ gc'.victim = IF d \notin live /\ swept THEN {d} ELSE {}
    BY <1>1, <1>6 DEF Examine, Gc, Live
  <2>3. MarkInv' /\ SweepInv'
    BY <1>1, <1>6, <2>1, <2>2 DEF MarkInv, SweepInv
  <2>4. \A e : (Present(e)' <=> Present(e)) /\ (HasManifest(e)' <=> HasManifest(e))
    BY <2>1 DEF Present, HasBlob, HasManifest
  <2>5. VictimInv'
    BY <1>1, <1>6, <2>1, <2>2, <2>4 DEF VictimInv
  <2> QED BY <2>1, <2>2, <2>3, <2>5, CollectorPull
<1>7. ASSUME NEW b \in Blobs, ExamineBlob(b) PROVE PullInv'
  <2>1. gc.liveM \subseteq Manifests /\ b \notin gc.liveB => b \notin Live
    BY DigestAssumption DEF Live
  <2> QED BY <1>1, <1>6, <1>7, <2>1 DEF ExamineBlob, Digest, Present, Gc
<1>8. ASSUME NEW m \in Manifests, ExamineManifest(m) PROVE PullInv'
  <2>1. gc.liveB \subseteq Blobs /\ m \notin gc.liveM => m \notin Live
    BY DigestAssumption DEF Live
  <2>2. HasManifest(m) /\ Present(m)
    BY <1>1, <1>8, DigestAssumption DEF ExamineManifest, Examine, VictimInv, Present
  <2> QED BY <1>1, <1>6, <1>8, <2>1, <2>2 DEF ExamineManifest, Digest, Gc
<1>9. CASE CancelWalk \/ StartManifestSweep \/ EndGC
  <2>1. UNCHANGED <<blob, man, tag, push, del, gone>> /\ gc.victim = {}
    BY <1>9 DEF CancelWalk, StartManifestSweep, EndGC, GCDone
  <2>2. CASE EndGC
    <3>1. gc'.pc = "idle" /\ gc'.aged = {} /\ gc'.victim = {}
      BY <2>2 DEF EndGC, NoGc
    <3>2. MarkInv' /\ SweepInv' /\ VictimInv'
      BY <3>1 DEF MarkInv, SweepInv, VictimInv
    <3> QED BY <2>1, <3>1, <3>2, CollectorPull
  <2>3. CASE CancelWalk \/ StartManifestSweep
    <3>1. /\ gc.pc = "blobs" /\ gc'.aged = gc.aged /\ gc'.victim = {} /\ Live' = Live
          /\ \/ gc'.pc = "blobs"
             \/ gc'.pc = "manifests" /\ gc'.todo = {m \in Manifests : HasManifest(m)}
      BY <1>1, <2>3 DEF CancelWalk, StartManifestSweep, Gc, Live
    <3>2. MarkInv' /\ SweepInv'
      BY <1>1, <2>1, <3>1 DEF MarkInv, SweepInv
    <3>3. VictimInv'
      BY <2>1, <3>1 DEF VictimInv, HasManifest
    <3> QED BY <2>1, <3>1, <3>2, <3>3, CollectorPull
  <2> QED BY <1>9, <2>2, <2>3
<1>10. ASSUME NEW d \in Digest, (d \in Blobs /\ SweepBlob(d)) \/ (d \in Manifests /\ SweepManifest(d))
       PROVE  PullInv'
  <2>1. /\ d \in gc.victim /\ d \in gc.aged /\ d \notin Live /\ UNCHANGED <<tag, push, del, gone>>
        /\ gc.pc \in {"blobs", "manifests"}
    BY <1>1, <1>10 DEF SweepBlob, SweepManifest, VictimInv
  <2>2. /\ gc'.pc = gc.pc /\ gc'.aged = gc.aged /\ gc'.victim = {} /\ Live' = Live /\ gc'.todo = gc.todo
    BY <1>1, <1>10 DEF SweepBlob, SweepManifest, Gc, Live
  <2>3. ASSUME NEW e \in Digest, e # d PROVE (Present(e)' <=> Present(e)) /\ (Young(e)' <=> Young(e))
    <3>1. CASE SweepBlob(d) /\ d \in Blobs
      BY <1>1, <2>3, <3>1 DEF SweepBlob, Present, Young, HasBlob, HasManifest
    <3>2. CASE SweepManifest(d) /\ d \in Manifests
      BY <1>1, <2>3, <3>2 DEF SweepManifest, Present, Young, HasBlob, HasManifest, Digest
    <3> QED BY <1>10, <3>1, <3>2
  <2>4. ~Present(d)'
    BY <1>1, <1>10, DigestAssumption DEF SweepBlob, SweepManifest, Present, HasBlob, HasManifest
  <2>5. QuietInv' /\ PushInv'
    BY <2>1 DEF PullInv, QuietInv, PushInv, PushOf
  <2>6. SinceInv'
    <3>1. ASSUME NEW q \in Pushers, push[q].pc # "idle" PROVE SinceOf(push[q])'
      <4>1. SinceOf(push[q]) /\ push[q].image \in Manifests /\ push[q].since \subseteq Digest
        BY <3>1 DEF PullInv, SinceInv, TypeInv, TypeOK, NamedInv, Named, Push
      <4>2. All(push[q].image) \subseteq Digest
        BY <4>1, AllFacts
      <4> QED BY <2>1, <2>2, <2>3, <2>4, <3>1, <4>1, <4>2 DEF SinceOf
    <3> QED BY <2>1, <3>1 DEF SinceInv, SinceOf
  <2>7. Pullable'
    <3>1. ASSUME NEW t \in Tags, tag[t] # None PROVE d \notin All(tag[t])
      BY <1>1, <2>1, <3>1 DEF SweepInv
    <3> QED BY <1>1, <1>2, <2>1, <2>3, <3>1 DEF Pullable
  <2>8. MarkInv' /\ SweepInv'
    BY <1>1, <2>1, <2>2 DEF MarkInv, SweepInv
  <2>9. VictimInv'
    <3>1. gc.pc = "manifests" => \A m \in gc.todo : m \in Manifests /\ m # d /\ HasManifest(m)
      BY <1>1, <2>1 DEF VictimInv
    <3>2. gc.pc = "manifests" => \A m \in gc.todo : HasManifest(m)'
      BY <2>3, <3>1, DigestAssumption DEF Present, Digest
    <3> QED BY <1>1, <2>1, <2>2, <3>1, <3>2 DEF VictimInv
  <2> QED BY <2>5, <2>6, <2>7, <2>8, <2>9 DEF PullInv, RepoInv
<1> QED BY <1>3, <1>4, <1>5, <1>7, <1>8, <1>9, <1>10, MarkTagPull DEF GCStep, Digest

LEMMA PullInit == Init => PullInv
<1> SUFFICES ASSUME Init PROVE PullInv
  OBVIOUS
<1>1. /\ \A p \in Pushers : push[p].pc = "idle"
      /\ \A t \in Tags : tag[t] = None
      /\ gc.pc = "idle" /\ gc.victim = {} /\ gone = {} /\ del.pc = "idle"
  BY DEF Init, NoPush, NoGc, NoDel
<1>2. QuietInv /\ PushInv /\ SinceInv
  BY <1>1 DEF QuietInv, PushInv, PushOf, SinceInv, SinceOf
<1>3. RepoInv
  BY <1>1 DEF RepoInv, Pullable, MarkInv, SweepInv, VictimInv
<1> QED BY <1>2, <1>3, TypeInit DEF PullInv

LEMMA PullStep ==
  ASSUME FreshOnly, PullInv, [Next]_vars
  PROVE  PullInv'
<1>1. TypeInv'
  BY TypeStep DEF PullInv
<1>2. CASE UNCHANGED vars
  BY <1>1, <1>2 DEF vars, PullInv, QuietInv, PushInv, PushOf, SinceInv, SinceOf, RepoInv, Pullable, MarkInv,
     SweepInv, VictimInv, Walked, Spared, Live, Present, Young, HasBlob, HasManifest
<1>3. ASSUME NEW p \in Pushers, PushStep(p) PROVE PullInv'
  <2>1. ~EndPromotion(p) /\ \A t \in Tags : ~SetFallbackTag(p, t)
    BY DEF EndPromotion, SetFallbackTag, Promoted, PullInv, PushInv, PushOf
  <2> QED BY <1>1, <1>3, <2>1, PushStepPull, UploadPull, WriteManifestPull, SetTagPull DEF PushStep
<1> QED BY <1>1, <1>2, <1>3, DeletePull, GCPull, GrowOldPull DEF Next

\* Where clients push only content that is not stored yet and delete only tags, the
\* collector may run beside any number of pushes: between its mark, the look at the
\* age of an item and its removal no push brings back what is about to go, and no tag
\* ever points at an image that lost a manifest or a blob.
THEOREM TagClosedFresh ==
  ASSUME FreshOnly
  PROVE  Spec => []TagClosed
<1>1. PullInv => TagClosed
  <2> SUFFICES ASSUME PullInv, NEW t \in Tags, tag[t] # None
               PROVE  /\ \A x \in Tree(tag[t]) : HasManifest(x)
                      /\ \A b \in TreeBlobs(tag[t]) : HasBlob(b)
    BY DEF TagClosed
  <2>1. tag[t] \in Manifests /\ \A d \in All(tag[t]) : Present(d)
    BY DEF PullInv, TypeInv, TypeOK, RepoInv, Pullable
  <2>2. Tree(tag[t]) \subseteq Manifests /\ TreeBlobs(tag[t]) \subseteq Blobs
    BY <2>1, TreeFacts, ContentAssumption DEF TreeBlobs
  <2> QED BY <2>1, <2>2, DigestAssumption DEF All, Present
<1>2. PullInv /\ [Next]_vars => PullInv'
  BY PullStep
<1> QED BY <1>1, <1>2, PullInit, PTL DEF Spec

------------------------------------------------------------------------------
\* Operations that run one at a time: ~Overlap.  A push under way is the only one,
\* and neither a deletion nor the collector runs beside it or beside the other.
Alone ==
  /\ \A p, q \in Pushers : push[p].pc # "idle" /\ push[q].pc # "idle" => p = q
  /\ (\E p \in Pushers : push[p].pc # "idle") => del.pc = "idle" /\ gc.pc = "idle"
  /\ del.pc = "idle" \/ gc.pc = "idle"

\* What is left of the push of p once its manifest was answered, and before that.
Same(p, new) ==
  /\ new.by = push[p].by /\ new.image = push[p].image /\ new.ref = push[p].ref
  /\ new.have = push[p].have
AnsweredAs(p, new) ==
  \/ new.pc = "idle"
  \/ /\ new.pc = "collect" /\ new.by = push[p].by /\ new.image = push[p].image
     /\ new.ref = push[p].ref /\ new.have = push[p].have \cup {push[p].cur}
PutAs(p, new) ==
  \/ Subject[push[p].cur] = None /\ AnsweredAs(p, new)
  \/ /\ Subject[push[p].cur] # None /\ new.pc = "readref"
     /\ Same(p, new) /\ new.cur = push[p].cur

LEMMA PutShape ==
  ASSUME TypeInv, NEW p \in Pushers, push[p].pc \in Putting
  PROVE  AnsweredAs(p, Answer(p)[p]) /\ PutAs(p, ThenReferrers(p)[p])
<1>1. push \in [Pushers -> Push] /\ push[p] \in Push
  BY DEF TypeInv, TypeOK
<1>2. AnsweredAs(p, Answer(p)[p])
  <2>1. PICK new : new = Answer(p)[p]
    OBVIOUS
  <2>2. CASE new = NoPush
    BY <2>1, <2>2 DEF AnsweredAs, NoPush
  <2>3. CASE new = [push[p] EXCEPT !.pc = "collect", !.have = @ \cup {push[p].cur},
                                   !.cur = None, !.idx = {}]
    BY <1>1, <2>1, <2>3 DEF AnsweredAs, Push
  <2> QED BY <2>1, <2>2, <2>3, AnswerEffect
<1>3. CASE Subject[push[p].cur] = None
  BY <1>2, <1>3 DEF ThenReferrers, PutAs
<1>4. CASE Subject[push[p].cur] # None
  <2>1. PICK new : new = ThenReferrers(p)[p]
    OBVIOUS
  <2>2. new = [push[p] EXCEPT !.pc = "readref"]
    BY <1>1, <1>4, <2>1 DEF ThenReferrers
  <2>3. new.pc = "readref" /\ Same(p, new) /\ new.cur = push[p].cur
    BY <1>1, <2>2 DEF Push, Same
  <2>4. PutAs(p, new)
    BY <1>4, <2>3 DEF PutAs
  <2> QED BY <1>2, <2>1, <2>4
<1> QED BY <1>2, <1>3, <1>4

\* The three steps that follow the manifest, with what becomes of the push.
LEMMA WriteShape ==
  ASSUME TypeInv, NEW p \in Pushers, WriteManifest(p)
  PROVE  /\ \A q \in Pushers \ {p} : push'[q].pc = push[q].pc
         /\ gc'.pc = gc.pc /\ del'.pc = del.pc
         /\ \/ /\ RefOf(p) # None /\ push'[p].pc = "settag"
               /\ Same(p, push'[p]) /\ push'[p].cur = push[p].cur
            \/ RefOf(p) = None /\ PutAs(p, push'[p])
<1>1. /\ push \in [Pushers -> Push] /\ push[p] \in Push /\ push[p].cur \in Manifests
      /\ push[p].pc \in Putting /\ gc \in Gc /\ del \in Del
  BY DEF TypeInv, TypeOK, NamedInv, Named, Putting, WriteManifest
<1>2. PICK d \in Digest : d = push[p].cur
  BY <1>1 DEF Digest
<1> DEFINE pushes == IF RefOf(p) # None THEN [push EXCEPT ![p].pc = "settag"] ELSE ThenReferrers(p)
<1>3. push' = Stored(pushes, d) /\ Refresh(d)
  BY <1>2 DEF WriteManifest
<1>4. /\ pushes \in [Pushers -> Push] /\ \A q \in Pushers \ {p} : pushes[q] = push[q]
      /\ \/ /\ RefOf(p) # None /\ pushes[p].pc = "settag"
            /\ Same(p, pushes[p]) /\ pushes[p].cur = push[p].cur
         \/ RefOf(p) = None /\ PutAs(p, pushes[p])
  <2>1. CASE RefOf(p) # None
    <3>1. pushes = [push EXCEPT ![p].pc = "settag"]
      BY <2>1
    <3> HIDE DEF pushes
    <3>2. pushes \in [Pushers -> Push]
      BY <1>1, <3>1 DEF Push
    <3> QED BY <1>1, <2>1, <3>1, <3>2 DEF Push, Same
  <2>2. CASE RefOf(p) = None
    BY <1>1, <2>2, ThenReferrersEffect, PutShape
  <2> QED BY <2>1, <2>2
<1> HIDE DEF pushes
<1>5. /\ push'[p].pc = pushes[p].pc /\ push'[p].by = pushes[p].by /\ push'[p].image = pushes[p].image
      /\ push'[p].ref = pushes[p].ref /\ push'[p].have = pushes[p].have /\ push'[p].cur = pushes[p].cur
      /\ \A q \in Pushers : push'[q].pc = pushes[q].pc
  BY <1>3, <1>4, StoredEffect
<1>6. gc'.pc = gc.pc /\ del'.pc = del.pc
  BY <1>1, <1>3 DEF Refresh, Gc, Del
<1> QED BY <1>4, <1>5, <1>6 DEF Same, PutAs, AnsweredAs

LEMMA TagShape ==
  ASSUME TypeInv, NEW p \in Pushers, SetTag(p)
  PROVE  (\A q \in Pushers \ {p} : push'[q] = push[q]) /\ PutAs(p, push'[p])
<1>1. push \in [Pushers -> Push] /\ push[p].pc \in Putting
  BY DEF TypeInv, TypeOK, Putting, SetTag
<1> QED BY <1>1, ThenReferrersEffect, PutShape DEF SetTag

LEMMA ReferrerShape ==
  ASSUME TypeInv, NEW p \in Pushers, AddReferrer(p)
  PROVE  (\A q \in Pushers \ {p} : push'[q] = push[q]) /\ AnsweredAs(p, push'[p])
<1>1. push[p].pc \in Putting /\ push \in [Pushers -> Push]
  BY DEF Putting, AddReferrer, TypeInv, TypeOK
<1>2. CASE push' = Answer(p)
  BY <1>1, <1>2, AnswerEffect, PutShape
<1>3. CASE push' = [push EXCEPT ![p] = NoPush]
  BY <1>1, <1>3 DEF AnsweredAs, NoPush
<1> QED BY <1>2, <1>3 DEF AddReferrer

\* A promotion sets a tag: one of the fallback tags it found, or its own at its end.
FallbackTags == {t \in Tags : Cosigned[t] \in Manifests /\ SourceTag[t] \in Manifests}

LEMMA PromotionShape ==
  ASSUME TypeInv, NEW p \in Pushers,
         EndPromotion(p) \/ \E t \in Tags : SetFallbackTag(p, t)
  PROVE  /\ \A q \in Pushers \ {p} : push'[q] = push[q]
         /\ UNCHANGED <<blob, man, refs, del, gc, gone, torn, unlisted, faults>>
         /\ push[p].pc = "collect" /\ push[p].by = "promotion"
         /\ \/ /\ push'[p].pc = "idle" /\ EndPromotion(p)
               /\ \A t \in Tags : tag'[t] = IF t = push[p].ref THEN push[p].image ELSE tag[t]
            \/ /\ push'[p].pc = "collect" /\ Same(p, push'[p])
               /\ \E t \in FallbackTags :
                    /\ SourceTag[t] \in push[p].have
                    /\ t \in push[p].tags \ push'[p].tags
                    /\ tag' = IF HasManifest(SourceTag[t]) THEN [tag EXCEPT ![t] = SourceTag[t]] ELSE tag
<1>1. push \in [Pushers -> Push] /\ push[p] \in Push
  BY DEF TypeInv, TypeOK
<1>2. /\ UNCHANGED <<blob, man, refs, del, gc, gone, torn, unlisted, faults>>
      /\ push[p].pc = "collect" /\ push[p].by = "promotion"
  BY DEF EndPromotion, SetFallbackTag, Promoted
<1>3. CASE EndPromotion(p)
  BY <1>1, <1>2, <1>3 DEF EndPromotion, NoPush
<1>4. ASSUME NEW t \in Tags, SetFallbackTag(p, t)
      PROVE  /\ \A q \in Pushers \ {p} : push'[q] = push[q]
             /\ push'[p].pc = "collect" /\ Same(p, push'[p])
             /\ t \in FallbackTags /\ SourceTag[t] \in push[p].have
             /\ t \in push[p].tags \ push'[p].tags
             /\ tag' = IF HasManifest(SourceTag[t]) THEN [tag EXCEPT ![t] = SourceTag[t]] ELSE tag
  <2>1. push'[p] = [push[p] EXCEPT !.tags = @ \ {t}] /\ \A q \in Pushers \ {p} : push'[q] = push[q]
    BY <1>1, <1>4 DEF SetFallbackTag
  <2>2. None \notin push[p].have
    BY <1>1, NoneAssumption DEF Push, Digest
  <2>3. t \in FallbackTags /\ SourceTag[t] \in push[p].have /\ t \in push[p].tags
    BY <1>4, <2>2, ContentAssumption DEF SetFallbackTag, FallbackTags
  <2> QED BY <1>1, <1>2, <1>4, <2>1, <2>3 DEF SetFallbackTag, Push, Same
<1> QED BY <1>2, <1>3, <1>4

LEMMA UploadShape ==
  ASSUME TypeInv, NEW p \in Pushers, NEW b \in Blobs, Upload(p, b)
  PROVE  /\ \A q \in Pushers \ {p} : push'[q].pc = push[q].pc
         /\ gc'.pc = gc.pc /\ del'.pc = del.pc
         /\ push'[p].pc = "collect" /\ push'[p].by = push[p].by /\ push'[p].image = push[p].image
         /\ push'[p].ref = push[p].ref /\ push'[p].have = push[p].have \cup {b}
<1>1. /\ push \in [Pushers -> Push] /\ push[p] \in Push /\ push[p].pc = "collect"
      /\ gc \in Gc /\ del \in Del
  BY DEF TypeInv, TypeOK, Upload
<1> DEFINE pushes == [push EXCEPT ![p].have = @ \cup {b}]
<1>2. /\ pushes \in [Pushers -> Push] /\ \A q \in Pushers \ {p} : pushes[q] = push[q]
      /\ pushes[p].pc = "collect" /\ pushes[p].by = push[p].by /\ pushes[p].image = push[p].image
      /\ pushes[p].ref = push[p].ref /\ pushes[p].have = push[p].have \cup {b}
  BY <1>1 DEF Push, Digest
<1>3. push' = Stored(pushes, b) /\ Refresh(b) /\ b \in Digest
  BY DEF Upload, Digest
<1> HIDE DEF pushes
<1>4. gc'.pc = gc.pc /\ del'.pc = del.pc
  BY <1>1, <1>3 DEF Refresh, Gc, Del
<1>5. \A q \in Pushers :
        /\ push'[q].pc = pushes[q].pc /\ push'[q].by = pushes[q].by /\ push'[q].image = pushes[q].image
        /\ push'[q].ref = pushes[q].ref /\ push'[q].have = pushes[q].have
  BY <1>2, <1>3, StoredEffect, ZenonT(30)
<1> QED BY <1>2, <1>4, <1>5

\* The steps of a push that change nothing but the push.
LEMMA PlainShape ==
  ASSUME TypeInv, NEW p \in Pushers,
         \/ \E m \in Manifests, t \in Tags \cup {None} : StartPush(p, m, t) \/ StartPromotion(p, m, t)
         \/ \E d \in Digest : Head(p, d)
         \/ \E x \in Manifests : PutManifest(p, x)
         \/ AbortPush(p) \/ CheckImmutableTag(p) \/ ReadReferrers(p)
  PROVE  /\ \A q \in Pushers \ {p} : push'[q] = push[q]
         /\ UNCHANGED <<blob, man, tag, refs, del, gc, gone>>
         /\ push[p].pc = "idle" => MayStart
<1>1. push \in [Pushers -> Push]
  BY DEF TypeInv, TypeOK
<1>2. ASSUME NEW m \in Manifests, NEW t, StartPush(p, m, t) \/ StartPromotion(p, m, t)
      PROVE  \A q \in Pushers \ {p} : push'[q] = push[q]
  BY <1>1, <1>2 DEF StartPush, StartPromotion
<1>3. ASSUME NEW d, Head(p, d) \/ PutManifest(p, d)
      PROVE  \A q \in Pushers \ {p} : push'[q] = push[q]
  BY <1>1, <1>3 DEF Head, PutManifest
<1>4. ASSUME AbortPush(p) \/ CheckImmutableTag(p) \/ ReadReferrers(p)
      PROVE  \A q \in Pushers \ {p} : push'[q] = push[q]
  BY <1>1, <1>4 DEF AbortPush, CheckImmutableTag, ReadReferrers
<1>5. UNCHANGED <<blob, man, tag, refs, del, gc, gone>> /\ (push[p].pc = "idle" => MayStart)
  BY DEF StartPush, StartPromotion, Head, PutManifest, AbortPush, CheckImmutableTag, ReadReferrers
<1> QED BY <1>2, <1>3, <1>4, <1>5

LEMMA PushFrame ==
  ASSUME TypeInv, NEW p \in Pushers, PushStep(p)
  PROVE  /\ \A q \in Pushers \ {p} : push'[q].pc = push[q].pc
         /\ gc'.pc = gc.pc /\ del'.pc = del.pc
         /\ push[p].pc = "idle" => MayStart
<1>1. ASSUME NEW b \in Blobs, Upload(p, b) PROVE push[p].pc # "idle"
  BY <1>1 DEF Upload
<1>2. CASE WriteManifest(p)
  BY <1>2, WriteShape DEF WriteManifest
<1>3. CASE SetTag(p)
  BY <1>3, TagShape DEF SetTag
<1>4. CASE AddReferrer(p)
  BY <1>4, ReferrerShape DEF AddReferrer
<1>5. CASE EndPromotion(p) \/ \E t \in Tags : SetFallbackTag(p, t)
  BY <1>5, PromotionShape
<1> QED BY <1>1, <1>2, <1>3, <1>4, <1>5, UploadShape, PlainShape DEF PushStep

\* Who is at work when a step is taken.
LEMMA AlonePush ==
  ASSUME ~Overlap, TypeInv, Alone, NEW p \in Pushers, PushStep(p)
  PROVE  /\ \A q \in Pushers \ {p} : push[q].pc = "idle" /\ push'[q].pc = "idle"
         /\ gc.pc = "idle" /\ gc'.pc = "idle" /\ del.pc = "idle" /\ del'.pc = "idle"
BY PushFrame DEF Alone, MayStart, PushersIdle

LEMMA AloneDelete ==
  ASSUME ~Overlap, TypeInv, Alone, DeleteStep
  PROVE  /\ UNCHANGED <<push, gc>> /\ gc.pc = "idle"
         /\ \A q \in Pushers : push[q].pc = "idle"
<1>1. UNCHANGED <<push, gc>>
  BY DEF DeleteStep, DeleteTag, DeleteBlob, DeleteManifestStart, DeleteManifestRead, RemoveReferrer,
     DeleteManifest, DeleteReferrersIndex, CascadeMark, CascadeCheck, CascadeReap
<1>2. MayStart \/ del.pc # "idle"
  BY DEF DeleteStep, DeleteTag, DeleteBlob, DeleteManifestStart, DeleteManifestRead, RemoveReferrer,
     DeleteManifest, DeleteReferrersIndex, CascadeMark, CascadeCheck, CascadeReap
<1> QED BY <1>1, <1>2 DEF Alone, MayStart, PushersIdle

LEMMA AloneGC ==
  ASSUME ~Overlap, TypeInv, Alone, GCStep
  PROVE  /\ UNCHANGED <<tag, refs, push, del, gone, torn, unlisted>> /\ del.pc = "idle"
         /\ \A q \in Pushers : push[q].pc = "idle"
<1>1. UNCHANGED <<tag, refs, push, del, gone, torn, unlisted>>
  BY DEF GCStep, StartGC, MarkTag, MarkReferrers, StartSweep, Examine, ExamineBlob, ExamineManifest,
     CancelWalk, SweepBlob, SweepManifest, StartManifestSweep, EndGC
<1>2. MayStart \/ gc.pc # "idle"
  BY DEF GCStep, StartGC, MarkTag, MarkReferrers, StartSweep, ExamineBlob, ExamineManifest,
     CancelWalk, SweepBlob, SweepManifest, StartManifestSweep, EndGC, GCDone
<1> QED BY <1>1, <1>2 DEF Alone, MayStart, PushersIdle

LEMMA AloneStep ==
  ASSUME ~Overlap, TypeInv, Alone, [Next]_vars
  PROVE  Alone'
<1>1. CASE UNCHANGED vars
  BY <1>1 DEF vars, Alone
<1>2. ASSUME NEW p \in Pushers, PushStep(p) PROVE Alone'
  BY <1>2, AlonePush DEF Alone
<1>3. CASE DeleteStep
  BY <1>3, AloneDelete DEF Alone
<1>4. CASE GCStep
  BY <1>4, AloneGC DEF Alone
<1>5. CASE GrowOld
  BY <1>5 DEF GrowOld, Alone
<1> QED BY <1>1, <1>2, <1>3, <1>4, <1>5 DEF Next

LEMMA AloneInit == Init => Alone
BY DEF Init, Alone, NoPush, NoDel, NoGc

------------------------------------------------------------------------------
\* A push that is about to move an immutable tag has seen that the tag is free or
\* points at its image already, and nothing has moved the tag since.
ClaimOf(new) ==
  new.pc # "idle" =>
    /\ new.pc = "check" => new.cur = new.image /\ new.by = "client"
    /\ new.pc = "settag" => new.cur = new.image /\ new.by = "client"
    /\ new.by = "promotion" /\ new.ref \in FallbackTags => new.image = SourceTag[new.ref]
    /\ new.ref \in Immutable /\ (\/ new.by = "promotion"
                                 \/ new.pc \in {"write", "settag"} /\ new.cur = new.image)
         => tag[new.ref] \in {None, new.image}
ClaimInv == \A p \in Pushers : ClaimOf(push[p])
KeptInv == TypeInv /\ Alone /\ ClaimInv
Kept ==
  \A t \in Immutable : tag[t] # None =>
    \/ tag'[t] = tag[t]
    \/ tag'[t] = SourceTag[t] /\ \E p \in Pushers : t \in push[p].tags \ push'[p].tags

LEMMA AnsweredClaim ==
  ASSUME NEW p \in Pushers, NEW new, ClaimOf(push[p]), push[p].pc # "idle", UNCHANGED tag,
         AnsweredAs(p, new) \/ PutAs(p, new)
  PROVE  ClaimOf(new)
BY DEF ClaimOf, AnsweredAs, PutAs, Same, Promoted

LEMMA KeptPush ==
  ASSUME ~Overlap, KeptInv, NEW p \in Pushers, PushStep(p)
  PROVE  ClaimInv' /\ Kept
<1>1. /\ push \in [Pushers -> Push] /\ push[p] \in Push /\ ClaimOf(push[p]) /\ TypeInv
      /\ tag \in [Tags -> Manifests \cup {None}]
      /\ \A q \in Pushers \ {p} : push'[q].pc = "idle"
  BY AlonePush DEF KeptInv, TypeInv, TypeOK, ClaimInv
<1>2. ASSUME ClaimOf(push[p])', UNCHANGED tag
      PROVE  ClaimInv' /\ Kept
  BY <1>1, <1>2 DEF ClaimInv, ClaimOf, Kept
<1>3. ASSUME NEW m \in Manifests, NEW t \in Tags \cup {None}, StartPush(p, m, t) \/ StartPromotion(p, m, t)
      PROVE  ClaimOf(push[p])' /\ UNCHANGED tag
  <2>1. /\ push'[p].pc = "collect" /\ push'[p].image = m /\ push'[p].ref = t /\ UNCHANGED tag
        /\ push'[p].by = "promotion" => (t \in Immutable => tag[t] \in {None, m})
        /\ push'[p].by = "promotion" => (t \in FallbackTags => m = SourceTag[t])
    <3>1. CASE StartPush(p, m, t)
      BY <1>1, <3>1 DEF StartPush, NoPush
    <3>2. CASE StartPromotion(p, m, t)
      BY <1>1, <3>2, NoneAssumption DEF StartPromotion, NoPush, FallbackTags
    <3> QED BY <1>3, <3>1, <3>2
  <2> QED BY <2>1 DEF ClaimOf
<1>4. ASSUME NEW b \in Blobs, Upload(p, b) PROVE ClaimOf(push[p])' /\ UNCHANGED tag
  BY <1>1, <1>4, UploadShape DEF ClaimOf, Upload
<1>5. ASSUME NEW d \in Digest, Head(p, d) PROVE ClaimOf(push[p])' /\ UNCHANGED tag
  <2>1. /\ push'[p].pc = "collect" /\ push'[p].by = push[p].by /\ push'[p].image = push[p].image
        /\ push'[p].ref = push[p].ref /\ push[p].pc = "collect" /\ UNCHANGED tag
    BY <1>1, <1>5 DEF Head, Push
  <2> QED BY <1>1, <2>1 DEF ClaimOf
<1>6. ASSUME NEW x \in Manifests, PutManifest(p, x) PROVE ClaimOf(push[p])' /\ UNCHANGED tag
  <2>1. /\ push'[p].pc = IF x = push[p].image /\ push[p].ref \in Immutable /\ ~Promoted(p)
                         THEN "check" ELSE "write"
        /\ push'[p].by = push[p].by /\ push'[p].image = push[p].image /\ push'[p].cur = x
        /\ push'[p].ref = push[p].ref /\ push[p].pc = "collect" /\ UNCHANGED tag
        /\ push[p].by \in {"client", "promotion"}
    BY <1>1, <1>6 DEF PutManifest, Push
  <2> QED BY <1>1, <2>1 DEF ClaimOf, Promoted
<1>7. CASE AbortPush(p)
  <2>1. push'[p].pc = "idle" /\ UNCHANGED tag
    BY <1>1, <1>7 DEF AbortPush, NoPush
  <2> QED BY <1>2, <2>1 DEF ClaimOf
<1>8. CASE CheckImmutableTag(p)
  <2>1. push[p].pc = "check" /\ push[p].cur = push[p].image /\ push[p].by = "client" /\ RefOf(p) = push[p].ref
    BY <1>1, <1>8 DEF CheckImmutableTag, ClaimOf, RefOf, Promoted
  <2>2. /\ UNCHANGED tag
        /\ \/ push'[p].pc = "idle"
           \/ /\ push'[p].pc = "write" /\ push'[p].by = push[p].by /\ push'[p].image = push[p].image
              /\ push'[p].ref = push[p].ref /\ push'[p].cur = push[p].cur
              /\ tag[push[p].ref] \in {None, push[p].image}
    BY <1>1, <1>8, <2>1 DEF CheckImmutableTag, Push, NoPush
  <2> QED BY <1>2, <2>1, <2>2 DEF ClaimOf
<1>9. CASE ReadReferrers(p)
  <2>1. /\ push'[p].pc = "writeref" /\ push'[p].by = push[p].by /\ push'[p].image = push[p].image
        /\ push'[p].ref = push[p].ref /\ push[p].pc = "readref" /\ UNCHANGED tag
    BY <1>1, <1>9 DEF ReadReferrers, Push
  <2>2. ClaimOf(push[p])'
    BY <1>1, <2>1 DEF ClaimOf
  <2> QED BY <1>2, <2>1, <2>2
<1>10. CASE AddReferrer(p)
  <2>1. UNCHANGED tag /\ push[p].pc # "idle" /\ AnsweredAs(p, push'[p])
    BY <1>1, <1>10, ReferrerShape DEF AddReferrer
  <2>2. PICK new : new = push'[p]
    OBVIOUS
  <2>3. ClaimOf(new)
    BY <1>1, <2>1, <2>2, AnsweredClaim
  <2>4. ClaimOf(push[p])'
    BY <2>1, <2>2, <2>3 DEF ClaimOf
  <2> QED BY <1>2, <2>1, <2>4
<1>11. CASE WriteManifest(p)
  <2>1. UNCHANGED tag /\ push[p].pc = "write"
    BY <1>11 DEF WriteManifest
  <2>2. PICK new : new = push'[p]
    OBVIOUS
  <2>3. ClaimOf(new)
    <3>3. push[p].by \in {"client", "promotion"}
      BY <1>1 DEF Push
    <3>1. CASE RefOf(p) # None /\ new.pc = "settag" /\ Same(p, new) /\ new.cur = push[p].cur
      <4>1. push[p].cur = push[p].image /\ push[p].by = "client" /\ RefOf(p) = push[p].ref
        BY <3>1, <3>3 DEF RefOf, Promoted
      <4> QED BY <1>1, <2>1, <3>1, <4>1 DEF ClaimOf, Same
    <3>2. CASE PutAs(p, new)
      BY <1>1, <2>1, <3>2, AnsweredClaim
    <3> QED BY <1>1, <1>11, <2>2, <3>1, <3>2, WriteShape
  <2>4. ClaimOf(push[p])'
    BY <2>1, <2>2, <2>3 DEF ClaimOf
  <2> QED BY <1>2, <2>1, <2>4
<1>12. CASE SetTag(p)
  <2>1. push[p].pc = "settag" /\ tag' = [tag EXCEPT ![push[p].ref] = push[p].cur]
    BY <1>12 DEF SetTag
  <2>2. push[p].cur = push[p].image /\ (push[p].ref \in Immutable => tag[push[p].ref] \in {None, push[p].image})
    BY <1>1, <2>1 DEF ClaimOf
  <2>3. Kept
    BY <1>1, <2>1, <2>2, ImmutableAssumption DEF Kept
  <2>4. ClaimOf(push[p])'
    <3>1. push'[p].pc \in {"idle", "collect", "readref"} /\ (push'[p].pc # "idle" => push'[p].by # "promotion")
      BY <1>1, <1>12, <2>1, TagShape DEF PutAs, AnsweredAs, Same, ClaimOf
    <3> QED BY <3>1 DEF ClaimOf
  <2> QED BY <1>1, <2>3, <2>4 DEF ClaimInv, ClaimOf
<1>13. CASE EndPromotion(p) \/ \E t \in Tags : SetFallbackTag(p, t)
  <2>1. CASE /\ push'[p].pc = "idle" /\ EndPromotion(p) /\ push[p].by = "promotion"
             /\ push[p].pc = "collect"
             /\ \A t \in Tags : tag'[t] = IF t = push[p].ref THEN push[p].image ELSE tag[t]
    <3>1. push[p].ref \in Immutable => tag[push[p].ref] \in {None, push[p].image}
      BY <1>1, <2>1 DEF ClaimOf
    <3> QED BY <1>1, <2>1, <3>1, ImmutableAssumption DEF Kept, ClaimInv, ClaimOf
  <2>2. ASSUME NEW t \in FallbackTags, t \in push[p].tags \ push'[p].tags,
               tag' = IF HasManifest(SourceTag[t]) THEN [tag EXCEPT ![t] = SourceTag[t]] ELSE tag,
               push'[p].pc = "collect", Same(p, push'[p]), push[p].pc = "collect"
        PROVE  ClaimInv' /\ Kept
    <3>1. \A u \in Tags : tag'[u] = tag[u] \/ (u = t /\ tag'[u] = SourceTag[t])
      BY <1>1, <2>2 DEF FallbackTags
    <3>2. Kept
      BY <2>2, <3>1, ImmutableAssumption DEF Kept
    <3>3. ClaimOf(push[p])'
      BY <1>1, <2>2, <3>1, ImmutableAssumption DEF ClaimOf, Same
    <3> QED BY <1>1, <3>2, <3>3 DEF ClaimInv, ClaimOf
  <2> QED BY <1>1, <1>13, <2>1, <2>2, PromotionShape
<1> QED BY <1>2, <1>3, <1>4, <1>5, <1>6, <1>7, <1>8, <1>9, <1>10, <1>11, <1>12, <1>13 DEF PushStep

LEMMA KeptStep ==
  ASSUME ~Overlap, KeptInv, [Next]_vars
  PROVE  KeptInv' /\ Kept
<1>1. TypeInv' /\ Alone'
  BY TypeStep, AloneStep DEF KeptInv
<1>2. CASE UNCHANGED vars
  BY <1>1, <1>2 DEF vars, KeptInv, ClaimInv, ClaimOf, Kept
<1>3. ASSUME NEW p \in Pushers, PushStep(p)
      PROVE  KeptInv' /\ Kept
  BY <1>1, <1>3, KeptPush DEF KeptInv
<1>4. CASE DeleteStep
  <2>1. UNCHANGED push /\ \A q \in Pushers : push[q].pc = "idle"
    BY <1>4, AloneDelete DEF KeptInv
  <2>2. \A t \in Immutable : tag[t] # None => tag'[t] = tag[t]
    <3>1. ASSUME NEW u \in Tags, DeleteTag(u)
          PROVE  \A t \in Immutable : tag[t] # None => tag'[t] = tag[t]
      BY <3>1, ImmutableAssumption DEF DeleteTag, KeptInv, TypeInv, TypeOK
    <3> QED BY <1>4, <3>1 DEF DeleteStep, DeleteBlob, DeleteManifestStart, DeleteManifestRead,
               RemoveReferrer, DeleteManifest, DeleteReferrersIndex, CascadeMark, CascadeCheck, CascadeReap
  <2> QED BY <1>1, <2>1, <2>2 DEF KeptInv, ClaimInv, ClaimOf, Kept
<1>5. CASE GCStep
  BY <1>1, <1>5, AloneGC DEF KeptInv, ClaimInv, ClaimOf, Kept
<1>6. CASE GrowOld
  BY <1>1, <1>6 DEF GrowOld, KeptInv, ClaimInv, ClaimOf, Kept
<1> QED BY <1>2, <1>3, <1>4, <1>5, <1>6 DEF Next

LEMMA KeptInit == Init => KeptInv
<1> SUFFICES ASSUME Init PROVE KeptInv
  OBVIOUS
<1>1. ClaimInv
  BY DEF Init, ClaimInv, ClaimOf, NoPush
<1> QED BY <1>1, TypeInit, AloneInit DEF KeptInv

\* Where operations run one at a time, an immutable tag that is set is never deleted,
\* and moves only as a fallback tag of what a promotion copies, which the code does not
\* guard: what the check of a push, or the start of a promotion, saw of the tag still
\* holds when the tag is written, many calls later.
THEOREM ImmutableKeptSerial ==
  ASSUME ~Overlap
  PROVE  Spec => ImmutableKept
<1>1. KeptInv /\ [Next]_vars => KeptInv'
  BY KeptStep
<1>2. KeptInv /\ [Next]_vars => [Kept]_vars
  BY KeptStep
<1> QED BY <1>1, <1>2, KeptInit, PTL DEF Spec, ImmutableKept, Kept

------------------------------------------------------------------------------
\* The referrers indexes.  A push that is to list its manifest, and one that has read
\* the index it will write back.
Listing(new) == new.pc \in {"settag", "readref", "writeref"}
ReadOf(new) ==
  new.pc = "writeref" => LET listed == refs[Subject[new.cur]]
                         IN  new.idx \subseteq listed /\ listed \ new.idx \subseteq unlisted
ReadInv == \A p \in Pushers : ReadOf(push[p])

LEMMA PlainPc ==
  ASSUME TypeInv, NEW p \in Pushers,
         \/ \E m \in Manifests, t \in Tags \cup {None} : StartPush(p, m, t) \/ StartPromotion(p, m, t)
         \/ \E d \in Digest : Head(p, d)
         \/ \E x \in Manifests : PutManifest(p, x)
         \/ AbortPush(p) \/ CheckImmutableTag(p) \/ ReadReferrers(p)
  PROVE  \/ /\ push[p].pc \in {"idle", "collect", "check"}
            /\ push'[p].pc \in {"idle", "collect", "check", "write"}
         \/ /\ push[p].pc = "readref" /\ push'[p].pc = "writeref" /\ push'[p].cur = push[p].cur
            /\ LET listed == refs[Subject[push[p].cur]]
               IN  push'[p].idx \subseteq listed /\ listed \ push'[p].idx \subseteq unlisted'
<1>1. push \in [Pushers -> Push] /\ push[p] \in Push
  BY DEF TypeInv, TypeOK
<1>2. ASSUME NEW m \in Manifests, NEW t, StartPush(p, m, t) \/ StartPromotion(p, m, t)
      PROVE  push[p].pc = "idle" /\ push'[p].pc = "collect"
  BY <1>1, <1>2 DEF StartPush, StartPromotion, NoPush
<1>3. ASSUME NEW d, Head(p, d) PROVE push[p].pc = "collect" /\ push'[p].pc = "collect"
  BY <1>1, <1>3 DEF Head, Push
<1>4. ASSUME NEW x, PutManifest(p, x) PROVE push[p].pc = "collect" /\ push'[p].pc \in {"check", "write"}
  BY <1>1, <1>4 DEF PutManifest, Push
<1>5. ASSUME AbortPush(p) PROVE push[p].pc = "collect" /\ push'[p].pc = "idle"
  BY <1>1, <1>5 DEF AbortPush, NoPush
<1>6. ASSUME CheckImmutableTag(p) PROVE push[p].pc = "check" /\ push'[p].pc \in {"idle", "write"}
  BY <1>1, <1>6 DEF CheckImmutableTag, NoPush, Push
<1>7. ASSUME ReadReferrers(p)
      PROVE  /\ push[p].pc = "readref" /\ push'[p].pc = "writeref" /\ push'[p].cur = push[p].cur
             /\ LET listed == refs[Subject[push[p].cur]]
                IN  push'[p].idx \subseteq listed /\ listed \ push'[p].idx \subseteq unlisted'
  <2>1. /\ push[p].pc = "readref"
        /\ \E i \in {refs[Subject[push[p].cur]], {}} :
             /\ push' = [push EXCEPT ![p].idx = i, ![p].pc = "writeref"]
             /\ refs[Subject[push[p].cur]] \ i \subseteq unlisted'
    BY <1>7 DEF ReadReferrers
  <2>2. PICK i \in {refs[Subject[push[p].cur]], {}} :
             /\ push' = [push EXCEPT ![p].idx = i, ![p].pc = "writeref"]
             /\ refs[Subject[push[p].cur]] \ i \subseteq unlisted'
    BY <2>1
  <2>3. push'[p].pc = "writeref" /\ push'[p].cur = push[p].cur /\ push'[p].idx = i
    BY <1>1, <2>2 DEF Push
  <2> QED BY <2>1, <2>2, <2>3
<1> QED BY <1>2, <1>3, <1>4, <1>5, <1>6, <1>7

\* Nobody changes the index between the read and the write of AddReferrer.
LEMMA ReadPush ==
  ASSUME ~Overlap, TypeInv, Alone, ReadInv, NEW p \in Pushers, PushStep(p)
  PROVE  ReadInv'
<1>1. \A q \in Pushers \ {p} : push'[q].pc = "idle"
  BY AlonePush
<1>2. ASSUME push'[p].pc # "writeref" PROVE ReadInv'
  BY <1>1, <1>2 DEF ReadInv, ReadOf
<1>3. ASSUME NEW b \in Blobs, Upload(p, b) PROVE ReadInv'
  BY <1>2, <1>3, UploadShape
<1>4. CASE WriteManifest(p)
  BY <1>2, <1>4, WriteShape DEF PutAs, AnsweredAs
<1>5. CASE SetTag(p)
  BY <1>2, <1>5, TagShape DEF PutAs, AnsweredAs
<1>6. CASE AddReferrer(p)
  BY <1>2, <1>6, ReferrerShape DEF AnsweredAs
<1>8. CASE EndPromotion(p) \/ \E t \in Tags : SetFallbackTag(p, t)
  BY <1>2, <1>8, PromotionShape
<1>7. CASE \/ \E m \in Manifests, t \in Tags \cup {None} : StartPush(p, m, t) \/ StartPromotion(p, m, t)
           \/ \E d \in Digest : Head(p, d)
           \/ \E x \in Manifests : PutManifest(p, x)
           \/ AbortPush(p) \/ CheckImmutableTag(p) \/ ReadReferrers(p)
  <2>1. UNCHANGED refs
    BY <1>7, PlainShape
  <2>2. CASE push'[p].pc # "writeref"
    BY <1>2, <2>2
  <2>3. CASE push'[p].pc = "writeref"
    <3>1. /\ push'[p].cur = push[p].cur
          /\ LET listed == refs[Subject[push[p].cur]]
             IN  push'[p].idx \subseteq listed /\ listed \ push'[p].idx \subseteq unlisted'
      BY <1>7, <2>3, PlainPc
    <3> QED BY <1>1, <2>1, <3>1 DEF ReadInv, ReadOf
  <2> QED BY <2>2, <2>3
<1> QED BY <1>3, <1>4, <1>5, <1>6, <1>7, <1>8 DEF PushStep

\* The collector and the clock add no manifest.
LEMMA NoneAdded ==
  ASSUME TypeInv, GCStep \/ GrowOld
  PROVE  \A m \in Manifests : HasManifest(m)' => HasManifest(m)
<1>1. man \in [Manifests -> Age]
  BY DEF TypeInv, TypeOK
<1>2. CASE GrowOld
  BY <1>1, <1>2 DEF GrowOld, GrowOldBlob, GrowOldManifest, HasManifest
<1>3. ASSUME NEW d \in Manifests, SweepManifest(d)
      PROVE  \A m \in Manifests : HasManifest(m)' => HasManifest(m)
  BY <1>1, <1>3 DEF SweepManifest, HasManifest
<1>4. CASE UNCHANGED man
  BY <1>4 DEF HasManifest
<1> QED BY <1>2, <1>3, <1>4 DEF GCStep, StartGC, MarkTag, MarkReferrers, StartSweep, Examine, ExamineBlob,
           ExamineManifest, CancelWalk, SweepBlob, StartManifestSweep, EndGC

\* A stored manifest with a subject is listed, or a push is about to list it, or it is
\* noted as unlisted; each manifest is listed under its own subject; a deletion has read
\* the index it will write back.
ListedInv ==
  \A r \in Manifests \ unlisted : HasManifest(r) /\ Subject[r] # None =>
    r \in refs[Subject[r]] \/ \E p \in Pushers : push[p].cur = r /\ Listing(push[p])
OwnInv == \A s \in Manifests : \A r \in refs[s] : Subject[r] = s
UnrefInv ==
  del.pc = "unref" =>
    Subject[del.image] \in Manifests /\ del.idx = refs[Subject[del.image]]
CompleteInv == TypeInv /\ Alone /\ ReadInv /\ ListedInv /\ OwnInv /\ UnrefInv

LEMMA CompletePush ==
  ASSUME ~Overlap, CompleteInv, NEW p \in Pushers, PushStep(p)
  PROVE  ListedInv' /\ OwnInv'
<1>1. /\ TypeInv /\ ReadInv /\ OwnInv /\ push[p] \in Push /\ man \in [Manifests -> Age]
      /\ refs \in [Manifests -> SUBSET Manifests] /\ unlisted \in SUBSET Manifests
      /\ \A q \in Pushers \ {p} : push[q].pc = "idle"
  BY AlonePush DEF CompleteInv, TypeInv, TypeOK
<1>2. ASSUME NEW r \in Manifests \ unlisted, HasManifest(r), Subject[r] # None
      PROVE  r \in refs[Subject[r]] \/ (push[p].cur = r /\ Listing(push[p]))
  BY <1>1, <1>2 DEF CompleteInv, ListedInv, Listing
<1>3. ASSUME UNCHANGED <<man, refs>>, unlisted \subseteq unlisted',
             Listing(push[p]) => push'[p].cur = push[p].cur /\ Listing(push'[p])
      PROVE  ListedInv' /\ OwnInv'
  BY <1>1, <1>2, <1>3 DEF ListedInv, OwnInv, HasManifest
<1>4. ASSUME NEW b \in Blobs, Upload(p, b) PROVE ListedInv' /\ OwnInv'
  <2>1. UNCHANGED <<man, refs, unlisted>> /\ push[p].pc = "collect"
    BY <1>4 DEF Upload
  <2> QED BY <1>3, <2>1 DEF Listing
<1>5. CASE WriteManifest(p)
  <2>1. /\ push[p].pc = "write" /\ UNCHANGED <<refs, unlisted>> /\ push[p].cur \in Manifests
        /\ man' = [man EXCEPT ![push[p].cur] = "young"]
    BY <1>1, <1>5 DEF WriteManifest, TypeInv, NamedInv, Named, Putting
  <2>2. ASSUME NEW r \in Manifests \ unlisted, HasManifest(r)', Subject[r] # None, r # push[p].cur
        PROVE  r \in refs[Subject[r]]
    <3>1. HasManifest(r) /\ ~Listing(push[p])
      BY <1>1, <2>1, <2>2 DEF HasManifest, Listing
    <3> QED BY <1>2, <2>2, <3>1
  <2>3. Subject[push[p].cur] # None => push'[p].cur = push[p].cur /\ Listing(push'[p])
    BY <1>1, <1>5, WriteShape DEF Listing, PutAs, Same
  <2> QED BY <1>1, <2>1, <2>2, <2>3 DEF ListedInv, OwnInv
<1>6. CASE SetTag(p)
  <2>1. /\ push[p].pc = "settag" /\ UNCHANGED <<man, refs, unlisted>> /\ push[p].cur \in Manifests
    BY <1>1, <1>6 DEF SetTag, TypeInv, NamedInv, Named, Putting
  <2>2. Subject[push[p].cur] # None => push'[p].cur = push[p].cur /\ Listing(push'[p])
    BY <1>1, <1>6, TagShape DEF Listing, PutAs
  <2> QED BY <1>1, <1>2, <2>1, <2>2 DEF ListedInv, OwnInv, HasManifest
<1>7. CASE AddReferrer(p)
  <2>1. /\ push[p].pc = "writeref" /\ UNCHANGED man /\ push[p].cur \in Manifests
        /\ Subject[push[p].cur] \in Manifests
        /\ push[p].idx \subseteq refs[Subject[push[p].cur]]
        /\ refs[Subject[push[p].cur]] \ push[p].idx \subseteq unlisted
    BY <1>1, <1>7 DEF AddReferrer, TypeInv, NamedInv, Named, Putting, ReadInv, ReadOf
  <2> DEFINE s == Subject[push[p].cur]
  <2>2. \/ refs' = [refs EXCEPT ![s] = push[p].idx \cup {push[p].cur}] /\ unlisted' = unlisted \ refs'[s]
        \/ /\ refs' = refs \/ refs' = [refs EXCEPT ![s] = {}]
           /\ unlisted' = unlisted \cup ((refs[s] \cup {push[p].cur}) \ refs'[s])
    BY <1>7 DEF AddReferrer, WriteIndex, WriteFails
  <2>3. /\ \A u \in Manifests : u # s => refs'[u] = refs[u]
        /\ refs'[s] \subseteq refs[s] \cup {push[p].cur}
    BY <1>1, <2>1, <2>2
  <2>4. OwnInv'
    BY <1>1, <2>1, <2>3 DEF OwnInv
  <2>5. ASSUME NEW r \in Manifests \ unlisted', HasManifest(r)', Subject[r] # None
        PROVE  r \in refs'[Subject[r]]
    <3>1. HasManifest(r) /\ Subject[r] \in Manifests
      BY <2>1, <2>5, ContentAssumption DEF HasManifest
    <3>2. r \in unlisted \/ r = push[p].cur \/ r \in refs[Subject[r]]
      BY <1>2, <2>5, <3>1
    <3>3. r \in unlisted => r \in refs'[s]
      BY <2>2, <2>5
    <3>4. r = push[p].cur => r \in refs'[s]
      BY <1>1, <2>1, <2>2, <2>5
    <3>5. r \in refs[s] => r \in refs'[s]
      BY <1>1, <2>1, <2>2, <2>5, <3>3
    <3> QED BY <2>1, <2>3, <2>4, <3>1, <3>2, <3>3, <3>4, <3>5 DEF OwnInv
  <2> QED BY <2>4, <2>5 DEF ListedInv
<1>8. CASE EndPromotion(p) \/ \E t \in Tags : SetFallbackTag(p, t)
  <2>1. UNCHANGED <<man, refs, unlisted>> /\ push[p].pc = "collect"
    BY <1>1, <1>8, PromotionShape
  <2> QED BY <1>3, <2>1 DEF Listing
<1>9. CASE \/ \E m \in Manifests, t \in Tags \cup {None} : StartPush(p, m, t) \/ StartPromotion(p, m, t)
           \/ \E d \in Digest : Head(p, d)
           \/ \E x \in Manifests : PutManifest(p, x)
           \/ AbortPush(p) \/ CheckImmutableTag(p) \/ ReadReferrers(p)
  <2>1. UNCHANGED <<man, refs>>
    BY <1>1, <1>9, PlainShape
  <2>2. Listing(push[p]) => push'[p].cur = push[p].cur /\ Listing(push'[p])
    BY <1>1, <1>9, PlainPc DEF Listing
  <2>3. unlisted \subseteq unlisted'
    BY <1>9 DEF StartPush, StartPromotion, Head, PutManifest, AbortPush, CheckImmutableTag, ReadReferrers
  <2> QED BY <1>3, <2>1, <2>2, <2>3
<1> QED BY <1>4, <1>5, <1>6, <1>7, <1>8, <1>9 DEF PushStep

\* What a deletion takes out of an index is noted.
LEMMA CompleteDelete ==
  ASSUME ~Overlap, CompleteInv, DeleteStep
  PROVE  ListedInv' /\ OwnInv' /\ UnrefInv' /\ ReadInv'
<1>1. /\ TypeInv /\ OwnInv /\ ListedInv /\ UnrefInv /\ man \in [Manifests -> Age] /\ del \in Del
      /\ refs \in [Manifests -> SUBSET Manifests] /\ unlisted \in SUBSET Manifests
      /\ del.pc # "idle" => del.image \in Manifests
      /\ UNCHANGED push /\ \A q \in Pushers : push[q].pc = "idle"
  BY AloneDelete DEF CompleteInv, TypeInv, TypeOK, NamedInv
<1>2. ReadInv'
  BY <1>1 DEF ReadInv, ReadOf
<1>3. ASSUME \A m \in Manifests : HasManifest(m)' => HasManifest(m),
             \A s \in Manifests : refs'[s] \subseteq refs[s] /\ refs[s] \ refs'[s] \subseteq unlisted',
             unlisted \subseteq unlisted'
      PROVE  ListedInv' /\ OwnInv'
  <2>1. OwnInv'
    BY <1>1, <1>3 DEF OwnInv
  <2>2. ASSUME NEW r \in Manifests \ unlisted', HasManifest(r)', Subject[r] # None
        PROVE  r \in refs'[Subject[r]]
    <3>1. HasManifest(r) /\ r \notin unlisted /\ Subject[r] \in Manifests
      BY <1>3, <2>2, ContentAssumption
    <3>2. r \in refs[Subject[r]]
      BY <1>1, <2>2, <3>1 DEF ListedInv, Listing
    <3> QED BY <1>3, <2>2, <3>1, <3>2
  <2> QED BY <2>1, <2>2 DEF ListedInv
<1>4. ASSUME UNCHANGED <<man, refs, unlisted>> PROVE ListedInv' /\ OwnInv'
  BY <1>3, <1>4 DEF HasManifest
<1>5. ASSUME del'.pc # "unref" PROVE UnrefInv'
  BY <1>5 DEF UnrefInv
<1>6. CASE (\E t \in Tags : DeleteTag(t)) \/ (\E b \in Blobs : DeleteBlob(b))
  <2>1. UNCHANGED <<man, refs, unlisted, del.pc, del.image, del.idx>>
    BY <1>1, <1>6 DEF DeleteTag, DeleteBlob
  <2> QED BY <1>1, <1>2, <1>4, <2>1 DEF UnrefInv
<1>7. ASSUME NEW m \in Manifests, DeleteManifestStart(m) PROVE ListedInv' /\ OwnInv' /\ UnrefInv'
  <2>1. UNCHANGED <<man, refs, unlisted>> /\ del'.pc = "read"
    BY <1>7 DEF DeleteManifestStart, NoDel
  <2> QED BY <1>4, <1>5, <2>1
<1>8. CASE DeleteManifestRead
  <2>1. UNCHANGED <<man, refs, unlisted>> /\ del.image \in Manifests
    BY <1>1, <1>8 DEF DeleteManifestRead
  <2>2. \/ del'.pc = "delete"
        \/ /\ del'.pc = "unref" /\ del'.image = del.image /\ Subject[del.image] # None
           /\ del'.idx = refs[Subject[del.image]]
    BY <1>1, <1>8 DEF DeleteManifestRead, Del
  <2>3. UnrefInv'
    BY <2>1, <2>2, ContentAssumption DEF UnrefInv
  <2> QED BY <1>2, <1>4, <2>1, <2>3
<1>9. CASE RemoveReferrer
  <2> DEFINE s == Subject[del.image]
  <2>1. /\ UNCHANGED man /\ del.pc = "unref" /\ del.image \in Manifests /\ s \in Manifests
        /\ del.idx = refs[s] /\ del'.pc = "delete"
    BY <1>1, <1>9 DEF RemoveReferrer, Del, UnrefInv
  <2>2. \/ refs' = [refs EXCEPT ![s] = refs[s] \ {del.image}] /\ unlisted' = unlisted \cup {del.image}
        \/ /\ refs' = refs \/ refs' = [refs EXCEPT ![s] = {}]
           /\ unlisted' = unlisted \cup (refs[s] \ refs'[s])
    BY <1>9, <2>1 DEF RemoveReferrer, WriteIndex, WriteFails
  <2>3. /\ unlisted \subseteq unlisted'
        /\ \A u \in Manifests : refs'[u] \subseteq refs[u] /\ refs[u] \ refs'[u] \subseteq unlisted'
    BY <1>1, <2>1, <2>2
  <2> QED BY <1>2, <1>3, <1>5, <2>1, <2>3 DEF HasManifest
<1>10. CASE DeleteManifest
  <2>1. UNCHANGED <<refs, unlisted>> /\ del.image \in Manifests /\ del'.pc \in {"idle", "index"}
    BY <1>1, <1>10 DEF DeleteManifest, Del, NoDel
  <2>2. \A m \in Manifests : HasManifest(m)' => HasManifest(m)
    BY <1>1, <1>10, <2>1 DEF DeleteManifest, HasManifest
  <2> QED BY <1>2, <1>3, <1>5, <2>1, <2>2
<1>11. ASSUME NEW s \in Manifests, DropIndex(s)
       PROVE  /\ unlisted \subseteq unlisted'
              /\ \A u \in Manifests : refs'[u] \subseteq refs[u] /\ refs[u] \ refs'[u] \subseteq unlisted'
  BY <1>1, <1>11 DEF DropIndex, WriteIndex
<1>12. CASE DeleteReferrersIndex
  <2>1. UNCHANGED man /\ del.image \in Manifests /\ del'.pc \in {"idle", "mark"}
    BY <1>1, <1>12 DEF DeleteReferrersIndex, Del, NoDel
  <2>2. CASE DropIndex(del.image)
    BY <1>2, <1>3, <1>5, <1>11, <2>1, <2>2 DEF HasManifest
  <2>3. CASE UNCHANGED <<refs, torn, unlisted>>
    BY <1>2, <1>4, <1>5, <2>1, <2>3
  <2> QED BY <1>12, <2>2, <2>3 DEF DeleteReferrersIndex
<1>13. CASE CascadeMark \/ \E x \in Manifests : CascadeCheck(x)
  <2>2. CASE CascadeMark
    <3>1. del'.pc = "cascade"
      BY <1>1, <2>2 DEF CascadeMark, Del
    <3> QED BY <1>2, <1>4, <1>5, <2>2, <3>1 DEF CascadeMark
  <2>1. ASSUME NEW x \in Manifests, CascadeCheck(x) PROVE UNCHANGED <<man, refs, unlisted>> /\ del'.pc # "unref"
    BY <1>1, <2>1 DEF CascadeCheck, Del, NoDel
  <2> QED BY <1>2, <1>4, <1>5, <1>13, <2>1, <2>2
<1>14. ASSUME NEW x \in Manifests, CascadeReap(x) PROVE ListedInv' /\ OwnInv' /\ UnrefInv'
  <2>1. man' = [man EXCEPT ![x] = "absent"] /\ del'.pc \in {"idle", "cascade"}
    BY <1>1, <1>14 DEF CascadeReap, Del, NoDel
  <2>2. \A m \in Manifests : HasManifest(m)' => HasManifest(m)
    BY <1>1, <2>1 DEF HasManifest
  <2>3. CASE DropIndex(x)
    BY <1>3, <1>5, <1>11, <2>1, <2>2, <2>3
  <2>4. CASE UNCHANGED <<refs, torn, unlisted>>
    BY <1>3, <1>5, <2>1, <2>2, <2>4
  <2> QED BY <1>14, <2>3, <2>4 DEF CascadeReap
<1> QED BY <1>2, <1>6, <1>7, <1>8, <1>9, <1>10, <1>12, <1>13, <1>14 DEF DeleteStep

LEMMA CompleteStep ==
  ASSUME ~Overlap, CompleteInv, [Next]_vars
  PROVE  CompleteInv'
<1>1. TypeInv' /\ Alone' /\ TypeInv /\ Alone
  BY TypeStep, AloneStep DEF CompleteInv
<1>2. CASE UNCHANGED vars
  BY <1>1, <1>2 DEF vars, CompleteInv, ReadInv, ReadOf, ListedInv, Listing, OwnInv, UnrefInv, HasManifest
<1>3. ASSUME NEW p \in Pushers, PushStep(p) PROVE CompleteInv'
  <2>1. UnrefInv'
    BY <1>1, <1>3, AlonePush DEF UnrefInv
  <2> QED BY <1>1, <1>3, <2>1, ReadPush, CompletePush DEF CompleteInv
<1>4. CASE DeleteStep
  BY <1>1, <1>4, CompleteDelete DEF CompleteInv
<1>5. CASE GCStep \/ GrowOld
  <2>1. UNCHANGED <<refs, push, del, unlisted>>
    <3>1. CASE GrowOld
      BY <3>1 DEF GrowOld
    <3>2. CASE GCStep
      BY <1>1, <3>2, AloneGC
    <3> QED BY <1>5, <3>1, <3>2
  <2>2. \A m \in Manifests : HasManifest(m)' => HasManifest(m)
    BY <1>1, <1>5, NoneAdded
  <2> QED BY <1>1, <2>1, <2>2 DEF CompleteInv, ReadInv, ReadOf, ListedInv, Listing, OwnInv, UnrefInv
<1> QED BY <1>2, <1>3, <1>4, <1>5 DEF Next

LEMMA CompleteInit == Init => CompleteInv
<1> SUFFICES ASSUME Init PROVE CompleteInv
  OBVIOUS
<1>1. ReadInv /\ ListedInv /\ OwnInv /\ UnrefInv
  BY DEF Init, ReadInv, ReadOf, ListedInv, OwnInv, UnrefInv, NoPush, NoDel, HasManifest
<1> QED BY <1>1, TypeInit, AloneInit DEF CompleteInv

\* Where operations run one at a time, a manifest with a subject is found in the
\* subject's index from the answer to its push on, whatever is collected, promoted or
\* deleted in between: what drops it is a failed call on the index, or a deletion of it
\* or of its subject, and the next push of it lists it again.
THEOREM ReferrersCompleteSerial ==
  ASSUME ~Overlap
  PROVE  Spec => []ReferrersComplete
<1>1. CompleteInv => ReferrersComplete
  BY DEF CompleteInv, ListedInv, ReferrersComplete
<1>2. CompleteInv /\ [Next]_vars => CompleteInv'
  BY CompleteStep
<1> QED BY <1>1, <1>2, CompleteInit, PTL DEF Spec

\* An index lists stored manifests, each under its own subject; a push lists what it
\* has stored; a deletion has taken its manifest out of the index before it removes it,
\* and cascades to nothing an index lists; a sweep spares what an index lists.
IndexInv == \A s \in Manifests : \A r \in refs[s] : HasManifest(r) /\ Subject[r] = s
ListInv == \A p \in Pushers : Listing(push[p]) => HasManifest(push[p].cur)
UnlistInv ==
  /\ del.pc = "unref" => Subject[del.image] \in Manifests /\ del.idx = refs[Subject[del.image]]
  /\ del.pc \in {"delete", "index", "mark", "cascade", "reap"} =>
       \A s \in Manifests : del.image \notin refs[s]
  /\ del.pc \in {"mark", "cascade", "reap"} => refs[del.image] = {}
  /\ del.pc \in {"cascade", "reap"} => \A s \in Manifests : refs[s] \subseteq del.live
  /\ del.pc = "reap" => del.idx \cap del.live = {}
SpareInv ==
  /\ gc.pc \in {"refs", "blobs", "manifests"} => \A s \in Manifests : refs[s] \subseteq gc.liveM
  /\ gc.pc = "manifests" => gc.victim \cap gc.liveM = {}
SoundInv == TypeInv /\ Alone /\ ReadInv /\ IndexInv /\ ListInv /\ UnlistInv /\ SpareInv

LEMMA SoundPush ==
  ASSUME ~Overlap, SoundInv, NEW p \in Pushers, PushStep(p)
  PROVE  IndexInv' /\ ListInv' /\ UnlistInv' /\ SpareInv'
<1>1. /\ TypeInv /\ ReadInv /\ IndexInv /\ ListInv /\ push[p] \in Push /\ man \in [Manifests -> Age]
      /\ refs \in [Manifests -> SUBSET Manifests]
      /\ \A q \in Pushers \ {p} : push'[q].pc = "idle"
  BY AlonePush DEF SoundInv, TypeInv, TypeOK
<1>2. UnlistInv' /\ SpareInv'
  BY AlonePush DEF SoundInv, UnlistInv, SpareInv
<1>3. ASSUME Listing(push'[p]) => HasManifest(push[p].cur)' PROVE ListInv'
  BY <1>1, <1>3 DEF ListInv, Listing
<1>4. ASSUME NEW b \in Blobs, Upload(p, b) PROVE IndexInv' /\ ListInv'
  <2>1. UNCHANGED <<man, refs>> /\ push'[p].pc = "collect"
    BY <1>1, <1>4, UploadShape DEF Upload
  <2> QED BY <1>1, <1>3, <2>1 DEF IndexInv, Listing, HasManifest
<1>5. CASE WriteManifest(p)
  <2>1. /\ push[p].pc = "write" /\ UNCHANGED refs /\ push[p].cur \in Manifests
        /\ man' = [man EXCEPT ![push[p].cur] = "young"]
    BY <1>1, <1>5 DEF WriteManifest, TypeInv, NamedInv, Named, Putting
  <2>2. \A r \in Manifests : HasManifest(r)' <=> HasManifest(r) \/ r = push[p].cur
    BY <1>1, <2>1 DEF HasManifest
  <2>3. Listing(push'[p]) => push'[p].cur = push[p].cur
    BY <1>1, <1>5, WriteShape DEF Listing, PutAs, AnsweredAs, Same, Promoted
  <2>4. IndexInv'
    BY <1>1, <2>1, <2>2 DEF IndexInv
  <2>5. ListInv'
    BY <1>3, <2>1, <2>2, <2>3
  <2> QED BY <1>2, <2>4, <2>5
<1>6. CASE SetTag(p)
  <2>1. /\ push[p].pc = "settag" /\ UNCHANGED <<man, refs>> /\ push[p].cur \in Manifests
        /\ push[p].by \in {"client", "promotion"}
    BY <1>1, <1>6 DEF SetTag, TypeInv, NamedInv, Named, Putting, Push
  <2>2. Listing(push'[p]) => push'[p].cur = push[p].cur /\ Listing(push[p])
    BY <1>1, <1>6, <2>1, TagShape DEF Listing, PutAs, AnsweredAs, Same, Promoted
  <2>3. ListInv'
    BY <1>1, <1>3, <2>1, <2>2 DEF ListInv, HasManifest
  <2> QED BY <1>1, <1>2, <2>1, <2>3 DEF IndexInv, HasManifest
<1>7. CASE AddReferrer(p)
  <2>1. /\ push[p].pc = "writeref" /\ UNCHANGED man /\ push[p].cur \in Manifests
        /\ Subject[push[p].cur] \in Manifests /\ push[p].idx \subseteq refs[Subject[push[p].cur]]
        /\ HasManifest(push[p].cur)
    BY <1>1, <1>7 DEF AddReferrer, TypeInv, NamedInv, Named, Putting, ReadInv, ReadOf, ListInv, Listing
  <2>2. \/ refs' = [refs EXCEPT ![Subject[push[p].cur]] = push[p].idx \cup {push[p].cur}]
        \/ refs' = [refs EXCEPT ![Subject[push[p].cur]] = {}] \/ refs' = refs
    BY <1>7 DEF AddReferrer, WriteIndex, WriteFails
  <2>3. ASSUME NEW s \in Manifests, NEW r \in refs'[s]
        PROVE  r \in refs[s] \/ (r = push[p].cur /\ s = Subject[r])
    BY <1>1, <2>1, <2>2, <2>3
  <2>4. IndexInv'
    BY <1>1, <2>1, <2>3 DEF IndexInv, HasManifest
  <2>5. ~Listing(push'[p])
    BY <1>1, <1>7, ReferrerShape DEF AnsweredAs, Listing, Same, Promoted
  <2> QED BY <1>2, <1>3, <2>4, <2>5
<1>9. CASE EndPromotion(p) \/ \E t \in Tags : SetFallbackTag(p, t)
  <2>1. UNCHANGED <<man, refs>> /\ ~Listing(push'[p])
    BY <1>1, <1>9, PromotionShape DEF Listing
  <2> QED BY <1>1, <1>2, <1>3, <2>1 DEF IndexInv, HasManifest
<1>8. CASE \/ \E m \in Manifests, t \in Tags \cup {None} : StartPush(p, m, t) \/ StartPromotion(p, m, t)
           \/ \E d \in Digest : Head(p, d)
           \/ \E x \in Manifests : PutManifest(p, x)
           \/ AbortPush(p) \/ CheckImmutableTag(p) \/ ReadReferrers(p)
  <2>1. UNCHANGED <<man, refs>>
    BY <1>1, <1>8, PlainShape
  <2>2. Listing(push'[p]) => push'[p].cur = push[p].cur /\ Listing(push[p])
    BY <1>1, <1>8, PlainPc DEF Listing
  <2>3. ListInv'
    BY <1>1, <1>3, <2>1, <2>2 DEF ListInv, HasManifest
  <2> QED BY <1>1, <1>2, <2>1, <2>3 DEF IndexInv, HasManifest
<1> QED BY <1>2, <1>4, <1>5, <1>6, <1>7, <1>8, <1>9 DEF PushStep

\* What an index lists, the referrers keep alive.
LEMMA IndexedAll ==
  ASSUME refs \in [Manifests -> SUBSET Manifests], NEW e,
         \A s \in Manifests : e \notin refs[s], e \in Manifests => refs[e] = {},
         NEW s \in Manifests
  PROVE  refs[s] \subseteq Indexed(e)
<1> SUFFICES ASSUME NEW r \in refs[s] PROVE r \in Indexed(e)
  OBVIOUS
<1>1. s \in {u \in Manifests \ {e} : refs[u] # {} \/ u \in torn} /\ r # e
  OBVIOUS
<1> QED BY <1>1 DEF Indexed

LEMMA SoundDelete ==
  ASSUME ~Overlap, MaxFaults = 0, SoundInv, DeleteStep
  PROVE  IndexInv' /\ ListInv' /\ UnlistInv' /\ SpareInv' /\ ReadInv'
<1>1. /\ TypeInv /\ IndexInv /\ UnlistInv /\ man \in [Manifests -> Age] /\ del \in Del
      /\ refs \in [Manifests -> SUBSET Manifests] /\ tag \in [Tags -> Manifests \cup {None}]
      /\ del.pc # "idle" => del.image \in Manifests
      /\ UNCHANGED <<push, gc>> /\ gc.pc = "idle" /\ \A q \in Pushers : push[q].pc = "idle"
  BY AloneDelete DEF SoundInv, TypeInv, TypeOK, NamedInv
<1>0. ~Fails
  BY <1>1 DEF Fails, TypeInv, TypeOK
<1>2. ListInv' /\ SpareInv' /\ ReadInv'
  BY <1>1 DEF ListInv, Listing, SpareInv, ReadInv, ReadOf
<1>3. CASE UNCHANGED <<man, refs, del>>
  BY <1>1, <1>2, <1>3 DEF IndexInv, UnlistInv, HasManifest
<1>4. ASSUME NEW m \in Manifests, DeleteManifestStart(m) PROVE IndexInv' /\ UnlistInv'
  <2>1. UNCHANGED <<man, refs>> /\ del'.pc = "read"
    BY <1>4 DEF DeleteManifestStart, NoDel
  <2> QED BY <1>1, <2>1 DEF IndexInv, UnlistInv, HasManifest
<1>5. CASE DeleteManifestRead
  <2>1. UNCHANGED <<man, refs>> /\ del.pc = "read" /\ del.image \in Manifests
    BY <1>1, <1>5 DEF DeleteManifestRead
  <2>2. \/ /\ del'.pc = "delete" /\ del'.image = del.image
           /\ ~HasManifest(del.image) \/ Subject[del.image] = None
        \/ /\ del'.pc = "unref" /\ del'.image = del.image /\ Subject[del.image] # None
           /\ del'.idx = refs[Subject[del.image]]
    BY <1>0, <1>1, <1>5 DEF DeleteManifestRead, Del
  <2>3. UnlistInv'
    BY <1>1, <2>1, <2>2, NoneAssumption, ContentAssumption DEF UnlistInv, IndexInv
  <2> QED BY <1>1, <1>2, <2>1, <2>3 DEF IndexInv, HasManifest
<1>6. CASE RemoveReferrer
  <2>1. /\ UNCHANGED man /\ del.pc = "unref" /\ del.image \in Manifests
        /\ del'.pc = "delete" /\ del'.image = del.image
        /\ refs' = [refs EXCEPT ![Subject[del.image]] = refs[Subject[del.image]] \ {del.image}]
        /\ Subject[del.image] \in Manifests
    BY <1>0, <1>1, <1>6 DEF RemoveReferrer, WriteIndex, WriteFails, Del, UnlistInv
  <2>2. /\ \A s \in Manifests : refs'[s] \subseteq refs[s]
        /\ del.image \notin refs'[Subject[del.image]]
    BY <1>1, <2>1
  <2>3. IndexInv'
    BY <1>1, <2>1, <2>2 DEF IndexInv, HasManifest
  <2>4. UnlistInv'
    BY <1>1, <2>1, <2>2 DEF UnlistInv, IndexInv
  <2> QED BY <1>2, <2>3, <2>4
<1>7. CASE DeleteManifest
  <2>1. UNCHANGED refs /\ del.pc = "delete" /\ del.image \in Manifests
    BY <1>1, <1>7 DEF DeleteManifest
  <2>2. \A m \in Manifests : m # del.image => (HasManifest(m)' <=> HasManifest(m))
    BY <1>1, <1>7, <2>1 DEF DeleteManifest, HasManifest
  <2>3. IndexInv'
    BY <1>1, <2>1, <2>2 DEF IndexInv, UnlistInv
  <2>4. del'.pc = "idle" \/ (del'.pc = "index" /\ del'.image = del.image)
    BY <1>1, <1>7 DEF DeleteManifest, NoDel, Del
  <2>5. UnlistInv'
    BY <1>1, <2>1, <2>4 DEF UnlistInv
  <2> QED BY <1>2, <2>3, <2>5
<1>8. CASE DeleteReferrersIndex
  <2>1. /\ UNCHANGED man /\ del.pc = "index" /\ del.image \in Manifests
        /\ refs' = [refs EXCEPT ![del.image] = {}]
    BY <1>0, <1>1, <1>8 DEF DeleteReferrersIndex, DropIndex, WriteIndex
  <2>2. refs'[del.image] = {} /\ \A s \in Manifests : refs'[s] \subseteq refs[s]
    BY <1>1, <2>1
  <2>3. del'.pc = "idle" \/ (del'.pc = "mark" /\ del'.image = del.image)
    BY <1>1, <1>8 DEF DeleteReferrersIndex, NoDel, Del
  <2>4. IndexInv'
    BY <1>1, <2>1, <2>2 DEF IndexInv, HasManifest
  <2>5. UnlistInv'
    BY <1>1, <2>1, <2>2, <2>3 DEF UnlistInv
  <2> QED BY <1>2, <2>4, <2>5
<1>9. CASE CascadeMark
  <2>1. UNCHANGED <<man, refs>> /\ del.pc = "mark" /\ del.image \in Manifests
    BY <1>1, <1>9 DEF CascadeMark
  <2>2. del'.pc = "cascade" /\ del'.image = del.image /\ del'.live = MarkScoped(del.image)
    BY <1>0, <1>1, <1>9 DEF CascadeMark, Del
  <2>3. \A s \in Manifests : refs[s] \subseteq MarkScoped(del.image)
    <3>1. (\A s \in Manifests : del.image \notin refs[s]) /\ refs[del.image] = {}
      BY <1>1, <2>1 DEF UnlistInv
    <3>2. PICK e \in Manifests : e = del.image
      BY <2>1
    <3>3. \A s \in Manifests : refs[s] \subseteq Indexed(e)
      BY <1>1, <3>1, <3>2, IndexedAll
    <3> QED BY <3>2, <3>3 DEF MarkScoped
  <2>4. UnlistInv'
    BY <1>1, <2>1, <2>2, <2>3 DEF UnlistInv
  <2> QED BY <1>1, <1>2, <2>1, <2>4 DEF IndexInv, HasManifest
<1>10. ASSUME NEW x \in Manifests, CascadeCheck(x) PROVE IndexInv' /\ UnlistInv'
  <2>1. UNCHANGED <<man, refs>> /\ del.pc = "cascade" /\ del.image \in Manifests
    BY <1>1, <1>10 DEF CascadeCheck
  <2>2. \/ del'.pc = "idle"
        \/ /\ del'.pc = "reap" /\ del'.image = del.image /\ del'.live = del.live
           /\ del'.idx = {x} /\ x \notin del.live
        \/ del'.pc = "cascade" /\ del'.image = del.image /\ del'.live = del.live
    BY <1>1, <1>10, <2>1 DEF CascadeCheck, Del, NoDel
  <2>3. UnlistInv'
    BY <1>1, <2>1, <2>2 DEF UnlistInv
  <2> QED BY <1>1, <2>1, <2>3 DEF IndexInv, HasManifest
<1>11. ASSUME NEW x \in Manifests, CascadeReap(x) PROVE IndexInv' /\ UnlistInv'
  <2>1. /\ del.pc = "reap" /\ del.image \in Manifests /\ x \in del.idx
        /\ man' = [man EXCEPT ![x] = "absent"]
        /\ refs' = [refs EXCEPT ![x] = {}] \/ refs' = refs
    BY <1>1, <1>11 DEF CascadeReap, DropIndex, WriteIndex
  <2>2. \A s \in Manifests : refs'[s] \subseteq refs[s] /\ x \notin refs[s]
    BY <1>1, <2>1 DEF UnlistInv
  <2>3. IndexInv'
    BY <1>1, <2>1, <2>2 DEF IndexInv, HasManifest
  <2>4. del'.pc = "idle" \/ (del'.pc = "cascade" /\ del'.image = del.image /\ del'.live = del.live)
    BY <1>1, <1>11 DEF CascadeReap, Del, NoDel
  <2>5. UnlistInv'
    BY <1>1, <2>1, <2>2, <2>4 DEF UnlistInv
  <2> QED BY <2>3, <2>5
<1> QED BY <1>2, <1>3, <1>4, <1>5, <1>6, <1>7, <1>8, <1>9, <1>10, <1>11 DEF DeleteStep, DeleteTag, DeleteBlob

LEMMA SoundGC ==
  ASSUME ~Overlap, MaxFaults = 0, SoundInv, GCStep
  PROVE  IndexInv' /\ ListInv' /\ UnlistInv' /\ SpareInv' /\ ReadInv'
<1>1. /\ TypeInv /\ IndexInv /\ SpareInv /\ man \in [Manifests -> Age] /\ gc \in Gc /\ faults = 0
      /\ refs \in [Manifests -> SUBSET Manifests]
      /\ UNCHANGED <<refs, push, del>> /\ del.pc = "idle" /\ \A q \in Pushers : push[q].pc = "idle"
  BY AloneGC DEF SoundInv, TypeInv, TypeOK
<1>0. ~Fails
  BY <1>1 DEF Fails
<1>2. ListInv' /\ UnlistInv' /\ ReadInv'
  BY <1>1 DEF ListInv, Listing, UnlistInv, ReadInv, ReadOf
<1>3. CASE UNCHANGED man
  <2>1. IndexInv'
    BY <1>1, <1>3 DEF IndexInv, HasManifest
  <2>2. SpareInv'
    <3>1. CASE StartGC
      <4>1. gc' = [NoGc EXCEPT !.pc = "tags", !.tags = {t \in Tags : tag[t] # None}]
        BY <1>0, <3>1 DEF StartGC
      <4>2. gc'.pc = "tags"
        BY <4>1 DEF NoGc
      <4> QED BY <4>2 DEF SpareInv
    <3>2. ASSUME NEW t \in Tags, MarkTag(t) PROVE SpareInv'
      <4>1. gc'.pc = "tags"
        BY <1>1, <3>2 DEF MarkTag, Gc
      <4> QED BY <4>1 DEF SpareInv
    <3>3. CASE MarkReferrers
      <4>1. gc'.pc = "refs" /\ gc'.liveM = gc.liveM \cup Indexed(None)
        BY <1>0, <1>1, <3>3 DEF MarkReferrers, Gc
      <4>2. \A s \in Manifests : refs[s] \subseteq Indexed(None)
        <5>1. \A s \in Manifests : None \notin refs[s]
          BY <1>1, NoneAssumption
        <5> QED BY <1>1, <5>1, NoneAssumption, IndexedAll
      <4> QED BY <1>1, <4>1, <4>2 DEF SpareInv
    <3>4. CASE StartSweep
      <4>1. gc.pc = "refs" /\ gc'.pc = "blobs" /\ gc'.liveM = gc.liveM
        BY <1>1, <3>4 DEF StartSweep, Gc
      <4> QED BY <1>1, <4>1 DEF SpareInv
    <3>5. ASSUME NEW d, ExamineBlob(d) \/ ExamineManifest(d) PROVE SpareInv'
      <4>1. /\ gc.pc \in {"blobs", "manifests"} /\ gc'.pc = gc.pc /\ gc'.liveM = gc.liveM
            /\ gc.pc = "manifests" => gc'.victim = {} \/ (gc'.victim = {d} /\ d \notin gc.liveM)
        BY <1>1, <3>5 DEF ExamineBlob, ExamineManifest, Examine, Gc
      <4> QED BY <1>1, <4>1 DEF SpareInv
    <3>6. ASSUME NEW d, SweepBlob(d) \/ SweepManifest(d) PROVE SpareInv'
      <4>1. /\ gc.pc \in {"blobs", "manifests"} /\ gc'.pc = gc.pc /\ gc'.liveM = gc.liveM /\ gc'.victim = {}
        BY <1>1, <3>6 DEF SweepBlob, SweepManifest, Gc
      <4> QED BY <1>1, <4>1 DEF SpareInv
    <3>7. CASE CancelWalk \/ StartManifestSweep
      <4>1. /\ gc.pc = "blobs" /\ gc'.pc \in {"blobs", "manifests"} /\ gc'.liveM = gc.liveM /\ gc'.victim = {}
        BY <1>1, <3>7 DEF CancelWalk, StartManifestSweep, Gc
      <4> QED BY <1>1, <4>1 DEF SpareInv
    <3>8. CASE EndGC
      BY <3>8 DEF EndGC, NoGc, SpareInv
    <3> QED BY <3>1, <3>2, <3>3, <3>4, <3>5, <3>6, <3>7, <3>8 DEF GCStep
  <2> QED BY <1>2, <2>1, <2>2
<1>4. ASSUME NEW m \in Manifests, SweepManifest(m) PROVE IndexInv' /\ SpareInv'
  <2>1. /\ gc.pc = "manifests" /\ m \in gc.victim /\ gc'.pc = gc.pc /\ gc'.liveM = gc.liveM /\ gc'.victim = {}
        /\ man' = [man EXCEPT ![m] = "absent"]
    BY <1>1, <1>4 DEF SweepManifest, Gc
  <2>2. \A s \in Manifests : m \notin refs[s]
    BY <1>1, <2>1 DEF SpareInv
  <2> QED BY <1>1, <2>1, <2>2 DEF IndexInv, SpareInv, HasManifest
<1> QED BY <1>2, <1>3, <1>4 DEF GCStep, StartGC, MarkTag, MarkReferrers, StartSweep, Examine, ExamineBlob,
           ExamineManifest, CancelWalk, SweepBlob, StartManifestSweep, EndGC

LEMMA SoundStep ==
  ASSUME ~Overlap, MaxFaults = 0, SoundInv, [Next]_vars
  PROVE  SoundInv'
<1>1. TypeInv' /\ Alone' /\ TypeInv /\ Alone
  BY TypeStep, AloneStep DEF SoundInv
<1>2. CASE UNCHANGED vars
  BY <1>1, <1>2 DEF vars, SoundInv, ReadInv, ReadOf, IndexInv, ListInv, Listing, UnlistInv, SpareInv, HasManifest
<1>3. ASSUME NEW p \in Pushers, PushStep(p) PROVE SoundInv'
  BY <1>1, <1>3, ReadPush, SoundPush DEF SoundInv
<1>4. CASE GrowOld
  <2>1. UNCHANGED <<refs, push, del, gc, unlisted>>
    BY <1>4 DEF GrowOld
  <2>2. \A m \in Manifests : HasManifest(m) => HasManifest(m)'
    BY <1>4 DEF GrowOld, GrowOldBlob, GrowOldManifest, HasManifest, SoundInv, TypeInv, TypeOK
  <2>3. IndexInv'
    <3>1. \A s \in Manifests : refs[s] \subseteq Manifests
      BY <1>1 DEF TypeInv, TypeOK
    <3> QED BY <2>1, <2>2, <3>1 DEF SoundInv, IndexInv
  <2>4. ListInv'
    <3>1. ASSUME NEW p \in Pushers, Listing(push[p]) PROVE push[p].cur \in Manifests
      BY <1>1, <3>1 DEF TypeInv, NamedInv, Named, Putting, Listing
    <3> QED BY <2>1, <2>2, <3>1 DEF SoundInv, ListInv, Listing
  <2> QED BY <1>1, <2>1, <2>3, <2>4 DEF SoundInv, ReadInv, ReadOf, UnlistInv, SpareInv
<1> QED BY <1>1, <1>2, <1>3, <1>4, SoundDelete, SoundGC DEF Next, SoundInv

LEMMA SoundInit == Init => SoundInv
<1> SUFFICES ASSUME Init PROVE SoundInv
  OBVIOUS
<1>1. ReadInv /\ ListInv /\ IndexInv
  BY DEF Init, ReadInv, ReadOf, ListInv, Listing, IndexInv, NoPush
<1>2. UnlistInv /\ SpareInv
  BY DEF Init, UnlistInv, SpareInv, NoDel, NoGc
<1> QED BY <1>1, <1>2, TypeInit, AloneInit DEF SoundInv

\* Where operations run one at a time and no read fails, an index never lists a
\* manifest that is gone: neither a deletion, nor its cascade to sub-manifests, nor
\* the collector removes a manifest that some index still lists.
THEOREM ReferrersSoundSerial ==
  ASSUME ~Overlap, MaxFaults = 0
  PROVE  Spec => []ReferrersSound
<1>1. SoundInv => ReferrersSound
  BY DEF SoundInv, IndexInv, ReferrersSound
<1>2. SoundInv /\ [Next]_vars => SoundInv'
  BY SoundStep
<1> QED BY <1>1, <1>2, SoundInit, PTL DEF Spec

------------------------------------------------------------------------------
\* The collector leaves no garbage.  What the tags reach through manifests the mark
\* has found live: a sweep removes none of those, so it stays what the tags reach
\* while other manifests go.
Roots == {tag[t] : t \in Tags} \ {None}
ThroughLive ==
  {x \in Manifests : \A X \in SUBSET Manifests :
     (Roots \subseteq X /\ \A y \in X : y \in gc.liveM /\ HasManifest(y) => Children(y) \subseteq X)
     => x \in X}

\* What is live is reached, or kept by an index; what was old when the sweep began and
\* is still there is live, or the sweep has yet to come to it.
MarkedInv ==
  gc.pc # "idle" =>
    /\ gc.liveM \subseteq ThroughLive \cup Indexed(None)
    /\ \A b \in gc.liveB : \E x \in ThroughLive : b \in Layers[x]
LeftInv ==
  /\ gc.pc = "blobs" =>
       \A b \in Blobs : b \in gc.aged /\ HasBlob(b) => b \in gc.todo \cup gc.victim \cup gc.liveB \/ gc.cut
  /\ gc.pc = "manifests" =>
       /\ \A b \in Blobs : b \in gc.aged /\ HasBlob(b) => b \in gc.liveB \/ gc.cut
       /\ \A m \in Manifests :
            m \in gc.aged /\ HasManifest(m) => m \in gc.todo \cup gc.victim \cup gc.liveM
       /\ gc.victim \cap gc.liveM = {}
  /\ \A d, e \in gc.victim : d = e
CollectInv == TypeInv /\ Alone /\ MarkedInv /\ LeftInv

LEMMA ThroughMono ==
  ASSUME UNCHANGED tag, gc.liveM \subseteq gc'.liveM,
         \A y \in gc.liveM : HasManifest(y) => HasManifest(y)'
  PROVE  ThroughLive \subseteq ThroughLive'
<1> SUFFICES ASSUME NEW x \in ThroughLive, NEW X \in SUBSET Manifests, Roots' \subseteq X,
                    \A y \in X : y \in gc'.liveM /\ HasManifest(y)' => Children(y) \subseteq X
             PROVE  x \in Manifests /\ x \in X
  BY DEF ThroughLive
<1>1. Roots \subseteq X
  BY DEF Roots
<1>2. \A y \in X : y \in gc.liveM /\ HasManifest(y) => Children(y) \subseteq X
  OBVIOUS
<1> QED BY <1>1, <1>2 DEF ThroughLive

LEMMA MarkedKeep ==
  ASSUME MarkedInv, gc.pc # "idle", UNCHANGED <<tag, refs, torn>>,
         gc'.liveM = gc.liveM, gc'.liveB = gc.liveB,
         \A y \in gc.liveM : HasManifest(y) => HasManifest(y)'
  PROVE  MarkedInv'
<1>1. ThroughLive \subseteq ThroughLive'
  BY ThroughMono
<1>2. Indexed(None)' = Indexed(None)
  BY DEF Indexed
<1> QED BY <1>1, <1>2 DEF MarkedInv

LEMMA WalkChildren ==
  ASSUME NEW m \in Manifests, NEW live \in SUBSET Manifests, NEW y \in Walk(m, live), HasManifest(y)
  PROVE  Children(y) \ live \subseteq Walk(m, live)
<1> SUFFICES ASSUME NEW z \in Children(y) \ live PROVE z \in Walk(m, live)
  OBVIOUS
<1>1. y \in Manifests /\ z \in Manifests \ live
  BY ContentAssumption DEF Children, Walk
<1>2. ASSUME NEW X \in SUBSET (Manifests \ live), m \notin live => m \in X,
             \A x \in X : HasManifest(x) => Children(x) \ live \subseteq X
      PROVE  z \in X
  <2>1. y \in X
    BY <1>2 DEF Walk
  <2> QED BY <1>1, <1>2, <2>1
<1> QED BY <1>1, <1>2 DEF Walk

\* The walk of a tag finds nothing the tags do not reach.
LEMMA MarkTagMarked ==
  ASSUME TypeInv, MarkedInv, NEW t \in Tags, MarkTag(t)
  PROVE  MarkedInv'
<1>1. /\ gc \in Gc /\ gc.pc = "tags" /\ tag \in [Tags -> Manifests \cup {None}]
      /\ UNCHANGED <<man, tag, refs, torn>> /\ gc.liveM \in SUBSET Manifests
      /\ \A y : HasManifest(y)' <=> HasManifest(y)
  BY DEF TypeInv, TypeOK, MarkTag, Gc, HasManifest
<1>2. Indexed(None)' = Indexed(None) /\ Roots' = Roots
  BY <1>1 DEF Indexed, Roots
<1>3. ASSUME NEW new \in SUBSET Manifests, NEW layers,
             gc'.liveM = gc.liveM \cup new, gc'.liveB = gc.liveB \cup layers,
             new \subseteq ThroughLive', \A b \in layers : \E x \in new : b \in Layers[x]
      PROVE  MarkedInv'
  <2>1. ThroughLive \subseteq ThroughLive'
    BY <1>1, <1>3, ThroughMono
  <2> QED BY <1>1, <1>2, <1>3, <2>1 DEF MarkedInv
<1>4. Roots \subseteq ThroughLive'
  BY <1>1, <1>2 DEF ThroughLive, Roots
<1>5. tag[t] # None => tag[t] \in Roots /\ tag[t] \in Manifests
  BY <1>1 DEF Roots
<1> DEFINE walked == IF tag[t] = None THEN {} ELSE Walk(tag[t], gc.liveM)
<1>6. PICK new \in SUBSET Manifests : new = walked
  BY WalkType
<1> DEFINE below == UNION {Layers[x] : x \in {y \in new : HasManifest(y)}}
<1>7. CASE gc' = [gc EXCEPT !.tags = @ \ {t}, !.liveM = @ \cup new, !.liveB = @ \cup below]
  <2>1. gc'.liveM = gc.liveM \cup new /\ gc'.liveB = gc.liveB \cup below
    BY <1>1, <1>7 DEF Gc
  <2>2. \A b \in below : \E x \in new : b \in Layers[x]
    OBVIOUS
  <2>3. ASSUME NEW x \in new PROVE x \in ThroughLive'
    <3>1. tag[t] # None /\ new = Walk(tag[t], gc.liveM)
      BY <1>6, <2>3
    <3>2. PICK m \in Manifests : m = tag[t]
      BY <1>5, <3>1
    <3>3. SUFFICES ASSUME NEW X \in SUBSET Manifests, Roots \subseteq X,
                          \A y \in X : y \in gc'.liveM /\ HasManifest(y) => Children(y) \subseteq X
                   PROVE  x \in X
      BY <1>1, <1>2, <2>3 DEF ThroughLive
    <3> DEFINE Y == X \cap new
    <3>4. Y \in SUBSET (Manifests \ gc.liveM)
      BY <3>1 DEF Walk
    <3>5. m \notin gc.liveM => m \in Y
      BY <1>1, <1>5, <3>1, <3>2, <3>3, WalkFacts
    <3>6. ASSUME NEW y \in Y, HasManifest(y) PROVE Children(y) \ gc.liveM \subseteq Y
      <4>1. Children(y) \subseteq X
        BY <2>1, <3>3, <3>6
      <4>2. Children(y) \ gc.liveM \subseteq new
        BY <3>1, <3>2, <3>6, <1>1, WalkChildren
      <4> QED BY <4>1, <4>2
    <3> HIDE DEF Y
    <3>7. x \in Y
      <4>1. x \in Walk(m, gc.liveM)
        BY <2>3, <3>1, <3>2
      <4> QED BY <3>4, <3>5, <3>6, <4>1 DEF Walk
    <3> QED BY <3>7 DEF Y
  <2> HIDE DEF below
  <2> QED BY <1>3, <2>1, <2>2, <2>3
<1>8. ASSUME NEW few \in SUBSET Roots, gc' = [gc EXCEPT !.tags = @ \ {t}, !.liveM = @ \cup few]
      PROVE  MarkedInv'
  <2>1. gc'.liveM = gc.liveM \cup few /\ gc'.liveB = gc.liveB \cup {}
    BY <1>1, <1>8 DEF Gc
  <2>2. few \in SUBSET Manifests /\ few \subseteq ThroughLive'
    BY <1>1, <1>4 DEF Roots
  <2>3. ThroughLive \subseteq ThroughLive'
    BY <1>1, <2>1, ThroughMono
  <2> QED BY <1>1, <1>2, <2>1, <2>2, <2>3 DEF MarkedInv
<1>9. \/ gc' = [gc EXCEPT !.tags = @ \ {t}, !.liveM = @ \cup new, !.liveB = @ \cup below]
      \/ \E few \in {{}, {tag[t]} \ {None}} : gc' = [gc EXCEPT !.tags = @ \ {t}, !.liveM = @ \cup few]
  BY <1>6 DEF MarkTag
<1>10. {} \in SUBSET Roots /\ {tag[t]} \ {None} \in SUBSET Roots
  BY <1>5
<1> HIDE DEF walked, below
<1> QED BY <1>7, <1>8, <1>9, <1>10

LEMMA CollectGC ==
  ASSUME ~Overlap, CollectInv, GCStep
  PROVE  MarkedInv' /\ LeftInv'
<1>1. /\ TypeInv /\ MarkedInv /\ LeftInv /\ gc \in Gc /\ UNCHANGED <<tag, refs, torn>>
      /\ blob \in [Blobs -> Age] /\ man \in [Manifests -> Age]
  BY AloneGC DEF CollectInv, TypeInv, TypeOK
<1>2. ASSUME UNCHANGED man, gc.pc # "idle", gc'.liveM = gc.liveM, gc'.liveB = gc.liveB PROVE MarkedInv'
  BY <1>1, <1>2, MarkedKeep DEF HasManifest
<1>3. CASE StartGC
  <2>1. gc'.pc \in {"tags", "refs"} /\ gc'.liveM = {} /\ gc'.liveB = {} /\ gc'.victim = {}
    <3>1. CASE gc' = [NoGc EXCEPT !.pc = "tags", !.tags = {t \in Tags : tag[t] # None}]
      BY <3>1 DEF NoGc
    <3>2. CASE gc' = [NoGc EXCEPT !.pc = "refs"]
      BY <3>2 DEF NoGc
    <3> QED BY <1>3, <3>1, <3>2 DEF StartGC
  <2> QED BY <2>1 DEF MarkedInv, LeftInv
<1>4. ASSUME NEW t \in Tags, MarkTag(t) PROVE MarkedInv' /\ LeftInv'
  <2>1. gc'.pc = "tags" /\ gc'.victim = gc.victim
    BY <1>1, <1>4 DEF MarkTag, Gc
  <2> QED BY <1>1, <1>4, <2>1, MarkTagMarked DEF LeftInv
<1>5. CASE MarkReferrers
  <2>4. PICK new \in SUBSET Indexed(None) : gc' = [gc EXCEPT !.pc = "refs", !.liveM = @ \cup new]
    BY <1>5 DEF MarkReferrers
  <2>1. /\ UNCHANGED man /\ gc.pc = "tags" /\ gc'.pc = "refs" /\ gc'.victim = gc.victim
        /\ gc'.liveM = gc.liveM \cup new /\ gc'.liveB = gc.liveB
    BY <1>1, <1>5, <2>4 DEF MarkReferrers, Gc
  <2>2. ThroughLive \subseteq ThroughLive'
    BY <1>1, <2>1, ThroughMono DEF HasManifest
  <2>3. Indexed(None)' = Indexed(None)
    BY <1>1 DEF Indexed
  <2> QED BY <1>1, <2>1, <2>2, <2>3, <2>4 DEF MarkedInv, LeftInv
<1>6. CASE StartSweep
  <2>1. /\ UNCHANGED man /\ gc.pc = "refs" /\ gc'.pc = "blobs" /\ gc'.victim = gc.victim
        /\ gc'.liveM = gc.liveM /\ gc'.liveB = gc.liveB /\ gc'.todo = Blobs
    BY <1>1, <1>6 DEF StartSweep, Gc
  <2> QED BY <1>1, <1>2, <2>1 DEF LeftInv
<1>7. ASSUME NEW b \in Blobs, ExamineBlob(b) PROVE MarkedInv' /\ LeftInv'
  <2>1. /\ UNCHANGED <<blob, man>> /\ gc.pc = "blobs" /\ gc'.pc = "blobs" /\ gc.victim = {}
        /\ gc'.liveM = gc.liveM /\ gc'.liveB = gc.liveB /\ gc'.todo = gc.todo \ {b}
        /\ gc'.aged = gc.aged /\ gc'.cut = gc.cut
        /\ gc'.victim = IF b \notin gc.liveB /\ b \in gc.aged /\ HasBlob(b) THEN {b} ELSE {}
    BY <1>1, <1>7 DEF ExamineBlob, Examine, Gc
  <2>2. LeftInv'
    BY <1>1, <2>1 DEF LeftInv, HasBlob
  <2> QED BY <1>2, <2>1, <2>2
<1>8. ASSUME NEW m \in Manifests, ExamineManifest(m) PROVE MarkedInv' /\ LeftInv'
  <2>1. /\ UNCHANGED <<blob, man>> /\ gc.pc = "manifests" /\ gc'.pc = "manifests" /\ gc.victim = {}
        /\ gc'.liveM = gc.liveM /\ gc'.liveB = gc.liveB /\ gc'.todo = gc.todo \ {m}
        /\ gc'.aged = gc.aged /\ gc'.cut = gc.cut
        /\ gc'.victim = IF m \notin gc.liveM /\ (m \in gc.aged \/ ~HasManifest(m)) THEN {m} ELSE {}
    BY <1>1, <1>8 DEF ExamineManifest, Examine, Gc
  <2>2. LeftInv'
    BY <1>1, <2>1 DEF LeftInv, HasBlob, HasManifest
  <2> QED BY <1>2, <2>1, <2>2
<1>9. CASE CancelWalk
  <2>1. /\ UNCHANGED <<blob, man>> /\ gc.pc = "blobs" /\ gc'.pc = "blobs" /\ gc'.victim = gc.victim
        /\ gc'.liveM = gc.liveM /\ gc'.liveB = gc.liveB /\ gc'.cut = TRUE
    BY <1>1, <1>9 DEF CancelWalk, Gc
  <2>2. LeftInv'
    BY <1>1, <2>1 DEF LeftInv
  <2> QED BY <1>2, <2>1, <2>2
<1>10. ASSUME NEW b \in Blobs, SweepBlob(b) PROVE MarkedInv' /\ LeftInv'
  <2>1. /\ UNCHANGED man /\ gc.pc = "blobs" /\ gc'.pc = "blobs" /\ b \in gc.victim /\ gc'.victim = {}
        /\ gc'.liveM = gc.liveM /\ gc'.liveB = gc.liveB /\ gc'.todo = gc.todo
        /\ gc'.aged = gc.aged /\ gc'.cut = gc.cut /\ blob' = [blob EXCEPT ![b] = "absent"]
    BY <1>1, <1>10 DEF SweepBlob, Gc
  <2>2. gc.victim = {b}
    BY <1>1, <2>1 DEF LeftInv
  <2>3. \A e \in Blobs : HasBlob(e)' => HasBlob(e) /\ e # b
    BY <1>1, <2>1 DEF HasBlob
  <2>4. LeftInv'
    BY <1>1, <2>1, <2>2, <2>3 DEF LeftInv
  <2> QED BY <1>2, <2>1, <2>4
<1>11. ASSUME NEW m \in Manifests, SweepManifest(m) PROVE MarkedInv' /\ LeftInv'
  <2>1. /\ UNCHANGED blob /\ gc.pc = "manifests" /\ gc'.pc = "manifests" /\ m \in gc.victim /\ gc'.victim = {}
        /\ gc'.liveM = gc.liveM /\ gc'.liveB = gc.liveB /\ gc'.todo = gc.todo
        /\ gc'.aged = gc.aged /\ gc'.cut = gc.cut /\ man' = [man EXCEPT ![m] = "absent"]
    BY <1>1, <1>11 DEF SweepManifest, Gc
  <2>2. gc.victim = {m} /\ m \notin gc.liveM
    BY <1>1, <2>1 DEF LeftInv
  <2>3. /\ \A e \in Manifests : HasManifest(e)' => HasManifest(e) /\ e # m
        /\ \A e \in Manifests : HasManifest(e) /\ e # m => HasManifest(e)'
    BY <1>1, <2>1 DEF HasManifest
  <2>4. LeftInv'
    BY <1>1, <2>1, <2>2, <2>3 DEF LeftInv, HasBlob
  <2>5. \A y \in gc.liveM : HasManifest(y) => HasManifest(y)'
    BY <1>1, <2>2, <2>3 DEF Gc
  <2>6. MarkedInv'
    BY <1>1, <2>1, <2>5, MarkedKeep
  <2> QED BY <2>4, <2>6
<1>12. CASE StartManifestSweep
  <2>1. /\ UNCHANGED <<blob, man>> /\ gc.pc = "blobs" /\ gc'.pc = "manifests"
        /\ gc.todo = {} /\ gc.victim = {} /\ gc'.victim = {}
        /\ gc'.liveM = gc.liveM /\ gc'.liveB = gc.liveB /\ gc'.todo = {m \in Manifests : HasManifest(m)}
        /\ gc'.aged = gc.aged /\ gc'.cut = gc.cut
    BY <1>1, <1>12 DEF StartManifestSweep, Gc
  <2>2. LeftInv'
    BY <1>1, <2>1 DEF LeftInv, HasBlob, HasManifest
  <2> QED BY <1>2, <2>1, <2>2
<1>13. CASE EndGC
  <2>1. gc'.pc = "idle" /\ gc'.victim = {}
    BY <1>13 DEF EndGC, NoGc
  <2> QED BY <2>1 DEF MarkedInv, LeftInv
<1> QED BY <1>3, <1>4, <1>5, <1>6, <1>7, <1>8, <1>9, <1>10, <1>11, <1>12, <1>13 DEF GCStep

LEMMA CollectStep ==
  ASSUME ~Overlap, CollectInv, [Next]_vars
  PROVE  CollectInv'
<1>1. TypeInv' /\ Alone' /\ TypeInv /\ Alone /\ MarkedInv /\ LeftInv
  BY TypeStep, AloneStep DEF CollectInv
<1>2. CASE UNCHANGED vars
  <2>1. UNCHANGED <<blob, man, tag, refs, torn, gc>>
    BY <1>2 DEF vars
  <2>2. MarkedInv'
    <3>1. CASE gc.pc = "idle"
      BY <2>1, <3>1 DEF MarkedInv
    <3>2. CASE gc.pc # "idle"
      BY <1>1, <2>1, <3>2, MarkedKeep DEF HasManifest
    <3> QED BY <3>1, <3>2
  <2>3. LeftInv'
    BY <1>1, <2>1 DEF LeftInv, HasBlob, HasManifest
  <2> QED BY <1>1, <2>2, <2>3 DEF CollectInv
<1>3. ASSUME gc.pc = "idle", gc'.pc = "idle", gc'.victim = gc.victim PROVE CollectInv'
  BY <1>1, <1>3 DEF CollectInv, MarkedInv, LeftInv
<1>4. ASSUME NEW p \in Pushers, PushStep(p) PROVE CollectInv'
  <2>1. gc.pc = "idle" /\ gc'.pc = "idle"
    BY <1>1, <1>4, AlonePush
  <2>2. gc' = gc \/ \E d : gc' = [gc EXCEPT !.aged = @ \ {d}]
    BY <1>1, <1>4, PlainShape, PromotionShape DEF PushStep, Upload, WriteManifest, SetTag, AddReferrer, Refresh
  <2>3. gc'.victim = gc.victim
    BY <1>1, <2>2 DEF TypeInv, TypeOK, Gc
  <2> QED BY <1>3, <2>1, <2>3
<1>5. CASE DeleteStep
  BY <1>1, <1>3, <1>5, AloneDelete
<1>6. CASE GCStep
  BY <1>1, <1>6, CollectGC DEF CollectInv
<1>7. CASE GrowOld
  <2>1. /\ UNCHANGED <<tag, refs, torn, gc>> /\ blob \in [Blobs -> Age] /\ man \in [Manifests -> Age]
        /\ gc.liveM \subseteq Manifests
    BY <1>1, <1>7 DEF GrowOld, TypeInv, TypeOK, Gc
  <2>2. /\ \A b \in Blobs : HasBlob(b)' <=> HasBlob(b)
        /\ \A m \in Manifests : HasManifest(m)' <=> HasManifest(m)
    BY <1>7, <2>1 DEF GrowOld, GrowOldBlob, GrowOldManifest, HasBlob, HasManifest
  <2>3. MarkedInv'
    <3>1. CASE gc.pc = "idle"
      BY <2>1, <3>1 DEF MarkedInv
    <3>2. CASE gc.pc # "idle"
      BY <1>1, <2>1, <2>2, <3>2, MarkedKeep
    <3> QED BY <3>1, <3>2
  <2>4. LeftInv'
    BY <1>1, <2>1, <2>2 DEF LeftInv
  <2> QED BY <1>1, <2>3, <2>4 DEF CollectInv
<1> QED BY <1>2, <1>4, <1>5, <1>6, <1>7 DEF Next

LEMMA CollectInit == Init => CollectInv
<1> SUFFICES ASSUME Init PROVE CollectInv
  OBVIOUS
<1>1. MarkedInv /\ LeftInv
  BY DEF Init, MarkedInv, LeftInv, NoGc
<1> QED BY <1>1, TypeInit, AloneInit DEF CollectInv

LEMMA CollectDone ==
  ASSUME CollectInv
  PROVE  GCComplete
<1> SUFFICES ASSUME GCDone, ~gc.cut
             PROVE  LET needed == Reach(Roots)
                    IN  /\ \A b \in Blobs : b \in gc.aged /\ HasBlob(b) => \E x \in needed : b \in Layers[x]
                        /\ \A m \in Manifests :
                             m \in gc.aged /\ HasManifest(m) => m \in needed \cup Indexed(None)
  BY DEF GCComplete, Roots
<1>1. ThroughLive \subseteq Reach(Roots)
  BY DEF ThroughLive, Reach
<1>2. gc.pc = "manifests" /\ gc.todo = {} /\ gc.victim = {}
  BY DEF GCDone
<1> QED BY <1>1, <1>2 DEF CollectInv, MarkedInv, LeftInv

\* A pass of the collector that ran alone and was not cut short leaves no garbage,
\* for all contents, also when reads failed during the mark: what it took for old and
\* left is reached by a tag, or a manifest that a referrers index keeps.
THEOREM GCCompleteAlways == Spec => []GCComplete
<1>1. CASE Overlap
  <2>1. GCComplete
    BY <1>1 DEF GCComplete
  <2> QED BY <2>1, PTL
<1>2. CASE ~Overlap
  <2>1. CollectInv => GCComplete
    BY CollectDone
  <2>2. CollectInv /\ [Next]_vars => CollectInv'
    BY <1>2, CollectStep
  <2> QED BY <2>1, <2>2, CollectInit, PTL DEF Spec
<1> QED BY <1>1, <1>2

------------------------------------------------------------------------------
\* Tags where operations run one at a time, and clients delete what they like.  What
\* a client that pulls m gets to ask for: the manifests it reaches through those that
\* are stored, and their blobs.  All of it is stored, or was deleted by a client.
Pulled(m) ==
  {x \in Manifests : \A X \in SUBSET Manifests :
     (m \in X /\ \A y \in X : HasManifest(y) => Subs[y] \subseteq X) => x \in X}
Asked(m) == Pulled(m) \cup UNION {Layers[x] : x \in {y \in Pulled(m) : HasManifest(y)}}
There(d) == Present(d) \/ d \in gone
ServedInv == \A t \in Tags : tag[t] # None => \A d \in Asked(tag[t]) : There(d)

\* What a push counts as uploaded or found is stored, with what it names; and from
\* its tag on the manifest it puts is stored too.
HaveOf(new) ==
  new.pc # "idle" =>
    /\ Closed(new.have) /\ \A d \in new.have : Present(d)
    /\ new.pc \in Putting => Kids(new.cur) \subseteq new.have
    /\ new.pc \in {"settag", "readref", "writeref"} => HasManifest(new.cur)
HaveInv == \A p \in Pushers : HaveOf(push[p])

\* A deletion cascades to nothing that the tags of other images ask for.
CascadeInv ==
  /\ del.pc \in {"index", "mark", "cascade", "reap"} => del.image \in gone /\ ~HasManifest(del.image)
  /\ del.pc \in {"cascade", "reap"} =>
       \A t \in Tags : tag[t] \notin {None, del.image} => Pulled(tag[t]) \subseteq del.live
  /\ del.pc = "reap" => del.idx \cap del.live = {}

\* The collector finds live all that the tags it has read ask for, and removes nothing
\* that is live.
ReadLive ==
  gc.pc # "idle" =>
    \A t \in Tags : tag[t] # None => (gc.pc = "tags" /\ t \in gc.tags) \/ Asked(tag[t]) \subseteq Live
WalkLive ==
  gc.pc = "tags" => \A x \in gc.liveM : HasManifest(x) => Kids(x) \subseteq Live
DeadInv ==
  /\ gc.victim \cap Live = {}
  /\ gc.pc \notin {"blobs", "manifests"} => gc.victim = {}
WholeInv == TypeInv /\ Alone /\ ServedInv /\ HaveInv /\ CascadeInv /\ ReadLive /\ WalkLive /\ DeadInv

LEMMA PulledFacts ==
  ASSUME NEW m \in Manifests
  PROVE  /\ m \in Pulled(m) /\ Pulled(m) \subseteq Manifests
         /\ \A y \in Pulled(m) : HasManifest(y) => Subs[y] \subseteq Pulled(m)
         /\ Asked(m) \subseteq Digest /\ Asked(m) \cap Manifests = Pulled(m)
<1>1. m \in Pulled(m) /\ Pulled(m) \subseteq Manifests
  BY DEF Pulled
<1>2. ASSUME NEW y \in Pulled(m), HasManifest(y), NEW z \in Subs[y] PROVE z \in Pulled(m)
  <2>1. y \in Manifests /\ z \in Manifests
    BY <1>1, ContentAssumption
  <2>2. ASSUME NEW X \in SUBSET Manifests, m \in X, \A x \in X : HasManifest(x) => Subs[x] \subseteq X
        PROVE  z \in X
    <3>1. y \in X
      BY <2>2 DEF Pulled
    <3> QED BY <1>2, <2>2, <3>1
  <2> QED BY <2>1, <2>2 DEF Pulled
<1>3. UNION {Layers[x] : x \in {y \in Pulled(m) : HasManifest(y)}} \subseteq Blobs
  BY <1>1, ContentAssumption
<1> QED BY <1>1, <1>2, <1>3, DigestAssumption DEF Asked, Digest

LEMMA PulledLeast ==
  ASSUME NEW m \in Manifests, NEW X \in SUBSET Manifests, m \in X,
         \A y \in X : HasManifest(y) => Subs[y] \subseteq X
  PROVE  Pulled(m) \subseteq X
BY DEF Pulled

LEMMA PulledTree ==
  ASSUME NEW m \in Manifests
  PROVE  Asked(m) \subseteq All(m)
<1>1. Pulled(m) \subseteq Tree(m)
  BY TreeFacts, PulledLeast
<1> QED BY <1>1 DEF Asked, All, TreeBlobs

\* When manifests only go, clients ask for less.
LEMMA PulledShrink ==
  ASSUME NEW m \in Manifests, \A y \in Manifests : HasManifest(y)' => HasManifest(y)
  PROVE  Pulled(m)' \subseteq Pulled(m) /\ Asked(m)' \subseteq Asked(m)
<1>1. Pulled(m)' \subseteq Pulled(m)
  <2> SUFFICES ASSUME NEW x, x \in Pulled(m)', NEW X \in SUBSET Manifests, m \in X,
                      \A y \in X : HasManifest(y) => Subs[y] \subseteq X
               PROVE  x \in Manifests /\ x \in X
    BY DEF Pulled
  <2>1. \A y \in X : HasManifest(y)' => Subs[y] \subseteq X
    OBVIOUS
  <2> QED BY <2>1 DEF Pulled
<1>2. \A x \in Pulled(m)' : HasManifest(x)' => HasManifest(x)
  BY <1>1, PulledFacts
<1> QED BY <1>1, <1>2 DEF Asked

\* Manifests only go, and what was asked for is there or was deleted: all is served.
LEMMA ServedShrink ==
  ASSUME TypeInv, ServedInv, \A y \in Manifests : HasManifest(y)' => HasManifest(y),
         \A t \in Tags : tag'[t] # None => tag'[t] = tag[t],
         \A t \in Tags : tag[t] # None => \A d \in Asked(tag[t]) : There(d) => There(d)'
  PROVE  ServedInv'
<1> SUFFICES ASSUME NEW t \in Tags, tag'[t] # None PROVE \A d \in Asked(tag[t])' : There(d)'
  BY DEF ServedInv
<1>1. PICK m \in Manifests : m = tag[t] /\ m = tag'[t] /\ tag[t] # None
  BY DEF TypeInv, TypeOK
<1>2. Asked(m)' \subseteq Asked(m)
  BY PulledShrink
<1>3. \A d \in Asked(m) : There(d)'
  BY <1>1 DEF ServedInv
<1> QED BY <1>1, <1>2, <1>3 DEF Asked, Pulled

LEMMA AnsweredHave ==
  ASSUME TypeInv, NEW p \in Pushers, push[p].pc \in Putting, HaveOf(push[p]), HasManifest(push[p].cur),
         NEW new, AnsweredAs(p, new) \/ PutAs(p, new)
  PROVE  HaveOf(new)
<1>1. /\ push[p].pc # "idle" /\ push[p].cur \in Manifests /\ push[p].image \in Manifests
      /\ Closed(push[p].have) /\ (\A d \in push[p].have : Present(d))
      /\ Kids(push[p].cur) \subseteq push[p].have
  BY DEF TypeInv, NamedInv, Named, Putting, HaveOf
<1>2. Present(push[p].cur)
  BY <1>1, DigestAssumption DEF Present
<1>3. CASE new.pc = "idle"
  BY <1>3 DEF HaveOf
<1>4. CASE new.pc = "collect" /\ new.have = push[p].have \cup {push[p].cur}
  <2>1. Closed(new.have)
    BY <1>1, <1>4 DEF Closed
  <2> QED BY <1>1, <1>2, <1>4, <2>1 DEF HaveOf, Putting
<1>5. CASE new.pc = "readref" /\ new.have = push[p].have /\ new.cur = push[p].cur
  BY <1>1, <1>5 DEF HaveOf
<1> QED BY <1>3, <1>4, <1>5 DEF AnsweredAs, PutAs, Same

\* A step of a push that stores nothing and sets no tag.
LEMMA PlainWhole ==
  ASSUME ~Overlap, WholeInv, NEW p \in Pushers, PushStep(p), UNCHANGED <<blob, man, tag, gone>>,
         HaveOf(push'[p])
  PROVE  ServedInv' /\ HaveInv'
<1>1. ServedInv'
  BY DEF WholeInv, ServedInv, Asked, Pulled, There, Present, HasBlob, HasManifest
<1>2. \A q \in Pushers \ {p} : push'[q].pc = "idle"
  BY AlonePush DEF WholeInv
<1>3. HaveOf(push[p])'
  BY DEF HaveOf, Present, HasBlob, HasManifest
<1> QED BY <1>1, <1>2, <1>3 DEF HaveInv, HaveOf

\* A promotion sets tags to what it has copied.
LEMMA PromotionWhole ==
  ASSUME ~Overlap, WholeInv, NEW p \in Pushers, PushStep(p),
         EndPromotion(p) \/ \E t \in Tags : SetFallbackTag(p, t)
  PROVE  ServedInv' /\ HaveInv'
<1>1. /\ HaveOf(push[p]) /\ TypeInv /\ ServedInv /\ tag \in [Tags -> Manifests \cup {None}]
      /\ push[p].pc = "collect" /\ push[p].image \in Manifests
      /\ UNCHANGED <<blob, man, gone>> /\ \A q \in Pushers \ {p} : push'[q].pc = "idle"
  BY AlonePush, PromotionShape DEF WholeInv, TypeInv, TypeOK, HaveInv, NamedInv, Named
<1>2. ASSUME NEW c \in Manifests, c \in push[p].have PROVE \A d \in Asked(c) : There(d)
  <2>1. Closed(push[p].have) /\ Kids(c) \subseteq push[p].have /\ \A d \in push[p].have : Present(d)
    BY <1>1, <1>2 DEF HaveOf, Closed
  <2>2. All(c) \subseteq push[p].have \cup {c}
    BY <1>1, <2>1, AllLeast
  <2> QED BY <1>2, <2>1, <2>2, PulledTree DEF There
<1>3. /\ push'[p].pc \in {"idle", "collect"} /\ (push'[p].pc = "collect" => push'[p].have = push[p].have)
      /\ \A t \in Tags : tag'[t] = tag[t] \/ (tag'[t] \in Manifests /\ tag'[t] \in push[p].have)
  <2>1. CASE EndPromotion(p)
    <3>1. push[p].image \in Copied[push[p].image]
      BY <1>1 DEF Copied
    <3>2. push[p].image \in push[p].have
      BY <2>1, <3>1 DEF EndPromotion, Wanted
    <3>3. push'[p].pc = "idle"
      BY <2>1 DEF EndPromotion, NoPush, TypeInv, TypeOK, WholeInv
    <3> QED BY <1>1, <2>1, <3>2, <3>3 DEF EndPromotion
  <2>2. CASE ~EndPromotion(p)
    <3>1. /\ push'[p].pc = "collect" /\ push'[p].have = push[p].have
          /\ \E t \in FallbackTags :
               /\ SourceTag[t] \in push[p].have
               /\ tag' = IF HasManifest(SourceTag[t]) THEN [tag EXCEPT ![t] = SourceTag[t]] ELSE tag
      BY <1>1, <2>2, PromotionShape DEF Same
    <3> QED BY <1>1, <3>1 DEF FallbackTags
  <2> QED BY <2>1, <2>2
<1>4. \A m : (Asked(m)' = Asked(m)) /\ (There(m)' <=> There(m))
  BY <1>1 DEF Asked, Pulled, There, Present, HasBlob, HasManifest
<1>5. ServedInv'
  BY <1>1, <1>2, <1>3, <1>4 DEF ServedInv
<1>6. HaveOf(push[p])'
  BY <1>1, <1>3 DEF HaveOf, Putting, Present, HasBlob, HasManifest
<1> QED BY <1>1, <1>5, <1>6 DEF HaveInv, HaveOf

LEMMA WholePush ==
  ASSUME ~Overlap, "manifest" \notin Reuse, WholeInv, NEW p \in Pushers, PushStep(p)
  PROVE  ServedInv' /\ HaveInv'
<1>1. /\ push \in [Pushers -> Push] /\ push[p] \in Push /\ HaveOf(push[p]) /\ TypeInv /\ ServedInv
      /\ blob \in [Blobs -> Age] /\ man \in [Manifests -> Age]
      /\ tag \in [Tags -> Manifests \cup {None}]
      /\ \A q \in Pushers \ {p} : push'[q].pc = "idle"
  BY AlonePush DEF WholeInv, TypeInv, TypeOK, HaveInv
<1>2. ASSUME HaveOf(push[p])' PROVE HaveInv'
  BY <1>1, <1>2 DEF HaveInv, HaveOf
<1>3. ASSUME NEW m \in Manifests, NEW t \in Tags \cup {None}, StartPush(p, m, t) \/ StartPromotion(p, m, t)
      PROVE  ServedInv' /\ HaveInv'
  <2>1. push'[p].pc = "collect" /\ push'[p].have = {} /\ UNCHANGED <<blob, man, tag, gone>>
    <3>1. CASE StartPush(p, m, t)
      BY <1>1, <3>1 DEF StartPush, NoPush
    <3>2. CASE StartPromotion(p, m, t)
      BY <1>1, <3>2 DEF StartPromotion, NoPush
    <3> QED BY <1>3, <3>1, <3>2
  <2>2. HaveOf(push'[p])
    BY <2>1 DEF HaveOf, Closed, Putting
  <2> QED BY <2>1, <2>2, PlainWhole
<1>4. ASSUME NEW d \in Digest, Head(p, d) PROVE ServedInv' /\ HaveInv'
  <2>1. /\ push[p].pc = "collect" /\ push'[p].pc = "collect" /\ push'[p].have = push[p].have \cup {d}
        /\ UNCHANGED <<blob, man, tag, gone>>
    BY <1>1, <1>4 DEF Head, Push
  <2>2. d \in WantedBlobs(p) /\ HasBlob(d)
    BY <1>4 DEF Head, Found
  <2>3. d \in Blobs
    <3>1. Wanted(p) \subseteq Manifests
      BY <1>1, <2>1, TreeFacts DEF Wanted, Copied, TypeInv, NamedInv, Named
    <3> QED BY <2>2, <3>1, ContentAssumption DEF WantedBlobs
  <2>4. Closed(push[p].have \cup {d}) /\ Present(d)
    BY <1>1, <2>1, <2>2, <2>3, DigestAssumption DEF HaveOf, Closed, Present
  <2>5. HaveOf(push'[p])
    BY <1>1, <2>1, <2>4 DEF HaveOf, Putting
  <2> QED BY <2>1, <2>5, PlainWhole
<1>5. ASSUME NEW x \in Manifests, PutManifest(p, x) PROVE ServedInv' /\ HaveInv'
  <2>1. /\ push[p].pc = "collect" /\ push'[p].pc \in {"check", "write"} /\ push'[p].have = push[p].have
        /\ push'[p].cur = x /\ Kids(x) \subseteq push[p].have /\ UNCHANGED <<blob, man, tag, gone>>
    BY <1>1, <1>5 DEF PutManifest, Push, Kids
  <2>2. HaveOf(push'[p])
    BY <1>1, <2>1 DEF HaveOf
  <2> QED BY <2>1, <2>2, PlainWhole
<1>6. CASE AbortPush(p)
  <2>1. push'[p].pc = "idle" /\ UNCHANGED <<blob, man, tag, gone>>
    BY <1>1, <1>6 DEF AbortPush, NoPush
  <2> QED BY <2>1, PlainWhole DEF HaveOf
<1>7. CASE CheckImmutableTag(p)
  <2>1. /\ push[p].pc = "check" /\ UNCHANGED <<blob, man, tag, gone>>
        /\ \/ push'[p].pc = "idle"
           \/ push'[p].pc = "write" /\ push'[p].have = push[p].have /\ push'[p].cur = push[p].cur
    BY <1>1, <1>7 DEF CheckImmutableTag, Push, NoPush
  <2>2. HaveOf(push'[p])
    BY <1>1, <2>1 DEF HaveOf, Putting
  <2> QED BY <2>1, <2>2, PlainWhole
<1>8. CASE ReadReferrers(p)
  <2>1. /\ push[p].pc = "readref" /\ UNCHANGED <<blob, man, tag, gone>>
        /\ push'[p].pc = "writeref" /\ push'[p].have = push[p].have /\ push'[p].cur = push[p].cur
    BY <1>1, <1>8 DEF ReadReferrers, Push
  <2>2. HaveOf(push'[p])
    BY <1>1, <2>1 DEF HaveOf, Putting
  <2> QED BY <2>1, <2>2, PlainWhole
<1>9. CASE AddReferrer(p)
  <2>1. /\ push[p].pc = "writeref" /\ push[p].pc \in Putting /\ UNCHANGED <<blob, man, tag, gone>>
        /\ AnsweredAs(p, push'[p]) /\ HasManifest(push[p].cur)
    BY <1>1, <1>9, ReferrerShape DEF AddReferrer, Putting, HaveOf
  <2>2. PICK new : new = push'[p]
    OBVIOUS
  <2>3. HaveOf(new)
    BY <1>1, <2>1, <2>2, AnsweredHave
  <2> QED BY <2>1, <2>2, <2>3, PlainWhole
<1>10. ASSUME NEW b \in Blobs, Upload(p, b) PROVE ServedInv' /\ HaveInv'
  <2>1. /\ push[p].pc = "collect" /\ push'[p].pc = "collect" /\ push'[p].have = push[p].have \cup {b}
        /\ UNCHANGED <<man, tag>> /\ blob' = [blob EXCEPT ![b] = "young"] /\ gone' = gone \ {b}
    BY <1>1, <1>10, UploadShape DEF Upload
  <2>2. \A d \in Digest : (Present(d) => Present(d)') /\ (There(d) => There(d)')
    BY <1>1, <2>1 DEF Present, There, HasBlob, HasManifest, Digest
  <2>3. ServedInv'
    <3>1. \A t \in Tags : tag[t] # None => Asked(tag[t]) \subseteq Digest
      BY <1>1, PulledFacts
    <3> QED BY <1>1, <2>1, <2>2, <3>1, ServedShrink DEF HasManifest
  <2>4. HaveOf(push[p])'
    <3>1. push[p].have \subseteq Digest /\ Closed(push[p].have) /\ \A d \in push[p].have : Present(d)
      BY <1>1, <2>1 DEF Push, HaveOf
    <3>2. Closed(push[p].have \cup {b})
      BY <3>1, DigestAssumption DEF Closed
    <3>3. Present(b)'
      BY <1>1, <2>1 DEF Present, HasBlob
    <3> QED BY <2>1, <2>2, <3>1, <3>2, <3>3 DEF HaveOf, Putting
  <2> QED BY <1>2, <2>3, <2>4
<1>11. CASE SetTag(p)
  <2>1. /\ push[p].pc = "settag" /\ push[p].pc \in Putting /\ UNCHANGED <<blob, man, gone>>
        /\ tag' = [tag EXCEPT ![push[p].ref] = push[p].cur] /\ HasManifest(push[p].cur)
        /\ push[p].cur \in Manifests
    BY <1>1, <1>11 DEF SetTag, Putting, HaveOf, TypeInv, NamedInv, Named
  <2>2. \A m : (Asked(m)' = Asked(m)) /\ (There(m)' <=> There(m))
    BY <2>1 DEF Asked, Pulled, There, Present, HasBlob, HasManifest
  <2>3. PICK c \in Manifests : c = push[p].cur
    BY <2>1
  <2>4. \A d \in Asked(c) : There(d)
    <3>1. All(c) \subseteq push[p].have \cup {c}
      BY <1>1, <2>1, <2>3, AllLeast DEF HaveOf
    <3>2. Present(c)
      BY <2>1, <2>3, DigestAssumption DEF Present
    <3> QED BY <1>1, <2>1, <3>1, <3>2, PulledTree DEF HaveOf, There
  <2>5. ServedInv'
    BY <1>1, <2>1, <2>2, <2>3, <2>4 DEF ServedInv
  <2>6. HaveOf(push'[p])
    <3>1. PICK new : new = push'[p]
      OBVIOUS
    <3>2. CASE new.pc = "idle"
      BY <3>1, <3>2 DEF HaveOf
    <3>3. CASE PutAs(p, new)
      BY <1>1, <2>1, <3>1, <3>3, AnsweredHave
    <3> QED BY <1>1, <1>11, <3>1, <3>2, <3>3, TagShape
  <2>7. HaveOf(push[p])'
    BY <2>1, <2>6 DEF HaveOf, Present, HasBlob, HasManifest
  <2> QED BY <1>2, <2>5, <2>7
<1>12. CASE WriteManifest(p)
  <2>1. /\ push[p].pc = "write" /\ push[p].pc \in Putting /\ UNCHANGED <<blob, tag>>
        /\ man' = [man EXCEPT ![push[p].cur] = "young"] /\ gone' = gone \ {push[p].cur}
        /\ push[p].cur \in Manifests
    BY <1>1, <1>12 DEF WriteManifest, Putting, TypeInv, NamedInv, Named
  <2>2. PICK c \in Manifests : c = push[p].cur
    BY <2>1
  <2>3. /\ \A x \in Manifests : HasManifest(x)' <=> HasManifest(x) \/ x = c
        /\ \A d \in Digest : (Present(d) => Present(d)') /\ (There(d) => There(d)')
        /\ Present(c)'
    BY <1>1, <2>1, <2>2, DigestAssumption DEF Present, There, HasBlob, HasManifest, Digest
  <2>4. push[p].have \subseteq Digest /\ \A d \in push[p].have : Present(d)'
    BY <1>1, <2>1, <2>3 DEF HaveOf, Push
  <2>5. \A d \in All(c) : Present(d)'
    <3>1. All(c) \subseteq push[p].have \cup {c}
      BY <1>1, <2>1, <2>2, AllLeast DEF HaveOf
    <3> QED BY <2>3, <2>4, <3>1
  <2>6. ASSUME NEW m \in Manifests, \A d \in Asked(m) : There(d) PROVE \A d \in Asked(m)' : There(d)'
    <3> DEFINE X == Pulled(m) \cup Tree(c)
    <3>1. X \in SUBSET Manifests /\ m \in X
      BY PulledFacts, TreeFacts
    <3>2. ASSUME NEW y \in X, HasManifest(y)' PROVE Subs[y] \subseteq X
      <4>1. CASE y \in Tree(c)
        BY <4>1, TreeFacts
      <4>2. CASE y \notin Tree(c)
        <5>1. y \in Pulled(m) /\ HasManifest(y)
          BY <2>3, <3>1, <3>2, <4>2, TreeFacts
        <5> QED BY <5>1, PulledFacts
      <4> QED BY <4>1, <4>2
    <3>3. Pulled(m)' \subseteq X
      <4> HIDE DEF X
      <4> QED BY <3>1, <3>2 DEF Pulled
    <3>4. ASSUME NEW x \in X PROVE There(x)'
      <4>1. CASE x \in Tree(c)
        BY <2>5, <4>1 DEF All, There
      <4>2. CASE x \in Pulled(m)
        BY <2>3, <2>6, <4>2, PulledFacts DEF Asked, Digest
      <4> QED BY <4>1, <4>2
    <3>5. ASSUME NEW x \in X, HasManifest(x)', NEW b \in Layers[x] PROVE There(b)'
      <4>1. CASE x \in Tree(c)
        BY <2>5, <3>5, <4>1 DEF All, TreeBlobs, There
      <4>2. CASE x \notin Tree(c)
        <5>1. x \in Pulled(m) /\ HasManifest(x)
          BY <2>3, <3>1, <3>5, <4>2, TreeFacts
        <5>2. b \in Asked(m) /\ b \in Digest
          <6>1. b \in UNION {Layers[z] : z \in {y \in Pulled(m) : HasManifest(y)}}
            BY <3>5, <5>1
          <6>2. b \in Asked(m)
            BY <6>1 DEF Asked
          <6> QED BY <6>2, PulledFacts
        <5> QED BY <2>3, <2>6, <5>2
      <4> QED BY <4>1, <4>2
    <3> HIDE DEF X
    <3> QED BY <3>3, <3>4, <3>5 DEF Asked
  <2>7. ServedInv'
    <3> SUFFICES ASSUME NEW t \in Tags, tag'[t] # None PROVE \A d \in Asked(tag[t])' : There(d)'
      BY DEF ServedInv
    <3>1. PICK m \in Manifests : m = tag[t] /\ m = tag'[t]
      BY <1>1, <2>1
    <3>2. \A d \in Asked(m)' : There(d)'
      BY <1>1, <2>1, <2>6, <3>1 DEF ServedInv
    <3> QED BY <3>1, <3>2 DEF Asked, Pulled
  <2>8. HaveOf(push[p])'
    <3>1. PICK new : new = push'[p]
      OBVIOUS
    <3>2. CASE new.pc = "settag" /\ Same(p, new) /\ new.cur = push[p].cur
      BY <1>1, <2>1, <2>2, <2>3, <2>4, <3>1, <3>2 DEF HaveOf, Same
    <3>3. CASE PutAs(p, new)
      <4>1. /\ Closed(push[p].have) /\ Kids(c) \subseteq push[p].have
        BY <1>1, <2>1, <2>2 DEF HaveOf
      <4>2. CASE new.pc = "idle"
        BY <3>1, <4>2 DEF HaveOf
      <4>3. CASE new.pc = "collect" /\ new.have = push[p].have \cup {c}
        <5>1. Closed(push[p].have \cup {c})
          BY <4>1 DEF Closed
        <5> QED BY <2>3, <2>4, <3>1, <4>3, <5>1 DEF HaveOf, Putting
      <4>4. CASE new.pc = "readref" /\ new.have = push[p].have /\ new.cur = c
        BY <2>3, <2>4, <3>1, <4>1, <4>4 DEF HaveOf
      <4> QED BY <2>2, <3>3, <4>2, <4>3, <4>4 DEF PutAs, AnsweredAs, Same
    <3> QED BY <1>1, <1>12, <3>1, <3>2, <3>3, WriteShape
  <2> QED BY <1>2, <2>7, <2>8
<1>13. CASE EndPromotion(p) \/ \E t \in Tags : SetFallbackTag(p, t)
  BY <1>13, PromotionWhole
<1> QED BY <1>3, <1>4, <1>5, <1>6, <1>7, <1>8, <1>9, <1>10, <1>11, <1>12, <1>13 DEF PushStep

\* What is asked for depends on the manifests that are there only.
LEMMA PulledSame ==
  ASSUME \A y \in Manifests : HasManifest(y)' <=> HasManifest(y), NEW m \in Manifests
  PROVE  Pulled(m)' = Pulled(m) /\ Asked(m)' = Asked(m)
<1>1. Pulled(m)' = Pulled(m)
  BY DEF Pulled
<1>2. \A x \in Pulled(m) : HasManifest(x)' <=> HasManifest(x)
  BY PulledFacts
<1> QED BY <1>1, <1>2 DEF Asked

\* The cascade goes on with what it found live.
LEMMA CascadeKeep ==
  ASSUME TypeInv, CascadeInv, \A y \in Manifests : HasManifest(y)' => HasManifest(y),
         UNCHANGED <<tag, gone>>, del.pc \in {"cascade", "reap"}, del.image \in Manifests,
         del'.pc \in {"cascade", "reap"}, del'.image = del.image, del'.live = del.live,
         del'.pc = "reap" => del'.idx \cap del.live = {}
  PROVE  CascadeInv'
<1>1. del'.image \in gone' /\ ~HasManifest(del.image)'
  BY DEF CascadeInv
<1>2. ASSUME NEW t \in Tags, tag'[t] \notin {None, del'.image} PROVE Pulled(tag[t])' \subseteq del'.live
  <2>1. PICK m \in Manifests : m = tag[t] /\ m = tag'[t]
    BY <1>2 DEF TypeInv, TypeOK
  <2>2. Pulled(m)' \subseteq Pulled(m)
    BY PulledShrink
  <2>3. Pulled(m) \subseteq del.live
    BY <1>2, <2>1 DEF CascadeInv
  <2> QED BY <2>1, <2>2, <2>3 DEF Pulled
<1> QED BY <1>1, <1>2 DEF CascadeInv

LEMMA WholeDelete ==
  ASSUME ~Overlap, MaxFaults = 0, WholeInv, DeleteStep
  PROVE  ServedInv' /\ CascadeInv'
<1>1. /\ TypeInv /\ ServedInv /\ CascadeInv /\ man \in [Manifests -> Age] /\ blob \in [Blobs -> Age]
      /\ del \in Del /\ tag \in [Tags -> Manifests \cup {None}]
      /\ del.pc # "idle" => del.image \in Manifests
  BY DEF WholeInv, TypeInv, TypeOK, NamedInv
<1>2. \A t \in Tags : tag[t] # None => Asked(tag[t]) \subseteq Digest
  BY <1>1, PulledFacts
<1>3. ASSUME UNCHANGED <<blob, man, tag, gone>> PROVE ServedInv'
  BY <1>1, <1>3, ServedShrink DEF HasManifest, There, Present, HasBlob
<1>4. ASSUME NEW t \in Tags, DeleteTag(t) PROVE ServedInv' /\ CascadeInv'
  <2>1. /\ UNCHANGED <<blob, man, del, gone>> /\ del.pc = "idle"
        /\ \A u \in Tags : tag'[u] # None => tag'[u] = tag[u]
    BY <1>1, <1>4 DEF DeleteTag, MayStart
  <2>2. ServedInv'
    BY <1>1, <2>1, ServedShrink DEF HasManifest, There, Present, HasBlob
  <2> QED BY <2>1, <2>2 DEF CascadeInv
<1>5. ASSUME NEW b \in Blobs, DeleteBlob(b) PROVE ServedInv' /\ CascadeInv'
  <2>1. /\ UNCHANGED <<man, tag, del>> /\ del.pc = "idle"
        /\ blob' = [blob EXCEPT ![b] = "absent"] /\ gone' = gone \cup {b}
    BY <1>5 DEF DeleteBlob, MayStart
  <2>2. \A d \in Digest : There(d) => There(d)'
    BY <1>1, <2>1 DEF There, Present, HasBlob, HasManifest, Digest
  <2>3. ServedInv'
    BY <1>1, <1>2, <2>1, <2>2, ServedShrink DEF HasManifest
  <2> QED BY <2>1, <2>3 DEF CascadeInv
<1>6. CASE (\E m \in Manifests : DeleteManifestStart(m)) \/ DeleteManifestRead \/ RemoveReferrer
  <2>1. UNCHANGED <<blob, man, tag, gone>> /\ del'.pc \in {"read", "unref", "delete"}
    <3>1. CASE \E m \in Manifests : DeleteManifestStart(m)
      BY <3>1 DEF DeleteManifestStart, NoDel
    <3>2. CASE DeleteManifestRead
      BY <1>1, <3>2 DEF DeleteManifestRead, Del
    <3>3. CASE RemoveReferrer
      BY <1>1, <3>3 DEF RemoveReferrer, Del
    <3> QED BY <1>6, <3>1, <3>2, <3>3
  <2> QED BY <1>3, <2>1 DEF CascadeInv
<1>7. CASE DeleteManifest
  <2>1. UNCHANGED <<blob, tag>> /\ del.pc = "delete" /\ del.image \in Manifests
    BY <1>1, <1>7 DEF DeleteManifest
  <2>2. CASE ~HasManifest(del.image)
    <3>1. UNCHANGED <<man, gone>> /\ del'.pc = "idle"
      BY <1>7, <2>2 DEF DeleteManifest, NoDel
    <3> QED BY <1>3, <2>1, <3>1 DEF CascadeInv
  <2>3. CASE HasManifest(del.image)
    <3>1. /\ man' = [man EXCEPT ![del.image] = "absent"] /\ gone' = gone \cup {del.image}
          /\ del'.pc = "index" /\ del'.image = del.image
      BY <1>1, <1>7, <2>3 DEF DeleteManifest, Del
    <3>2. /\ \A d \in Digest : There(d) => There(d)'
          /\ \A y \in Manifests : HasManifest(y)' => HasManifest(y)
      BY <1>1, <2>1, <3>1 DEF There, Present, HasBlob, HasManifest, Digest
    <3>3. ServedInv'
      BY <1>1, <1>2, <2>1, <3>2, ServedShrink
    <3>4. CascadeInv'
      BY <1>1, <2>1, <3>1 DEF CascadeInv, HasManifest
    <3> QED BY <3>3, <3>4
  <2> QED BY <2>2, <2>3
<1>8. CASE DeleteReferrersIndex
  <2>1. /\ UNCHANGED <<blob, man, tag, gone>> /\ del.pc = "index"
        /\ del'.pc = "idle" \/ (del'.pc = "mark" /\ del'.image = del.image)
    BY <1>1, <1>8 DEF DeleteReferrersIndex, NoDel, Del
  <2> QED BY <1>1, <1>3, <2>1 DEF CascadeInv, HasManifest
<1>9. CASE CascadeMark
  <2>1. /\ UNCHANGED <<blob, man, tag, gone>> /\ del.pc = "mark" /\ del'.pc = "cascade"
        /\ del'.image = del.image /\ del'.live = MarkScoped(del.image)
    BY <1>1, <1>9 DEF CascadeMark, Fails, Del, TypeInv, TypeOK
  <2>2. ASSUME NEW t \in Tags, tag[t] \notin {None, del.image} PROVE Pulled(tag[t]) \subseteq del'.live
    <3>1. PICK m \in Manifests : m = tag[t]
      BY <1>1, <2>2
    <3>2. Pulled(m) \subseteq Walk(m, {})
      BY WalkFacts, PulledLeast
    <3>3. Walk(m, {}) \subseteq MarkScoped(del.image)
      BY <2>2, <3>1 DEF MarkScoped
    <3> QED BY <2>1, <3>1, <3>2, <3>3
  <2>3. ASSUME NEW t \in Tags, tag'[t] \notin {None, del'.image} PROVE Pulled(tag[t])' \subseteq del'.live
    <3>1. PICK m \in Manifests : m = tag[t] /\ m = tag'[t]
      BY <1>1, <2>1, <2>3
    <3>2. Pulled(m)' = Pulled(m)
      BY <2>1, PulledSame DEF HasManifest
    <3> QED BY <2>1, <2>2, <2>3, <3>1, <3>2 DEF Pulled
  <2>4. del.image \in gone' /\ ~HasManifest(del.image)'
    BY <1>1, <2>1 DEF CascadeInv, HasManifest
  <2> QED BY <1>3, <2>1, <2>3, <2>4 DEF CascadeInv
<1>10. ASSUME NEW x \in Manifests, CascadeCheck(x) PROVE ServedInv' /\ CascadeInv'
  <2>1. UNCHANGED <<blob, man, tag, gone>> /\ del.pc = "cascade" /\ del.image \in Manifests
    BY <1>1, <1>10 DEF CascadeCheck
  <2>2. \/ del'.pc = "idle"
        \/ /\ del'.pc = "reap" /\ del'.image = del.image /\ del'.live = del.live
           /\ del'.idx = {x} /\ x \notin del.live
        \/ del'.pc = "cascade" /\ del'.image = del.image /\ del'.live = del.live
    BY <1>1, <1>10, <2>1 DEF CascadeCheck, Del, NoDel
  <2>3. CascadeInv'
    <3>1. CASE del'.pc = "idle"
      BY <3>1 DEF CascadeInv
    <3>2. CASE del'.pc # "idle"
      BY <1>1, <2>1, <2>2, <3>2, CascadeKeep DEF HasManifest
    <3> QED BY <3>1, <3>2
  <2> QED BY <1>3, <2>1, <2>3
<1>11. ASSUME NEW x \in Manifests, CascadeReap(x) PROVE ServedInv' /\ CascadeInv'
  <2>1. /\ del.pc = "reap" /\ del.image \in Manifests /\ x \in del.idx /\ x \notin del.live
        /\ del.image \in gone /\ ~HasManifest(del.image)
        /\ man' = [man EXCEPT ![x] = "absent"] /\ UNCHANGED <<blob, tag, gone>>
    BY <1>1, <1>11 DEF CascadeReap, CascadeInv
  <2>2. /\ \A y \in Manifests : HasManifest(y)' => HasManifest(y)
        /\ \A d \in Digest \ {x} : There(d) => There(d)'
    BY <1>1, <2>1 DEF There, Present, HasBlob, HasManifest, Digest
  <2>3. ASSUME NEW t \in Tags, tag[t] # None, NEW d \in Asked(tag[t]), There(d) PROVE There(d)'
    <3>1. PICK m \in Manifests : m = tag[t]
      BY <1>1, <2>3
    <3>2. CASE m = del.image
      <4>1. Pulled(m) \subseteq {m}
        <5>1. {m} \in SUBSET Manifests /\ \A y \in {m} : ~HasManifest(y)
          BY <2>1, <3>2
        <5> QED BY <5>1, PulledLeast
      <4>2. Asked(m) \subseteq {m}
        BY <2>1, <3>2, <4>1 DEF Asked
      <4> QED BY <2>1, <2>3, <3>1, <3>2, <4>2 DEF There
    <3>3. CASE m # del.image
      <4>1. Pulled(m) \subseteq del.live
        BY <1>1, <2>1, <2>3, <3>1, <3>3 DEF CascadeInv
      <4>2. d \in Asked(m) /\ Asked(m) \subseteq Digest /\ Asked(m) \cap Manifests = Pulled(m)
        BY <2>3, <3>1, PulledFacts
      <4>3. d \in Digest \ {x}
        BY <2>1, <4>1, <4>2
      <4> QED BY <2>2, <2>3, <4>3
    <3> QED BY <3>2, <3>3
  <2>4. ServedInv'
    BY <1>1, <2>1, <2>2, <2>3, ServedShrink
  <2>5. del'.pc = "idle" \/ (del'.pc = "cascade" /\ del'.image = del.image /\ del'.live = del.live)
    BY <1>1, <1>11 DEF CascadeReap, Del, NoDel
  <2>6. CascadeInv'
    <3>1. CASE del'.pc = "idle"
      BY <3>1 DEF CascadeInv
    <3>2. CASE del'.pc # "idle"
      BY <1>1, <2>1, <2>2, <2>5, <3>2, CascadeKeep
    <3> QED BY <3>1, <3>2
  <2> QED BY <2>4, <2>6
<1> QED BY <1>4, <1>5, <1>6, <1>7, <1>8, <1>9, <1>10, <1>11 DEF DeleteStep

\* What the tags ask for stays live while the mark grows and manifests go.
LEMMA ReadKeep ==
  ASSUME TypeInv, ReadLive, gc.pc # "idle", UNCHANGED tag, Live \subseteq Live',
         gc.pc = "tags" => gc.tags = {},
         \A y \in Manifests : HasManifest(y)' => HasManifest(y)
  PROVE  ReadLive'
<1> SUFFICES ASSUME NEW t \in Tags, tag'[t] # None PROVE Asked(tag[t])' \subseteq Live'
  BY DEF ReadLive
<1>1. PICK m \in Manifests : m = tag[t] /\ m = tag'[t] /\ tag[t] # None
  BY DEF TypeInv, TypeOK
<1>2. Asked(m)' \subseteq Asked(m)
  BY PulledShrink
<1>3. Asked(m) \subseteq Live
  BY <1>1 DEF ReadLive
<1> QED BY <1>1, <1>2, <1>3 DEF Asked, Pulled

\* The walk of a tag makes live all that the tag asks for.
LEMMA MarkTagWhole ==
  ASSUME MaxFaults = 0, TypeInv, ReadLive, WalkLive, gc.victim = {}, NEW t \in Tags, MarkTag(t)
  PROVE  ReadLive' /\ WalkLive' /\ gc'.victim = {} /\ UNCHANGED <<blob, man>>
<1>1. /\ gc \in Gc /\ gc.pc = "tags" /\ tag \in [Tags -> Manifests \cup {None}]
      /\ UNCHANGED <<blob, man, tag>> /\ gc.liveM \in SUBSET Manifests /\ gc.liveB \in SUBSET Blobs
      /\ ~(faults < MaxFaults)
      /\ \A y : HasManifest(y)' <=> HasManifest(y)
  BY DEF TypeInv, TypeOK, MarkTag, Gc, HasManifest
<1> DEFINE walked == IF tag[t] = None THEN {} ELSE Walk(tag[t], gc.liveM)
<1>2. PICK new \in SUBSET Manifests : new = walked
  BY WalkType
<1> DEFINE below == UNION {Layers[x] : x \in {y \in new : HasManifest(y)}}
<1>3. gc' = [gc EXCEPT !.tags = @ \ {t}, !.liveM = @ \cup new, !.liveB = @ \cup below]
  BY <1>1, <1>2 DEF MarkTag, Fails
<1>4. /\ gc'.pc = "tags" /\ gc'.tags = gc.tags \ {t} /\ gc'.victim = {}
      /\ gc'.liveM = gc.liveM \cup new /\ gc'.liveB = gc.liveB \cup below
  <2> HIDE DEF below
  <2> QED BY <1>1, <1>3 DEF Gc
<1>5. tag[t] # None => tag[t] \in gc'.liveM /\ \A y \in new : HasManifest(y) => Subs[y] \subseteq gc'.liveM
  BY <1>1, <1>2, <1>4, WalkFacts
<1>6. \A y \in new : tag[t] # None
  BY <1>2
<1>7. below \subseteq Blobs /\ \A y \in new : HasManifest(y) => Layers[y] \subseteq below
  BY ContentAssumption
<1> HIDE DEF walked, below
<1>8. Live \subseteq Live' /\ gc'.liveM \in SUBSET Manifests /\ gc'.liveB \in SUBSET Blobs
  BY <1>1, <1>4, <1>7 DEF Live
<1>9. ASSUME NEW x \in gc'.liveM, HasManifest(x) PROVE Kids(x) \subseteq Live'
  <2>1. CASE x \in gc.liveM
    BY <1>1, <1>8, <1>9, <2>1 DEF WalkLive
  <2>2. CASE x \in new
    BY <1>4, <1>5, <1>6, <1>7, <1>9, <2>2 DEF Kids, Live
  <2> QED BY <1>4, <1>9, <2>1, <2>2
<1>10. \A x \in gc'.liveM : HasManifest(x) => Subs[x] \subseteq gc'.liveM /\ Layers[x] \subseteq Live'
  BY <1>8, <1>9, ContentAssumption, DigestAssumption DEF Kids, Live
<1>11. ReadLive'
  <2> SUFFICES ASSUME NEW u \in Tags, tag'[u] # None, u \notin gc'.tags PROVE Asked(tag[u])' \subseteq Live'
    BY <1>4 DEF ReadLive
  <2>1. PICK m \in Manifests : m = tag[u] /\ m = tag'[u] /\ tag[u] # None
    BY <1>1
  <2>2. Asked(m)' = Asked(m)
    BY <1>1, PulledSame
  <2>3. CASE u = t
    <3>1. Pulled(m) \subseteq gc'.liveM
      BY <1>1, <1>5, <1>8, <1>10, <2>1, <2>3, PulledLeast
    <3>2. Asked(m) \subseteq Live'
      BY <1>10, <3>1 DEF Asked, Live
    <3> QED BY <2>1, <2>2, <3>2 DEF Asked, Pulled
  <2>4. CASE u # t
    <3>1. Asked(m) \subseteq Live
      BY <1>1, <1>4, <2>1, <2>4 DEF ReadLive
    <3> QED BY <1>8, <2>1, <2>2, <3>1 DEF Asked, Pulled
  <2> QED BY <2>3, <2>4
<1>12. WalkLive'
  BY <1>1, <1>9 DEF WalkLive, Kids
<1> QED BY <1>1, <1>4, <1>11, <1>12

LEMMA WholeGC ==
  ASSUME ~Overlap, MaxFaults = 0, WholeInv, GCStep
  PROVE  ServedInv' /\ ReadLive' /\ WalkLive' /\ DeadInv'
<1>1. /\ TypeInv /\ ServedInv /\ ReadLive /\ WalkLive /\ DeadInv /\ UNCHANGED <<tag, gone>>
      /\ blob \in [Blobs -> Age] /\ man \in [Manifests -> Age] /\ gc \in Gc
      /\ gc.liveM \in SUBSET Manifests /\ gc.liveB \in SUBSET Blobs
      /\ tag \in [Tags -> Manifests \cup {None}] /\ ~(faults < MaxFaults)
  BY AloneGC DEF WholeInv, TypeInv, TypeOK, Gc
<1>2. \A t \in Tags : tag[t] # None => Asked(tag[t]) \subseteq Digest
  BY <1>1, PulledFacts
<1>3. ASSUME UNCHANGED <<blob, man>> PROVE ServedInv'
  BY <1>1, <1>3, ServedShrink DEF HasManifest, There, Present, HasBlob
<1>4. ASSUME UNCHANGED <<blob, man>>, gc.pc \notin {"idle", "tags"}, gc'.pc # "tags",
             gc'.liveM = gc.liveM, gc'.liveB = gc.liveB
      PROVE  ServedInv' /\ ReadLive' /\ WalkLive'
  <2>1. ReadLive'
    BY <1>1, <1>4, ReadKeep DEF HasManifest, Live
  <2> QED BY <1>3, <1>4, <2>1 DEF WalkLive
<1>5. CASE StartGC
  <2>1. UNCHANGED <<blob, man>> /\ gc' = [NoGc EXCEPT !.pc = "tags", !.tags = {t \in Tags : tag[t] # None}]
    BY <1>1, <1>5 DEF StartGC, Fails
  <2>2. /\ gc'.pc = "tags" /\ gc'.tags = {t \in Tags : tag[t] # None}
        /\ gc'.liveM = {} /\ gc'.liveB = {} /\ gc'.victim = {}
    BY <2>1 DEF NoGc
  <2> QED BY <1>1, <1>3, <2>1, <2>2 DEF ReadLive, WalkLive, DeadInv
<1>6. ASSUME NEW t \in Tags, MarkTag(t) PROVE ServedInv' /\ ReadLive' /\ WalkLive' /\ DeadInv'
  <2>1. gc.victim = {}
    BY <1>1, <1>6 DEF MarkTag, DeadInv
  <2> QED BY <1>1, <1>3, <1>6, <2>1, MarkTagWhole DEF DeadInv
<1>7. CASE MarkReferrers
  <2>1. /\ UNCHANGED <<blob, man>> /\ gc.pc = "tags" /\ gc.tags = {} /\ gc'.pc = "refs"
        /\ gc'.victim = gc.victim
        /\ gc'.liveM = gc.liveM \cup Indexed(None) /\ gc'.liveB = gc.liveB
    BY <1>1, <1>7 DEF MarkReferrers, Fails, Gc
  <2>2. ReadLive'
    BY <1>1, <2>1, ReadKeep DEF HasManifest, Live
  <2> QED BY <1>1, <1>3, <2>1, <2>2 DEF WalkLive, DeadInv
<1>8. CASE StartSweep
  <2>1. /\ UNCHANGED <<blob, man>> /\ gc.pc = "refs" /\ gc'.pc = "blobs" /\ gc'.victim = gc.victim
        /\ gc'.liveM = gc.liveM /\ gc'.liveB = gc.liveB
    BY <1>1, <1>8 DEF StartSweep, Gc
  <2> QED BY <1>1, <1>4, <2>1 DEF DeadInv, Live
<1>9. ASSUME NEW b \in Blobs, ExamineBlob(b) PROVE ServedInv' /\ ReadLive' /\ WalkLive' /\ DeadInv'
  <2>1. /\ UNCHANGED <<blob, man>> /\ gc.pc = "blobs" /\ gc'.pc = "blobs"
        /\ gc'.liveM = gc.liveM /\ gc'.liveB = gc.liveB
        /\ gc'.victim = IF b \notin gc.liveB /\ b \in gc.aged /\ HasBlob(b) THEN {b} ELSE {}
    BY <1>1, <1>9 DEF ExamineBlob, Examine, Gc
  <2>2. DeadInv'
    BY <1>1, <2>1, DigestAssumption DEF DeadInv, Live
  <2> QED BY <1>4, <2>1, <2>2
<1>10. ASSUME NEW m \in Manifests, ExamineManifest(m) PROVE ServedInv' /\ ReadLive' /\ WalkLive' /\ DeadInv'
  <2>1. /\ UNCHANGED <<blob, man>> /\ gc.pc = "manifests" /\ gc'.pc = "manifests"
        /\ gc'.liveM = gc.liveM /\ gc'.liveB = gc.liveB
        /\ gc'.victim = IF m \notin gc.liveM /\ (m \in gc.aged \/ ~HasManifest(m)) THEN {m} ELSE {}
    BY <1>1, <1>10 DEF ExamineManifest, Examine, Gc
  <2>2. DeadInv'
    BY <1>1, <2>1, DigestAssumption DEF DeadInv, Live
  <2> QED BY <1>4, <2>1, <2>2
<1>11. CASE CancelWalk
  <2>1. /\ UNCHANGED <<blob, man>> /\ gc.pc = "blobs" /\ gc'.pc = "blobs" /\ gc'.victim = gc.victim
        /\ gc'.liveM = gc.liveM /\ gc'.liveB = gc.liveB
    BY <1>1, <1>11 DEF CancelWalk, Gc
  <2> QED BY <1>1, <1>4, <2>1 DEF DeadInv, Live
<1>12. ASSUME gc.pc \in {"blobs", "manifests"}, gc'.pc = gc.pc, gc'.liveM = gc.liveM, gc'.liveB = gc.liveB,
              gc'.victim = {}, \A y \in Manifests : HasManifest(y)' => HasManifest(y),
              \A d \in Digest \ gc.victim : There(d) => There(d)'
       PROVE  ServedInv' /\ ReadLive' /\ WalkLive' /\ DeadInv'
  <2>1. ReadLive'
    BY <1>1, <1>12, ReadKeep DEF Live
  <2>2. ASSUME NEW t \in Tags, tag[t] # None, NEW d \in Asked(tag[t]), There(d) PROVE There(d)'
    <3>1. d \in Live /\ d \in Digest
      BY <1>1, <1>2, <1>12, <2>2 DEF ReadLive
    <3> QED BY <1>1, <1>12, <2>2, <3>1 DEF DeadInv
  <2>3. ServedInv'
    BY <1>1, <1>12, <2>2, ServedShrink
  <2> QED BY <1>12, <2>1, <2>3 DEF WalkLive, DeadInv
<1>13. ASSUME NEW b \in Blobs, SweepBlob(b) PROVE ServedInv' /\ ReadLive' /\ WalkLive' /\ DeadInv'
  <2>1. /\ UNCHANGED man /\ gc.pc = "blobs" /\ gc'.pc = "blobs" /\ b \in gc.victim /\ gc'.victim = {}
        /\ gc'.liveM = gc.liveM /\ gc'.liveB = gc.liveB /\ blob' = [blob EXCEPT ![b] = "absent"]
    BY <1>1, <1>13 DEF SweepBlob, Gc
  <2>2. \A d \in Digest \ gc.victim : There(d) => There(d)'
    BY <1>1, <2>1 DEF There, Present, HasBlob, HasManifest, Digest
  <2> QED BY <1>12, <2>1, <2>2 DEF HasManifest
<1>14. ASSUME NEW m \in Manifests, SweepManifest(m) PROVE ServedInv' /\ ReadLive' /\ WalkLive' /\ DeadInv'
  <2>1. /\ UNCHANGED blob /\ gc.pc = "manifests" /\ gc'.pc = "manifests" /\ m \in gc.victim /\ gc'.victim = {}
        /\ gc'.liveM = gc.liveM /\ gc'.liveB = gc.liveB /\ man' = [man EXCEPT ![m] = "absent"]
    BY <1>1, <1>14 DEF SweepManifest, Gc
  <2>2. /\ \A d \in Digest \ gc.victim : There(d) => There(d)'
        /\ \A y \in Manifests : HasManifest(y)' => HasManifest(y)
    BY <1>1, <2>1 DEF There, Present, HasBlob, HasManifest, Digest
  <2> QED BY <1>12, <2>1, <2>2
<1>15. CASE StartManifestSweep
  <2>1. /\ UNCHANGED <<blob, man>> /\ gc.pc = "blobs" /\ gc'.pc = "manifests" /\ gc'.victim = gc.victim
        /\ gc'.liveM = gc.liveM /\ gc'.liveB = gc.liveB
    BY <1>1, <1>15 DEF StartManifestSweep, Gc
  <2> QED BY <1>1, <1>4, <2>1 DEF DeadInv, Live
<1>16. CASE EndGC
  <2>1. UNCHANGED <<blob, man>> /\ gc'.pc = "idle" /\ gc'.victim = {}
    BY <1>16 DEF EndGC, NoGc
  <2> QED BY <1>3, <2>1 DEF ReadLive, WalkLive, DeadInv
<1> QED BY <1>5, <1>6, <1>7, <1>8, <1>9, <1>10, <1>11, <1>13, <1>14, <1>15, <1>16 DEF GCStep

LEMMA WholeStep ==
  ASSUME ~Overlap, MaxFaults = 0, "manifest" \notin Reuse, WholeInv, [Next]_vars
  PROVE  WholeInv'
<1>1. /\ TypeInv' /\ Alone' /\ TypeInv /\ Alone /\ ServedInv /\ HaveInv /\ CascadeInv
      /\ ReadLive /\ WalkLive /\ DeadInv
  BY TypeStep, AloneStep DEF WholeInv
<1>2. /\ blob \in [Blobs -> Age] /\ man \in [Manifests -> Age] /\ gc \in Gc
      /\ tag \in [Tags -> Manifests \cup {None}] /\ push \in [Pushers -> Push]
  BY <1>1 DEF TypeInv, TypeOK
<1>3. ASSUME del'.pc = "idle" PROVE CascadeInv'
  BY <1>3 DEF CascadeInv
<1>4. ASSUME gc'.pc = "idle", gc'.victim = {} PROVE ReadLive' /\ WalkLive' /\ DeadInv'
  BY <1>4 DEF ReadLive, WalkLive, DeadInv
<1>5. ASSUME \A q \in Pushers : push'[q].pc = "idle" PROVE HaveInv'
  BY <1>5 DEF HaveInv, HaveOf
<1>6. ASSUME NEW p \in Pushers, PushStep(p) PROVE WholeInv'
  <2>1. gc.pc = "idle" /\ gc'.pc = "idle" /\ del'.pc = "idle"
    BY <1>1, <1>6, AlonePush
  <2>2. gc' = gc \/ \E d : gc' = [gc EXCEPT !.aged = @ \ {d}]
    BY <1>1, <1>6, PlainShape, PromotionShape DEF PushStep, Upload, WriteManifest, SetTag, AddReferrer, Refresh
  <2>3. gc'.victim = {}
    BY <1>1, <1>2, <2>1, <2>2 DEF Gc, DeadInv
  <2>4. ServedInv' /\ HaveInv'
    BY <1>6, WholePush
  <2> QED BY <1>1, <1>3, <1>4, <2>1, <2>3, <2>4 DEF WholeInv
<1>7. CASE DeleteStep
  <2>1. gc'.pc = "idle" /\ gc'.victim = {} /\ \A q \in Pushers : push'[q].pc = "idle"
    BY <1>1, <1>7, AloneDelete DEF DeadInv
  <2> QED BY <1>1, <1>4, <1>5, <1>7, <2>1, WholeDelete DEF WholeInv
<1>8. CASE GCStep
  <2>1. del'.pc = "idle" /\ \A q \in Pushers : push'[q].pc = "idle"
    BY <1>1, <1>8, AloneGC
  <2> QED BY <1>1, <1>3, <1>5, <1>8, <2>1, WholeGC DEF WholeInv
<1>9. ASSUME UNCHANGED <<tag, push, del, gc, gone>>,
             \A b \in Blobs : HasBlob(b)' <=> HasBlob(b),
             \A m \in Manifests : HasManifest(m)' <=> HasManifest(m)
      PROVE  WholeInv'
  <2>1. \A d \in Digest : (Present(d)' <=> Present(d)) /\ (There(d)' <=> There(d))
    BY <1>9 DEF Present, There, Digest
  <2>2. ServedInv'
    <3>1. \A t \in Tags : tag[t] # None => Asked(tag[t]) \subseteq Digest
      BY <1>2, PulledFacts
    <3> QED BY <1>1, <1>9, <2>1, <3>1, ServedShrink
  <2>3. HaveInv'
    <3> SUFFICES ASSUME NEW p \in Pushers, push[p].pc # "idle" PROVE HaveOf(push[p])'
      BY <1>9 DEF HaveInv, HaveOf
    <3>1. HaveOf(push[p]) /\ push[p].have \subseteq Digest
      BY <1>1, <1>2 DEF HaveInv, Push
    <3>2. push[p].pc \in Putting => push[p].cur \in Manifests
      BY <1>1 DEF TypeInv, NamedInv, Named, Putting
    <3> QED BY <1>9, <2>1, <3>1, <3>2 DEF HaveOf, Putting
  <2>4. CascadeInv'
    <3>1. CASE del.pc \in {"cascade", "reap"}
      <4>1. del.image \in Manifests /\ (del.pc = "reap" => del.idx \cap del.live = {})
        BY <1>1, <3>1 DEF TypeInv, NamedInv, CascadeInv
      <4> QED BY <1>1, <1>9, <3>1, <4>1, CascadeKeep
    <3>2. CASE del.pc \notin {"cascade", "reap"}
      <4>1. del.pc # "idle" => del.image \in Manifests
        BY <1>1 DEF TypeInv, NamedInv
      <4> QED BY <1>1, <1>9, <3>2, <4>1 DEF CascadeInv
    <3> QED BY <3>1, <3>2
  <2>5. ReadLive'
    <3> SUFFICES ASSUME gc'.pc # "idle", NEW t \in Tags, tag'[t] # None, ~(gc'.pc = "tags" /\ t \in gc'.tags)
                 PROVE  Asked(tag[t])' \subseteq Live'
      BY DEF ReadLive
    <3>1. PICK m \in Manifests : m = tag[t] /\ m = tag'[t] /\ tag[t] # None
      BY <1>2, <1>9
    <3>2. Asked(m)' = Asked(m) /\ Asked(m) \subseteq Live /\ Live' = Live
      BY <1>1, <1>9, <3>1, PulledSame DEF ReadLive, Live
    <3> QED BY <3>1, <3>2 DEF Asked, Pulled
  <2>6. WalkLive' /\ DeadInv'
    BY <1>1, <1>2, <1>9 DEF WalkLive, DeadInv, Live, Gc
  <2> QED BY <1>1, <2>2, <2>3, <2>4, <2>5, <2>6 DEF WholeInv
<1>10. CASE UNCHANGED vars
  BY <1>9, <1>10 DEF vars, HasBlob, HasManifest
<1>11. CASE GrowOld
  <2>1. UNCHANGED <<tag, push, del, gc, gone>>
    BY <1>11 DEF GrowOld
  <2>2. /\ \A b \in Blobs : HasBlob(b)' <=> HasBlob(b)
        /\ \A m \in Manifests : HasManifest(m)' <=> HasManifest(m)
    BY <1>2, <1>11 DEF GrowOld, GrowOldBlob, GrowOldManifest, HasBlob, HasManifest
  <2> QED BY <1>9, <2>1, <2>2
<1> QED BY <1>6, <1>7, <1>8, <1>10, <1>11 DEF Next

LEMMA WholeInit == Init => WholeInv
<1> SUFFICES ASSUME Init PROVE WholeInv
  OBVIOUS
<1>1. /\ tag = [t \in Tags |-> None] /\ push = [p \in Pushers |-> NoPush]
      /\ del.pc = "idle" /\ gc.pc = "idle" /\ gc.victim = {}
  BY DEF Init, NoDel, NoGc
<1>2. ServedInv /\ HaveInv /\ CascadeInv /\ ReadLive /\ WalkLive /\ DeadInv
  BY <1>1 DEF ServedInv, HaveInv, HaveOf, NoPush, CascadeInv, ReadLive, WalkLive, DeadInv
<1> QED BY <1>2, TypeInit, AloneInit DEF WholeInv

LEMMA WholeTags ==
  ASSUME WholeInv
  PROVE  TagClosed
<1> SUFFICES ASSUME NEW t \in Tags, tag[t] # None, All(tag[t]) \cap gone = {}
             PROVE  /\ \A x \in Tree(tag[t]) : HasManifest(x)
                    /\ \A b \in TreeBlobs(tag[t]) : HasBlob(b)
  BY DEF TagClosed, All
<1>1. PICK m \in Manifests : m = tag[t]
  BY DEF WholeInv, TypeInv, TypeOK
<1>2. \A d \in Asked(m) : Present(d)
  BY <1>1, PulledTree DEF WholeInv, ServedInv, There
<1>3. \A x \in Pulled(m) : x \in Manifests /\ HasManifest(x)
  BY <1>2, PulledFacts, DigestAssumption DEF Asked, Present
<1>4. Tree(m) \subseteq Pulled(m)
  BY <1>3, PulledFacts, TreeLeast
<1>5. TreeBlobs(m) \subseteq Blobs
  BY TreeFacts, ContentAssumption DEF TreeBlobs
<1>6. TreeBlobs(m) \subseteq Asked(m)
  BY <1>3, <1>4 DEF TreeBlobs, Asked
<1> QED BY <1>1, <1>2, <1>3, <1>4, <1>5, <1>6 DEF Present

\* Operations run one at a time, no read of the mark fails, and no client takes a
\* manifest it finds here for one it need not push: a tag can be pulled whole, for all
\* contents shared in any way between images, but for what a client itself has deleted.
\* Neither the cascade of a deletion nor the collector takes from it.
THEOREM TagClosedSerial ==
  ASSUME ~Overlap, MaxFaults = 0, "manifest" \notin Reuse
  PROVE  Spec => []TagClosed
<1>1. WholeInv => TagClosed
  BY WholeTags
<1>2. WholeInv /\ [Next]_vars => WholeInv'
  BY WholeStep
<1> QED BY <1>1, <1>2, WholeInit, PTL DEF Spec
=============================================================================
