--------------------------- MODULE DockerRegistry ----------------------------
(***************************************************************************)
(* A local Docker/OCI repository: manifests, tags and referrers indexes on *)
(* the file system, blobs in the content store, clients that push, delete  *)
(* and are cut off, and the mark-and-sweep collector that runs beside      *)
(* them.                                                                   *)
(*                                                                         *)
(* A digest stands for its content, so what a manifest refers to is a      *)
(* constant.  Stored content is young (inside the grace window MinAge) or  *)
(* old.  The window is assumed longer than a push and than a mark: nothing *)
(* grows old while a push that was in flight when it was stored goes on,   *)
(* nor while a mark goes on.  The calls that change or read the store are  *)
(* separate steps; the walk of one tag's manifests is one step, and so is  *)
(* a promotion's look for a manifest with the fallback tag it sets for it. *)
(* The calls that may fail are those on a referrers index and the reads of *)
(* a mark.                                                                 *)
(*                                                                         *)
(* An operator whose comment starts with "Faulty:" is not part of the      *)
(* model: it is what the definition after it would be with a plausible     *)
(* mistake, and a property must fail when it takes that place.             *)
(***************************************************************************)
EXTENDS Naturals, FiniteSets

CONSTANTS Blobs, Manifests,  \* digests of blobs and of manifests
          Tags,
          Immutable,         \* the tags the policy makes immutable
          Layers,            \* config and layers of a manifest
          Subs,              \* sub-manifests of an image index
          Subject,           \* subject of a manifest, or None
          Cosigned,          \* the manifest whose cosign fallback tag a tag
                             \* is by its name, or None
          SourceTag,         \* where a fallback tag points in the repository
                             \* images are promoted from, or None
          None,
          Pushers,           \* clients, each with one push in flight
          Reuse,             \* what clients look for before they upload it:
                             \* "blob", "manifest"
          Fresh,             \* clients push only what is not stored yet
          Overlap,           \* operations run beside one another
          Deletes,           \* what clients delete: "tag", "manifest", "blob"
          Promotes,          \* images are promoted into this repository
          MaxFaults          \* bound on calls that fail

ASSUME ImmutableAssumption == Immutable \subseteq Tags
ASSUME NoneAssumption == None \notin Manifests \cup Blobs \cup Tags
ASSUME DigestAssumption == Blobs \cap Manifests = {}
ASSUME ContentAssumption ==
  /\ Layers \in [Manifests -> SUBSET Blobs]
  /\ Subs \in [Manifests -> SUBSET Manifests]
  /\ Subject \in [Manifests -> Manifests \cup {None}]
  /\ Cosigned \in [Tags -> Manifests \cup {None}]
  /\ SourceTag \in [Tags -> Manifests \cup {None}]
ASSUME SwitchAssumption ==
  /\ Reuse \subseteq {"blob", "manifest"} /\ Fresh \in BOOLEAN /\ Overlap \in BOOLEAN
  /\ Promotes \in BOOLEAN
  /\ Deletes \subseteq {"tag", "manifest", "blob"}
  /\ MaxFaults \in Nat

VARIABLES blob,     \* the age of each blob in the content store
          man,      \* the age of each manifest file
          tag,      \* the digest each tag points at
          refs,     \* the referrers index of each subject
          push,     \* the push of each client
          del,      \* the manifest deletion that holds deleteMu
          gc,       \* the collector's pass
          torn,     \* the subjects whose index was cut off by a failed write
          faults,   \* failed calls so far
          gone,     \* history: content a client deleted and nobody pushed since
          unlisted  \* history: referrers a failed call, or a deletion of them
                    \* or of their subject, took out of the index, and nobody
                    \* listed since

vars == <<blob, man, tag, refs, push, del, gc, faults, gone, torn, unlisted>>

Age == {"absent", "young", "old"}
Digest == Blobs \cup Manifests

Push == [pc : {"idle", "collect", "check", "write", "settag", "readref", "writeref"},
         by : {"client", "promotion"},
         image : Manifests \cup {None}, ref : Tags \cup {None},
         have : SUBSET Digest, since : SUBSET Digest, tags : SUBSET Tags,
         cur : Manifests \cup {None}, idx : SUBSET Manifests]
NoPush == [pc |-> "idle", by |-> "client", image |-> None, ref |-> None, have |-> {}, since |-> {},
           tags |-> {}, cur |-> None, idx |-> {}]

Del == [pc : {"idle", "read", "unref", "delete", "index", "mark", "cascade", "reap"},
        image : Manifests \cup {None}, subs : SUBSET Manifests,
        idx : SUBSET Manifests, live : SUBSET Manifests, aged : SUBSET Digest]
NoDel == [pc |-> "idle", image |-> None, subs |-> {}, idx |-> {}, live |-> {},
          aged |-> {}]

Gc == [pc : {"idle", "tags", "refs", "blobs", "manifests"},
       tags : SUBSET Tags, liveM : SUBSET Manifests, liveB : SUBSET Blobs,
       aged : SUBSET Digest, todo : SUBSET Digest, victim : SUBSET Digest,
       cut : BOOLEAN]
NoGc == [pc |-> "idle", tags |-> {}, liveM |-> {}, liveB |-> {},
         aged |-> {}, todo |-> {}, victim |-> {}, cut |-> FALSE]

TypeOK ==
  /\ blob \in [Blobs -> Age]
  /\ man \in [Manifests -> Age]
  /\ tag \in [Tags -> Manifests \cup {None}]
  /\ refs \in [Manifests -> SUBSET Manifests]
  /\ push \in [Pushers -> Push]
  /\ del \in Del
  /\ gc \in Gc
  /\ faults \in 0..MaxFaults
  /\ gone \in SUBSET Digest
  /\ torn \in SUBSET Manifests
  /\ unlisted \in SUBSET Manifests

------------------------------------------------------------------------------
HasBlob(b) == blob[b] # "absent"
HasManifest(m) == man[m] # "absent"

\* Every manifest a client pulls for m, sub-manifests included: the least set
\* that holds m and is closed under Subs.
Below == [m \in Manifests |->
  {x \in Manifests : \A X \in SUBSET Manifests :
     (m \in X /\ \A y \in X : Subs[y] \subseteq X) => x \in X}]
Tree(m) == Below[m]
TreeBlobs(m) == UNION {Layers[x] : x \in Tree(m)}

\* The fallback tags the source has for m.
Fallbacks(m) == {t \in Tags : Cosigned[t] = m /\ SourceTag[t] # None}

\* What a promotion copies: the manifests below m with those that refer to
\* them, and theirs, as the source's referrers indexes and its fallback tags
\* list them.
Referring(m) == {r \in Manifests : Subject[r] = m} \cup {SourceTag[t] : t \in Fallbacks(m)}
Copied == [m \in Manifests |->
  {x \in Manifests : \A X \in SUBSET Manifests :
     (m \in X /\ \A y \in X : Subs[y] \cup Referring(y) \subseteq X)
     => x \in X}]

\* The manifests and the blobs that the push of p is to leave here.
Promoted(p) == push[p].by = "promotion"
Wanted(p) == IF Promoted(p) THEN Copied[push[p].image] ELSE Tree(push[p].image)
WantedBlobs(p) == UNION {Layers[x] : x \in Wanted(p)}

PushersIdle == \A p \in Pushers : push[p].pc = "idle"
MayStart == Overlap \/ (PushersIdle /\ del.pc = "idle" /\ gc.pc = "idle")

Init ==
  /\ blob = [b \in Blobs |-> "absent"]
  /\ man = [m \in Manifests |-> "absent"]
  /\ tag = [t \in Tags |-> None]
  /\ refs = [m \in Manifests |-> {}]
  /\ push = [p \in Pushers |-> NoPush]
  /\ del = NoDel
  /\ gc = NoGc
  /\ torn = {}
  /\ faults = 0
  /\ gone = {}
  /\ unlisted = {}

------------------------------------------------------------------------------
\* A client pushes image m under a tag, or by digest: the blobs and the
\* sub-manifests first, each manifest when everything it names is there.
StartPush(p, m, t) ==
  /\ MayStart
  /\ push[p].pc = "idle"
  /\ Fresh => /\ \A x \in Tree(m) : ~HasManifest(x)
              /\ \A b \in TreeBlobs(m) : ~HasBlob(b)
  /\ push' = [push EXCEPT ![p] = [NoPush EXCEPT !.pc = "collect", !.image = m, !.ref = t]]
  /\ UNCHANGED <<blob, man, tag, refs, del, gc, faults, gone, torn, unlisted>>

\* PromoteVersion out of a source that is whole: the immutable tag is looked at
\* first, before anything is copied; its fallback tags are set on the way.
StartPromotion(p, m, t) ==
  /\ MayStart
  /\ Promotes
  /\ push[p].pc = "idle"
  /\ t \in Tags /\ Cosigned[t] # None => m = SourceTag[t]
  /\ t \in Immutable => tag[t] \in {None, m}
  /\ push' = [push EXCEPT ![p] = [NoPush EXCEPT !.pc = "collect", !.by = "promotion",
                                                !.image = m, !.ref = t,
                        !.tags = UNION {Fallbacks(x) : x \in Copied[m]}]]
  /\ UNCHANGED <<blob, man, tag, refs, del, gc, faults, gone, torn, unlisted>>

\* Content stored now is younger than the clock a sweep or a deletion has
\* read, and than every push in flight.
Refresh(d) ==
  /\ gc' = [gc EXCEPT !.aged = @ \ {d}]
  /\ del' = [del EXCEPT !.aged = @ \ {d}]
Stored(pushes, d) ==
  [q \in Pushers |-> IF pushes[q].pc = "idle" THEN pushes[q]
                     ELSE [pushes[q] EXCEPT !.since = @ \cup {d}]]

\* POST, PATCH and PUT of an upload: the blob is committed to the content
\* store with a new modification time, also when it was there. A promotion
\* copies a blob only when it is not there.
CopyBlob(p, b) == Promoted(p) => ~HasBlob(b)
Upload(p, b) ==
  /\ push[p].pc = "collect"
  /\ b \in WantedBlobs(p) \ push[p].have
  /\ CopyBlob(p, b)
  /\ blob' = [blob EXCEPT ![b] = "young"]
  /\ push' = Stored([push EXCEPT ![p].have = @ \cup {b}], b)
  /\ Refresh(b)
  /\ gone' = gone \ {b}
  /\ UNCHANGED <<man, tag, refs, faults, torn, unlisted>>

\* HEAD of a blob or a sub-manifest: the client skips what is there, and
\* everything below a sub-manifest that is there. A promotion asks for blobs.
Found(p) ==
  {b \in WantedBlobs(p) : ("blob" \in Reuse \/ Promoted(p)) /\ HasBlob(b)} \cup
  {x \in Wanted(p) \ {push[p].image} :
     "manifest" \in Reuse /\ ~Promoted(p) /\ HasManifest(x)}

Head(p, d) ==
  /\ push[p].pc = "collect"
  /\ d \in Found(p) \ push[p].have
  /\ push' = [push EXCEPT ![p].have = @ \cup {d}]
  /\ UNCHANGED <<blob, man, tag, refs, del, gc, faults, gone, torn, unlisted>>

\* The client is cut off between two requests.
AbortPush(p) ==
  /\ push[p].pc = "collect"
  /\ push' = [push EXCEPT ![p] = NoPush]
  /\ UNCHANGED <<blob, man, tag, refs, del, gc, faults, gone, torn, unlisted>>

\* The tag of the manifest being put: sub-manifests are put by digest, and a
\* promotion sets its tag when everything is copied.
RefOf(p) == IF push[p].cur = push[p].image /\ ~Promoted(p) THEN push[p].ref ELSE None

\* PUT of a manifest is answered: the push goes on, or ends with the image; a
\* promotion has its tags to set.
Answer(p) ==
  IF push[p].cur = push[p].image /\ ~Promoted(p)
  THEN [push EXCEPT ![p] = NoPush]
  ELSE [push EXCEPT ![p].pc = "collect", ![p].have = @ \cup {push[p].cur},
                    ![p].cur = None, ![p].idx = {}]

\* The step after a manifest was written and, if it has one, its tag.
ThenReferrers(p) ==
  IF Subject[push[p].cur] # None
  THEN [push EXCEPT ![p].pc = "readref"]
  ELSE Answer(p)

PutManifest(p, x) ==
  /\ push[p].pc = "collect"
  /\ x \in Wanted(p) \ push[p].have
  /\ Layers[x] \cup Subs[x] \subseteq push[p].have
  /\ Promoted(p) => Subject[x] \in push[p].have \cup {None} \cup (Manifests \ Wanted(p))
  /\ push' = [push EXCEPT ![p].cur = x,
       ![p].pc = IF x = push[p].image /\ push[p].ref \in Immutable /\ ~Promoted(p)
                 THEN "check" ELSE "write"]
  /\ UNCHANGED <<blob, man, tag, refs, del, gc, faults, gone, torn, unlisted>>

\* Faulty: the immutable tag is not looked at.
CheckImmutableTagSkipped(p) ==
  /\ push[p].pc = "check"
  /\ push' = [push EXCEPT ![p].pc = "write"]
  /\ UNCHANGED <<blob, man, tag, refs, del, gc, faults, gone, torn, unlisted>>

\* An immutable tag that points elsewhere refuses the push.
CheckImmutableTag(p) ==
  /\ push[p].pc = "check"
  /\ push' = IF tag[RefOf(p)] \in {None, push[p].cur}
             THEN [push EXCEPT ![p].pc = "write"]
             ELSE [push EXCEPT ![p] = NoPush]
  /\ UNCHANGED <<blob, man, tag, refs, del, gc, faults, gone, torn, unlisted>>

WriteManifest(p) ==
  /\ push[p].pc = "write"
  /\ man' = [man EXCEPT ![push[p].cur] = "young"]
  /\ gone' = gone \ {push[p].cur}
  /\ push' = Stored(IF RefOf(p) # None THEN [push EXCEPT ![p].pc = "settag"]
                    ELSE ThenReferrers(p), push[p].cur)
  /\ Refresh(push[p].cur)
  /\ UNCHANGED <<blob, tag, refs, faults, torn, unlisted>>

SetTag(p) ==
  /\ push[p].pc = "settag"
  /\ tag' = [tag EXCEPT ![push[p].ref] = push[p].cur]
  /\ push' = ThenReferrers(p)
  /\ UNCHANGED <<blob, man, refs, del, gc, faults, gone, torn, unlisted>>

\* A promotion sets the fallback tags of what it copied, if it finds the manifest;
\* the immutable tags are not asked about.
SetFallbackTag(p, t) ==
  /\ push[p].pc = "collect" /\ Promoted(p)
  /\ t \in push[p].tags /\ {Cosigned[t], SourceTag[t]} \subseteq push[p].have
  /\ tag' = IF HasManifest(SourceTag[t]) THEN [tag EXCEPT ![t] = SourceTag[t]] ELSE tag
  /\ push' = [push EXCEPT ![p].tags = @ \ {t}]
  /\ UNCHANGED <<blob, man, refs, del, gc, faults, gone, torn, unlisted>>

\* When everything is copied, a promotion sets its own tag and ends.
EndPromotion(p) ==
  /\ push[p].pc = "collect" /\ Promoted(p)
  /\ Wanted(p) \subseteq push[p].have /\ push[p].tags = {}
  /\ tag' = [t \in Tags |-> IF t = push[p].ref THEN push[p].image ELSE tag[t]]
  /\ push' = [push EXCEPT ![p] = NoPush]
  /\ UNCHANGED <<blob, man, refs, del, gc, faults, gone, torn, unlisted>>

Fails == faults < MaxFaults /\ faults' = faults + 1

\* AddReferrer reads the subject's index and writes it back, without a lock. An
\* index it cannot read it takes for an empty one.
ReadReferrers(p) ==
  /\ push[p].pc = "readref"
  /\ LET listed == refs[Subject[push[p].cur]]
     IN  \/ /\ push' = [push EXCEPT ![p].idx = listed, ![p].pc = "writeref"]
           /\ UNCHANGED <<faults, unlisted>>
        \/ /\ Fails
           /\ push' = [push EXCEPT ![p].idx = {}, ![p].pc = "writeref"]
           /\ unlisted' = unlisted \cup listed
  /\ UNCHANGED <<blob, man, tag, refs, del, gc, gone, torn>>

\* An index is written whole. Listing again what a failure dropped puts it right.
WriteIndex(s, listed) ==
  /\ refs' = [refs EXCEPT ![s] = listed]
  /\ torn' = torn \ {s}

\* A write of an index fails: it is as it was, or cut off, and then reads as empty.
WriteFails(s) ==
  /\ Fails
  /\ \/ UNCHANGED <<refs, torn>>
     \/ refs' = [refs EXCEPT ![s] = {}] /\ torn' = torn \cup {s}

\* Faulty: the index is replaced instead of extended.
AddReferrerReplaces(p) ==
  /\ push[p].pc = "writeref"
  /\ WriteIndex(Subject[push[p].cur], {push[p].cur})
  /\ unlisted' = unlisted \ {push[p].cur}
  /\ push' = Answer(p)
  /\ UNCHANGED <<blob, man, tag, del, gc, faults, gone>>

\* A push is answered as if the index had been written; a promotion ends.
AddReferrer(p) ==
  /\ push[p].pc = "writeref"
  /\ LET s == Subject[push[p].cur]
     IN  \/ /\ WriteIndex(s, push[p].idx \cup {push[p].cur})
           /\ unlisted' = unlisted \ refs'[s]
           /\ push' = Answer(p)
           /\ UNCHANGED faults
        \/ /\ WriteFails(s)
           /\ unlisted' = unlisted \cup ((refs[s] \cup {push[p].cur}) \ refs'[s])
           /\ push' = IF Promoted(p) THEN [push EXCEPT ![p] = NoPush] ELSE Answer(p)
  /\ UNCHANGED <<blob, man, tag, del, gc, gone>>

------------------------------------------------------------------------------
\* DELETE of a tag drops the pointer; an immutable tag is refused.
DeleteTag(t) ==
  /\ MayStart
  /\ "tag" \in Deletes
  /\ t \notin Immutable /\ tag[t] # None
  /\ tag' = [tag EXCEPT ![t] = None]
  /\ UNCHANGED <<blob, man, refs, push, del, gc, faults, gone, torn, unlisted>>

\* DELETE of a blob.
DeleteBlob(b) ==
  /\ MayStart
  /\ "blob" \in Deletes
  /\ HasBlob(b)
  /\ blob' = [blob EXCEPT ![b] = "absent"]
  /\ gone' = gone \cup {b}
  /\ UNCHANGED <<man, tag, refs, push, del, gc, faults, torn, unlisted>>

\* The immutable tags that point at m.
ImmutableTagsPointingAt(m) == {t \in Immutable : tag[t] = m}

\* DELETE of a manifest by digest, one at a time under deleteMu.  First the
\* immutable tags that point at it are looked up.
DeleteManifestStart(m) ==
  /\ MayStart
  /\ "manifest" \in Deletes
  /\ del.pc = "idle"
  /\ ImmutableTagsPointingAt(m) = {}
  /\ del' = [NoDel EXCEPT !.pc = "read", !.image = m]
  /\ UNCHANGED <<blob, man, tag, refs, push, gc, faults, gone, torn, unlisted>>

\* The body is read for its subject and sub-manifests; without it the
\* deletion goes on and has neither. An index that cannot be read is left alone.
DeleteManifestRead ==
  /\ del.pc = "read"
  /\ LET skip == [del EXCEPT !.pc = "delete", !.subs = Subs[del.image]]
     IN  \/ /\ del' = IF ~HasManifest(del.image) THEN [del EXCEPT !.pc = "delete"]
                      ELSE IF Subject[del.image] = None THEN skip
                      ELSE [skip EXCEPT !.pc = "unref", !.idx = refs[Subject[del.image]]]
           /\ UNCHANGED faults
        \/ /\ HasManifest(del.image) /\ Subject[del.image] # None
           /\ Fails
           /\ del' = skip
  /\ UNCHANGED <<blob, man, tag, refs, push, gc, gone, torn, unlisted>>

\* RemoveReferrer writes back the index it read; an empty one is removed. Its
\* failure is not looked at.
RemoveReferrer ==
  /\ del.pc = "unref"
  /\ LET s == Subject[del.image]
     IN  \/ /\ WriteIndex(s, del.idx \ {del.image})
           /\ unlisted' = unlisted \cup {del.image}
           /\ UNCHANGED faults
        \/ /\ WriteFails(s)
           /\ unlisted' = unlisted \cup (refs[s] \ refs'[s])
  /\ del' = [del EXCEPT !.pc = "delete", !.idx = {}]
  /\ UNCHANGED <<blob, man, tag, push, gc, gone>>

DeleteManifest ==
  /\ del.pc = "delete"
  /\ IF HasManifest(del.image)
     THEN /\ man' = [man EXCEPT ![del.image] = "absent"]
          /\ gone' = gone \cup {del.image}
          /\ del' = [del EXCEPT !.pc = "index"]
     ELSE del' = NoDel /\ UNCHANGED <<man, gone>>
  /\ UNCHANGED <<blob, tag, refs, push, gc, faults, torn, unlisted>>

DropIndex(s) ==
  /\ WriteIndex(s, {})
  /\ unlisted' = unlisted \cup refs[s]

DeleteReferrersIndex ==
  /\ del.pc = "index"
  /\ \/ DropIndex(del.image) /\ UNCHANGED faults
     \/ Fails /\ UNCHANGED <<refs, torn, unlisted>>
  /\ del' = IF del.subs = {} THEN NoDel ELSE [del EXCEPT !.pc = "mark"]
  /\ UNCHANGED <<blob, man, tag, push, gc, gone>>

\* What a walk from m newly reaches: it stops at what is live already and at
\* what cannot be read, and follows sub-manifests and the subject.
Children(x) == Subs[x] \cup ({Subject[x]} \ {None})
Walk(m, live) ==
  {x \in Manifests \ live : \A X \in SUBSET (Manifests \ live) :
     ( /\ m \notin live => m \in X
       /\ \A y \in X : HasManifest(y) => Children(y) \ live \subseteq X )
     => x \in X}

\* What the referrers indexes keep: each subject that has one, also a torn one,
\* and the referrers it lists, without walking either.
Indexed(except) ==
  LET subjects == {s \in Manifests \ {except} : refs[s] # {} \/ s \in torn}
  IN  subjects \cup ((UNION {refs[s] : s \in subjects}) \ {except})

\* Faulty: the other tags of the repository are forgotten.
MarkScopedReferrersOnly(except) == Indexed(except)

\* markRepoScoped: the tags, without those that point at the manifest being
\* deleted, then the referrers indexes.
MarkScoped(except) ==
  Indexed(except) \cup
  UNION {Walk(tag[t], {}) : t \in {u \in Tags : tag[u] \notin {None, except}}}

\* What cannot be read is not marked.
CascadeMark ==
  /\ del.pc = "mark"
  /\ \E live \in SUBSET MarkScoped(del.image) :
       /\ (live = MarkScoped(del.image) /\ UNCHANGED faults) \/ Fails
       /\ del' = [del EXCEPT !.pc = "cascade", !.live = live,
                             !.aged = {m \in Manifests : man[m] = "old"}]
  /\ UNCHANGED <<blob, man, tag, refs, push, gc, gone, torn, unlisted>>

\* Each sub-manifest in turn: kept when live or young.  One without a file
\* has no modification time and is not taken for young.
CascadeCheck(x) ==
  /\ del.pc = "cascade" /\ x \in del.subs
  /\ del' = IF x \notin del.live /\ (x \in del.aged \/ ~HasManifest(x))
            THEN [del EXCEPT !.pc = "reap", !.idx = {x}]
            ELSE IF del.subs = {x} THEN NoDel
            ELSE [del EXCEPT !.subs = @ \ {x}]
  /\ UNCHANGED <<blob, man, tag, refs, push, gc, faults, gone, torn, unlisted>>

CascadeReap(x) ==
  /\ del.pc = "reap" /\ x \in del.idx
  /\ man' = [man EXCEPT ![x] = "absent"]
  /\ IF HasManifest(x) THEN DropIndex(x) ELSE UNCHANGED <<refs, torn, unlisted>>
  /\ del' = IF del.subs = {x} THEN NoDel
            ELSE [del EXCEPT !.pc = "cascade", !.subs = @ \ {x}, !.idx = {}]
  /\ UNCHANGED <<blob, tag, push, gc, faults, gone>>

------------------------------------------------------------------------------
\* The collector.  Mark: the tags listed at the start, one by one, then the
\* referrers indexes.  When the listing fails nothing is marked, the error is
\* recorded, and the pass goes on.
StartGC ==
  /\ MayStart
  /\ gc.pc = "idle"
  /\ \/ /\ gc' = [NoGc EXCEPT !.pc = "tags", !.tags = {t \in Tags : tag[t] # None}]
        /\ UNCHANGED faults
     \/ /\ Fails
        /\ gc' = [NoGc EXCEPT !.pc = "refs"]
  /\ UNCHANGED <<blob, man, tag, refs, push, del, gone, torn, unlisted>>

\* One tag is read and its manifests are walked; a failing read of the tag or
\* of its manifest is recorded and the pass goes on.
MarkTag(t) ==
  /\ gc.pc = "tags" /\ t \in gc.tags
  /\ \/ LET new == IF tag[t] = None THEN {} ELSE Walk(tag[t], gc.liveM)
        IN  /\ gc' = [gc EXCEPT !.tags = @ \ {t}, !.liveM = @ \cup new,
                 !.liveB = @ \cup UNION {Layers[x] : x \in {y \in new : HasManifest(y)}}]
            /\ UNCHANGED faults
     \/ /\ Fails
        /\ \E new \in {{}, {tag[t]} \ {None}} :
             gc' = [gc EXCEPT !.tags = @ \ {t}, !.liveM = @ \cup new]
  /\ UNCHANGED <<blob, man, tag, refs, push, del, gone, torn, unlisted>>

\* Faulty: the referrers indexes are not read.
MarkReferrersSkipped ==
  /\ gc.pc = "tags" /\ gc.tags = {}
  /\ gc' = [gc EXCEPT !.pc = "refs"]
  /\ UNCHANGED <<blob, man, tag, refs, push, del, faults, gone, torn, unlisted>>

\* The subjects and the referrers of every index become live.  The call that
\* should walk a referrer finds it live already and returns. An index that cannot
\* be read marks less.
MarkReferrers ==
  /\ gc.pc = "tags" /\ gc.tags = {}
  /\ \E new \in SUBSET Indexed(None) :
       /\ (new = Indexed(None) /\ UNCHANGED faults) \/ Fails
       /\ gc' = [gc EXCEPT !.pc = "refs", !.liveM = @ \cup new]
  /\ UNCHANGED <<blob, man, tag, refs, push, del, gone, torn, unlisted>>

\* Faulty: the grace window is not applied.
StartSweepAll ==
  /\ gc.pc = "refs"
  /\ gc' = [gc EXCEPT !.pc = "blobs", !.todo = Blobs, !.aged = Digest]
  /\ UNCHANGED <<blob, man, tag, refs, push, del, faults, gone, torn, unlisted>>

\* Sweep: the clock is read once, so only what is old now can be swept.
StartSweep ==
  /\ gc.pc = "refs"
  /\ gc' = [gc EXCEPT !.pc = "blobs", !.todo = Blobs,
              !.aged = {b \in Blobs : blob[b] = "old"} \cup {m \in Manifests : man[m] = "old"}]
  /\ UNCHANGED <<blob, man, tag, refs, push, del, faults, gone, torn, unlisted>>

\* An item the walk lists is examined: what is live or young is passed over,
\* and so is a blob that has gone; a manifest file that has gone has no
\* modification time and is not taken for young.
Examine(d, live, swept) ==
  /\ d \in gc.todo /\ gc.victim = {}
  /\ gc' = [gc EXCEPT !.todo = @ \ {d},
              !.victim = IF d \notin live /\ swept THEN {d} ELSE {}]
  /\ UNCHANGED <<blob, man, tag, refs, push, del, faults, gone, torn, unlisted>>

ExamineBlob(b) ==
  gc.pc = "blobs" /\ Examine(b, gc.liveB, b \in gc.aged /\ HasBlob(b))
ExamineManifest(m) ==
  gc.pc = "manifests" /\ Examine(m, gc.liveM, m \in gc.aged \/ ~HasManifest(m))

\* The caller goes away: the blob walk stops, the manifests are still swept.
CancelWalk ==
  /\ gc.pc = "blobs" /\ gc.todo # {} /\ gc.victim = {}
  /\ gc' = [gc EXCEPT !.todo = {}, !.cut = TRUE]
  /\ UNCHANGED <<blob, man, tag, refs, push, del, faults, gone, torn, unlisted>>

SweepBlob(b) ==
  /\ gc.pc = "blobs" /\ b \in gc.victim
  /\ blob' = [blob EXCEPT ![b] = "absent"]
  /\ gc' = [gc EXCEPT !.victim = {}]
  /\ UNCHANGED <<man, tag, refs, push, del, faults, gone, torn, unlisted>>

SweepManifest(m) ==
  /\ gc.pc = "manifests" /\ m \in gc.victim
  /\ man' = [man EXCEPT ![m] = "absent"]
  /\ gc' = [gc EXCEPT !.victim = {}]
  /\ UNCHANGED <<blob, tag, refs, push, del, faults, gone, torn, unlisted>>

\* Faulty: only the manifests of a referrers index are listed.
StartManifestSweepIndexed ==
  /\ gc.pc = "blobs" /\ gc.todo = {} /\ gc.victim = {}
  /\ gc' = [gc EXCEPT !.pc = "manifests", !.todo = Indexed(None)]
  /\ UNCHANGED <<blob, man, tag, refs, push, del, faults, gone, torn, unlisted>>

\* The manifest files are listed once the blob walk is over.
StartManifestSweep ==
  /\ gc.pc = "blobs" /\ gc.todo = {} /\ gc.victim = {}
  /\ gc' = [gc EXCEPT !.pc = "manifests", !.todo = {m \in Manifests : HasManifest(m)}]
  /\ UNCHANGED <<blob, man, tag, refs, push, del, faults, gone, torn, unlisted>>

GCDone == gc.pc = "manifests" /\ gc.todo = {} /\ gc.victim = {}

EndGC ==
  /\ GCDone
  /\ gc' = NoGc
  /\ UNCHANGED <<blob, man, tag, refs, push, del, faults, gone, torn, unlisted>>

------------------------------------------------------------------------------
\* Content leaves the grace window.
Held(d) == \E p \in Pushers : d \in push[p].since

GrowOldBlob(b) ==
  /\ blob[b] = "young" /\ ~Held(b)
  /\ blob' = [blob EXCEPT ![b] = "old"]
  /\ UNCHANGED man
GrowOldManifest(m) ==
  /\ man[m] = "young" /\ ~Held(m)
  /\ man' = [man EXCEPT ![m] = "old"]
  /\ UNCHANGED blob

GrowOld ==
  /\ gc.pc \notin {"tags", "refs"}
  /\ (\E b \in Blobs : GrowOldBlob(b)) \/ (\E m \in Manifests : GrowOldManifest(m))
  /\ UNCHANGED <<tag, refs, push, del, gc, faults, gone, torn, unlisted>>

PushStep(p) ==
  \/ \E m \in Manifests, t \in Tags \cup {None} : StartPush(p, m, t) \/ StartPromotion(p, m, t)
  \/ \E b \in Blobs : Upload(p, b)
  \/ \E d \in Digest : Head(p, d)
  \/ AbortPush(p)
  \/ \E x \in Manifests : PutManifest(p, x)
  \/ CheckImmutableTag(p) \/ WriteManifest(p) \/ SetTag(p)
  \/ \E t \in Tags : SetFallbackTag(p, t)
  \/ EndPromotion(p)
  \/ ReadReferrers(p) \/ AddReferrer(p)

DeleteStep ==
  \/ \E t \in Tags : DeleteTag(t)
  \/ \E b \in Blobs : DeleteBlob(b)
  \/ \E m \in Manifests : DeleteManifestStart(m)
  \/ DeleteManifestRead \/ RemoveReferrer \/ DeleteManifest \/ DeleteReferrersIndex
  \/ CascadeMark
  \/ \E x \in Manifests : CascadeCheck(x) \/ CascadeReap(x)

GCStep ==
  \/ StartGC
  \/ \E t \in Tags : MarkTag(t)
  \/ MarkReferrers \/ StartSweep
  \/ \E b \in Blobs : ExamineBlob(b) \/ SweepBlob(b)
  \/ CancelWalk \/ StartManifestSweep
  \/ \E m \in Manifests : ExamineManifest(m) \/ SweepManifest(m)
  \/ EndGC

Next == (\E p \in Pushers : PushStep(p)) \/ DeleteStep \/ GCStep \/ GrowOld

Spec == Init /\ [][Next]_vars

------------------------------------------------------------------------------
\* A tag can be pulled: every manifest and every blob of the image it points
\* at is stored, unless a client deleted one of them.
TagClosed ==
  \A t \in Tags : tag[t] # None =>
    LET m == tag[t]
    IN  (Tree(m) \cup TreeBlobs(m)) \cap gone = {} =>
          /\ \A x \in Tree(m) : HasManifest(x)
          /\ \A b \in TreeBlobs(m) : HasBlob(b)

\* A referrers index lists only manifests that are stored.
ReferrersSound == \A s \in Manifests : \A r \in refs[s] : HasManifest(r)

\* A stored manifest with a subject is listed in the subject's index once its
\* push has been answered, unless a call on the index failed, or it or its
\* subject was deleted, and it has not been listed since.
ReferrersComplete ==
  \A r \in Manifests \ unlisted :
    HasManifest(r) /\ Subject[r] # None /\ (\A p \in Pushers : push[p].cur # r)
      => r \in refs[Subject[r]]

\* An immutable tag, once set, is never deleted, and moves only when a promotion
\* brings another signature under it.
ImmutableKept ==
  [][\A t \in Immutable : tag[t] # None =>
       \/ tag'[t] = tag[t]
       \/ tag'[t] = SourceTag[t] /\ \E p \in Pushers : t \in push[p].tags \ push'[p].tags]_vars

\* A pass that ran alone to its end collects all garbage: whatever was old
\* when it swept and is still there is needed, a blob by a manifest some tag
\* reaches, a manifest by that or by a referrers index.
Reach(roots) ==
  {x \in Manifests : \A X \in SUBSET Manifests :
     (roots \subseteq X /\ \A y \in X : HasManifest(y) => Children(y) \subseteq X)
     => x \in X}
GCComplete ==
  GCDone /\ ~gc.cut /\ ~Overlap =>
    LET needed == Reach({tag[t] : t \in Tags} \ {None})
    IN  /\ \A b \in Blobs : b \in gc.aged /\ HasBlob(b) => \E x \in needed : b \in Layers[x]
        /\ \A m \in Manifests : m \in gc.aged /\ HasManifest(m) => m \in needed \cup Indexed(None)
=============================================================================
