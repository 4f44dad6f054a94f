--------------------------- MODULE BlobStoreProofs ---------------------------
(***************************************************************************)
(* The blob store implements the content store on a backend that writes    *)
(* objects at once, and keeps every file free of foreign chunks on any     *)
(* backend, for every number of sessions, requests, contents and faults.   *)
(***************************************************************************)
EXTENDS BlobStore, SequenceTheorems, TLAPS

-----------------------------------------------------------------------------
\* Contents are the sequences of chunks of at most MaxLen chunks.
LEMMA ContentSeq ==
  ASSUME NEW q \in Content
  PROVE  q \in Seq(Chunks) /\ Len(q) \in 0..MaxLen /\ q \in [1..Len(q) -> Chunks]
BY BoundsAssumption DEF Content

LEMMA SeqContent ==
  ASSUME NEW q \in Seq(Chunks), Len(q) <= MaxLen
  PROVE  q \in Content
<1>1. Len(q) \in 0..MaxLen /\ q \in [1..Len(q) -> Chunks]
  BY BoundsAssumption
<1> QED BY <1>1 DEF Content

\* One more chunk than a session that is not full still makes a content.
LEMMA AppendContent ==
  ASSUME NEW q \in Content, NEW c \in Chunks, Len(q) < MaxLen
  PROVE  Append(q, c) \in Content
<1>1. q \in Seq(Chunks) /\ Len(q) \in 0..MaxLen
  BY ContentSeq
<1>2. Append(q, c) \in Seq(Chunks) /\ Len(Append(q, c)) = Len(q) + 1
  BY <1>1
<1>3. Len(Append(q, c)) <= MaxLen
  BY <1>1, <1>2, BoundsAssumption
<1> DEFINE a == Append(q, c)
<1>4. a \in Seq(Chunks) /\ Len(a) <= MaxLen
  BY <1>2, <1>3
<1> HIDE DEF a
<1>5. a \in Content
  BY <1>4, SeqContent
<1> QED BY <1>5 DEF a

LEMMA EmptyContent == <<>> \in Content /\ <<>> \in File
<1>1. <<>> \in [1..0 -> Chunks] /\ <<>> \in [1..0 -> Chunks \cup {Hole}] /\ 0 \in 0..MaxLen
  BY BoundsAssumption
<1> QED BY <1>1 DEF Content, File

LEMMA ContentFile ==
  ASSUME NEW q \in Content
  PROVE  q \in File
<1>1. q \in [1..Len(q) -> Chunks \cup {Hole}] /\ Len(q) \in 0..MaxLen
  BY ContentSeq
<1> QED BY <1>1 DEF File

\* What a chunk written at a position that belongs to the file makes of it.
LEMMA WriteAtFile ==
  ASSUME NEW f \in File, NEW k \in 1..MaxLen, NEW c \in Chunks
  PROVE  /\ WriteAt(f, k, c) \in File
         /\ Len(WriteAt(f, k, c)) = IF Len(f) < k THEN k ELSE Len(f)
         /\ \A i \in 1..Len(WriteAt(f, k, c)) : WriteAt(f, k, c)[i] =
              IF i = k THEN c ELSE IF i <= Len(f) THEN f[i] ELSE Hole
<1>1. Len(f) \in 0..MaxLen /\ f \in [1..Len(f) -> Chunks \cup {Hole}]
  BY BoundsAssumption DEF File
<1> DEFINE n == IF Len(f) < k THEN k ELSE Len(f)
<1>2. n \in 0..MaxLen
  BY <1>1, BoundsAssumption
<1>3. WriteAt(f, k, c) \in [1..n -> Chunks \cup {Hole}]
  BY <1>1, <1>2 DEF WriteAt
<1>4. Len(WriteAt(f, k, c)) = n
  BY <1>2, <1>3
<1>5. \A i \in 1..n : WriteAt(f, k, c)[i] =
              IF i = k THEN c ELSE IF i <= Len(f) THEN f[i] ELSE Hole
  BY DEF WriteAt
<1> QED BY <1>2, <1>3, <1>4, <1>5 DEF File

-----------------------------------------------------------------------------
\* A request that is not idle has a session, and one that copies has a chunk.
RequestInv ==
  \A r \in Requests : /\ ~At(r, "idle") => req[r].id \in Sessions
                      /\ At(r, "copy") => req[r].body \in Chunks

\* While the backend writes for a request, that request holds the session's
\* mutex, so the data hashed is the data written.
LockInv ==
  \A r \in Requests : At(r, "put") =>
    sess[req[r].id].lock = r /\ sess[req[r].id].data = req[r].got

\* A file being written chunk by chunk under its name exists.
LinkInv ==
  \A r \in Requests : At(r, "put") /\ ~AtomicWrite /\ req[r].linked =>
    file[req[r].got] # Absent

Inv == TypeOK /\ RequestInv /\ LockInv /\ LinkInv /\ NoForeignChunk

LEMMA NoRequestType == NoRequest \in Request
BY EmptyContent, BoundsAssumption DEF NoRequest, Request

LEMMA NoSessionType == NoSession \in Session
BY EmptyContent DEF NoSession, Session

LEMMA InitInv == Init => Inv
<1> SUFFICES ASSUME Init PROVE Inv
  OBVIOUS
<1> USE DEF Init
<1>1. TypeOK
  BY NoRequestType, NoSessionType, BoundsAssumption DEF TypeOK
<1>2. RequestInv /\ LockInv /\ LinkInv
  BY DEF RequestInv, LockInv, LinkInv, At, NoRequest
<1>3. NoForeignChunk
  BY DEF NoForeignChunk
<1> QED BY <1>1, <1>2, <1>3 DEF Inv

\* A request that arrives is served on some session, by a copy, a commit, a
\* registration or a cancellation; only a registration opens its session.
LEMMA AskEffect ==
  ASSUME TypeOK, NEW r \in Requests, Ask(r)
  PROVE  \E q \in Request :
           /\ At(r, "idle") /\ req' = [req EXCEPT ![r] = q]
           /\ q.pc \in {"register", "copy", "commit", "cancel", "forget"} /\ q.id \in Sessions
           /\ q.pc = "copy" => q.body \in Chunks
           /\ q.off = 0 /\ q.linked
           /\ UNCHANGED <<file, uploads, reloads, crashes, faults>>
           /\ \/ q.pc # "register" /\ UNCHANGED <<sess, sessions>>
              \/ /\ q.pc = "register" /\ sessions' = sessions \cup {q.id}
                 /\ q.id \notin sessions \cup uploads
                 /\ \A p \in Requests : req[p].id # q.id
                 /\ sess' \in [Sessions -> Session] /\ sess'[q.id].state = "open"
                 /\ \A t \in Sessions \ {q.id} : sess'[t] = sess[t]
           /\ q.pc # "register" => q.id \in uploads
           /\ q.pc = "forget" => ~Known(q.id)
<1>1. PICK s \in Sessions :
        \/ StartUpload(r, s) \/ StartCancel(r, s)
        \/ \E c \in Chunks : Append1(r, s, c)
        \/ \E c \in Chunks \cup {Absent}, d \in Wanted : Finalize(r, s, c, d)
  BY DEF Ask
<1>2. CASE \E c \in Chunks : Append1(r, s, c)
  <2>1. PICK c \in Chunks : Append1(r, s, c)
    BY <1>2
  <2>2. [NoRequest EXCEPT !.pc = "copy", !.id = s, !.body = c] \in Request
    BY NoRequestType DEF Request
  <2> QED BY <2>1, <2>2 DEF Append1, NoRequest, Known
<1>3. CASE \E c \in Chunks \cup {Absent}, d \in Wanted : Finalize(r, s, c, d)
  <2>1. PICK c \in Chunks \cup {Absent}, d \in Wanted : Finalize(r, s, c, d)
    BY <1>3
  <2> DEFINE q == [NoRequest EXCEPT !.id = s, !.body = c, !.want = d,
                                    !.pc = IF c = Absent THEN "commit" ELSE "copy"]
  <2>2. q \in Request
    BY NoRequestType, ContentAssumption DEF Request
  <2>3. /\ q.pc \in {"copy", "commit"} /\ q.id = s /\ (q.pc = "copy" => q.body \in Chunks)
        /\ q.off = 0 /\ q.linked
    BY DEF NoRequest
  <2> QED BY <2>1, <2>2, <2>3 DEF Finalize, Known
<1>4. CASE StartUpload(r, s)
  <2> DEFINE q == [NoRequest EXCEPT !.pc = "register", !.id = s]
  <2>1. q \in Request /\ q.pc = "register" /\ q.id = s /\ q.off = 0 /\ q.linked
    BY NoRequestType DEF Request, NoRequest
  <2>2. [NoSession EXCEPT !.state = "open"] \in Session
    BY EmptyContent DEF NoSession, Session
  <2>3. /\ sess' \in [Sessions -> Session] /\ sess'[s].state = "open"
        /\ \A t \in Sessions \ {s} : sess'[t] = sess[t]
    BY <1>4, <2>2 DEF StartUpload, TypeOK, NoSession
  <2> QED BY <1>4, <2>1, <2>3 DEF StartUpload
<1>5. CASE StartCancel(r, s)
  <2> DEFINE q == [NoRequest EXCEPT !.pc = IF Known(s) THEN "cancel" ELSE "forget", !.id = s]
  <2>1. /\ q \in Request /\ q.pc \in {"cancel", "forget"} /\ q.id = s /\ q.off = 0 /\ q.linked
        /\ (q.pc = "forget" => ~Known(s))
    BY NoRequestType DEF Request, NoRequest
  <2> QED BY <1>5, <2>1 DEF StartCancel
<1> QED BY <1>1, <1>2, <1>3, <1>4, <1>5

LEMMA AskInv ==
  ASSUME Inv, NEW r \in Requests, Ask(r)
  PROVE  Inv'
<1> USE DEF Inv
<1>2. PICK q \in Request :
        /\ req' = [req EXCEPT ![r] = q]
        /\ q.pc \in {"register", "copy", "commit", "cancel", "forget"} /\ q.id \in Sessions
        /\ q.pc = "copy" => q.body \in Chunks
        /\ UNCHANGED <<file, uploads, reloads, crashes, faults>>
        /\ \/ UNCHANGED <<sess, sessions>>
           \/ /\ sessions' = sessions \cup {q.id}
              /\ \A p \in Requests : req[p].id # q.id
              /\ sess' \in [Sessions -> Session]
              /\ \A t \in Sessions \ {q.id} : sess'[t] = sess[t]
  BY AskEffect, Zenon
<1>3. TypeOK'
  BY <1>2 DEF TypeOK
<1>4. \A p \in Requests \ {r} : At(p, "put") => sess'[req[p].id] = sess[req[p].id]
  BY <1>2 DEF TypeOK, RequestInv, At
<1>5. req'[r] = q /\ \A p \in Requests \ {r} : req'[p] = req[p]
  BY <1>2 DEF TypeOK
<1>6. (RequestInv /\ LockInv /\ LinkInv /\ NoForeignChunk)'
  BY <1>2, <1>4, <1>5 DEF RequestInv, LockInv, LinkInv, NoForeignChunk, At
<1> QED BY <1>3, <1>6

\* The requests of a state after one was answered.
LEMMA AnswerInv ==
  ASSUME Inv, NEW r \in Requests, Answer(r), UNCHANGED file,
         sess' \in [Sessions -> Session], sessions' \in SUBSET Sessions,
         uploads' \in SUBSET Sessions, reloads' \in 0..MaxReloads,
         crashes' \in 0..MaxCrashes, faults' \in 0..MaxFaults,
         \A q \in Requests \ {r} : At(q, "put") =>
           /\ sess'[req[q].id].lock = sess[req[q].id].lock
           /\ sess'[req[q].id].data = sess[req[q].id].data
  PROVE  Inv'
<1> USE DEF Inv, Answer
<1>1. TypeOK'
  BY NoRequestType DEF TypeOK
<1>2. (RequestInv /\ LockInv /\ LinkInv /\ NoForeignChunk)'
  BY DEF RequestInv, LockInv, LinkInv, NoForeignChunk, At, TypeOK, NoRequest
<1> QED BY <1>1, <1>2

\* The steps of a request.
LEMMA RegisterInv ==
  ASSUME Inv, NEW r \in Requests, Register(r)
  PROVE  Inv'
<1>1. req[r].id \in Sessions
  BY DEF Register, Inv, RequestInv, At
<1> QED BY <1>1, AnswerInv DEF Register, Inv, TypeOK

LEMMA CancelInv ==
  ASSUME Inv, NEW r \in Requests, Cancel(r)
  PROVE  Inv'
<1> USE DEF Inv
<1> DEFINE s == req[r].id
<1>1. s \in Sessions /\ At(r, "cancel") /\ Unlocked(s)
  BY DEF Cancel, RequestInv, At
<1>2. [sess[s] EXCEPT !.state = "closed"] \in Session /\ [req[r] EXCEPT !.pc = "forget"] \in Request
  BY <1>1 DEF TypeOK, Session, Request
<1>3. TypeOK'
  BY <1>1, <1>2 DEF Cancel, TypeOK
<1>4. \A q \in Sessions : sess'[q].lock = sess[q].lock /\ sess'[q].data = sess[q].data
  BY <1>1 DEF Cancel, TypeOK, Session
<1>5. req'[r].pc = "forget" /\ req'[r].id = s /\ \A q \in Requests \ {r} : req'[q] = req[q]
  BY DEF Cancel, TypeOK, Request
<1>6. (RequestInv /\ LockInv /\ LinkInv /\ NoForeignChunk)'
  BY <1>1, <1>4, <1>5 DEF Cancel, RequestInv, LockInv, LinkInv, NoForeignChunk, At
<1> QED BY <1>3, <1>6

LEMMA WriteInv ==
  ASSUME Inv, NEW r \in Requests, Write(r)
  PROVE  Inv'
<1> USE DEF Inv
<1> DEFINE s == req[r].id
<1>1. s \in Sessions /\ req[r].body \in Chunks /\ At(r, "copy") /\ Unlocked(s)
  BY DEF Write, RequestInv, At
<1>2. \A q \in Requests : At(q, "put") => req[q].id # s
  BY <1>1, AbsentAssumption DEF LockInv, Unlocked
<1>3. CASE ~(sess[s].state = "open" /\ Len(sess[s].data) < MaxLen)
  <2>1. Answer(r) /\ UNCHANGED <<sess, file, sessions, uploads, reloads, crashes, faults>>
    BY <1>3 DEF Write, SessionOf
  <2> QED BY <2>1, AnswerInv DEF TypeOK
<1>4. CASE sess[s].state = "open" /\ Len(sess[s].data) < MaxLen
  <2>1. /\ sess' = [sess EXCEPT ![s].data = Append(@, req[r].body)]
        /\ UNCHANGED <<file, sessions, uploads, reloads, crashes, faults>>
    BY <1>4 DEF Write, SessionOf
  <2>2. sess[s] \in Session /\ sess[s].data \in Content
    BY <1>1 DEF TypeOK, Session
  <2>3. Append(sess[s].data, req[r].body) \in Content
    BY <1>1, <1>4, <2>2, AppendContent
  <2>4. [sess[s] EXCEPT !.data = Append(sess[s].data, req[r].body)] \in Session
    BY <2>2, <2>3 DEF Session
  <2>5. sess' \in [Sessions -> Session]
    BY <1>1, <2>1, <2>4 DEF TypeOK
  <2>6. \A q \in Sessions \ {s} : sess'[q] = sess[q]
    BY <2>1 DEF TypeOK
  <2>7. CASE req[r].want = Absent
    <3>1. Answer(r)
      BY <1>4, <2>7 DEF Write, SessionOf
    <3>2. \A q \in Requests \ {r} : At(q, "put") => sess'[req[q].id] = sess[req[q].id]
      BY <1>2, <2>6 DEF RequestInv, At
    <3> QED BY <2>1, <2>5, <3>1, <3>2, AnswerInv DEF TypeOK
  <2>8. CASE req[r].want # Absent
    <3>1. req' = [req EXCEPT ![r].pc = "commit", ![r].body = Absent]
      BY <1>4, <2>8 DEF Write, SessionOf
    <3>2. [req[r] EXCEPT !.pc = "commit", !.body = Absent] \in Request
      BY DEF TypeOK, Request
    <3>3. req' \in [Requests -> Request]
      BY <3>1, <3>2 DEF TypeOK
    <3>4. TypeOK'
      BY <2>1, <2>5, <3>3 DEF TypeOK
    <3>5. req'[r].pc = "commit" /\ req'[r].id = s /\ \A q \in Requests \ {r} : req'[q] = req[q]
      BY <3>1 DEF TypeOK, Request
    <3>6. (RequestInv /\ LinkInv /\ NoForeignChunk)'
      BY <1>1, <2>1, <3>5 DEF RequestInv, LinkInv, NoForeignChunk, At
    <3>7. LockInv'
      BY <1>2, <2>6, <3>5 DEF LockInv, RequestInv, At
    <3> QED BY <3>4, <3>6, <3>7
  <2> QED BY <2>7, <2>8
<1> QED BY <1>3, <1>4

LEMMA CommitInv ==
  ASSUME Inv, NEW r \in Requests, Commit(r)
  PROVE  Inv'
<1> USE DEF Inv
<1> DEFINE s == req[r].id
           d == sess[s].data
<1>1. s \in Sessions /\ At(r, "commit") /\ Unlocked(s)
  BY DEF Commit, RequestInv, At
<1>2. \A q \in Requests : At(q, "put") => req[q].id # s
  BY <1>1, AbsentAssumption DEF LockInv, Unlocked
<1>3. CASE ~(sess[s].state = "open" /\ d = req[r].want)
  <2>1. Answer(r) /\ UNCHANGED <<sess, file, sessions, uploads, reloads, crashes, faults>>
    BY <1>3 DEF Commit, SessionOf
  <2> QED BY <2>1, AnswerInv DEF TypeOK
<1>4. CASE sess[s].state = "open" /\ d = req[r].want
  <2>1. /\ sess' = [sess EXCEPT ![s].lock = r]
        /\ req' = [req EXCEPT ![r].pc = "put", ![r].got = d]
        /\ file' = IF AtomicWrite THEN file ELSE [file EXCEPT ![d] = <<>>]
        /\ UNCHANGED <<sessions, uploads, reloads, crashes, faults>>
    BY <1>4 DEF Commit, SessionOf
  <2>2. sess[s] \in Session /\ d \in Content
    BY <1>1 DEF TypeOK, Session
  <2>3. [sess[s] EXCEPT !.lock = r] \in Session
    BY <2>2 DEF Session
  <2>4. [req[r] EXCEPT !.pc = "put", !.got = d] \in Request
    BY <2>2 DEF TypeOK, Request
  <2>5. sess' \in [Sessions -> Session] /\ req' \in [Requests -> Request]
    BY <1>1, <2>1, <2>3, <2>4 DEF TypeOK
  <2>6. file' \in [Content -> File \cup {Absent}]
    BY <2>1, EmptyContent DEF TypeOK
  <2>7. TypeOK'
    BY <2>1, <2>5, <2>6 DEF TypeOK
  <2>8. /\ req'[r].pc = "put" /\ req'[r].id = s /\ req'[r].got = d
        /\ \A q \in Requests \ {r} : req'[q] = req[q]
        /\ sess'[s].lock = r /\ sess'[s].data = d
        /\ \A q \in Sessions \ {s} : sess'[q] = sess[q]
    BY <1>1, <2>1 DEF TypeOK, Request, Session
  <2>9. RequestInv' /\ LockInv'
    BY <1>1, <1>2, <2>8 DEF RequestInv, LockInv, At
  <2>10. \A c \in Content : file'[c] = file[c] \/ file'[c] = <<>>
    BY <2>1 DEF TypeOK
  <2>11. <<>> # Absent
    BY EmptyContent, ContentAssumption
  <2>12. ~AtomicWrite => file'[d] = <<>>
    BY <2>1, <2>2 DEF TypeOK
  <2>13. \A q \in Requests : req[q].got \in Content
    BY DEF TypeOK, Request
  <2>14. LinkInv'
    BY <2>8, <2>10, <2>11, <2>12, <2>13 DEF LinkInv, At
  <2>15. NoForeignChunk'
    BY <2>10 DEF NoForeignChunk
  <2> QED BY <2>7, <2>9, <2>14, <2>15
<1> QED BY <1>3, <1>4

LEMMA PutChunkInv ==
  ASSUME Inv, NEW r \in Requests, PutChunk(r)
  PROVE  Inv'
<1> USE DEF Inv
<1> DEFINE d == req[r].got
           k == req[r].off + 1
           c == sess[req[r].id].data[k]
<1>1. /\ At(r, "put") /\ ~AtomicWrite /\ req[r].off < Len(d)
      /\ d \in Content /\ req[r].off \in 0..MaxLen /\ req[r].linked \in BOOLEAN
      /\ req' = [req EXCEPT ![r].off = k]
      /\ UNCHANGED <<sess, sessions, uploads, reloads, crashes, faults>>
  BY DEF PutChunk, TypeOK, Request
<1>2. sess[req[r].id].data = d
  BY <1>1 DEF LockInv
<1>3. Len(d) \in 0..MaxLen /\ d \in [1..Len(d) -> Chunks]
  BY <1>1, ContentSeq
<1>4. k \in 1..MaxLen /\ k <= Len(d) /\ c = d[k] /\ c \in Chunks
  BY <1>1, <1>2, <1>3, BoundsAssumption, SMTT(20)
<1>5. [req[r] EXCEPT !.off = k] \in Request
  <2>1. k \in 0..MaxLen
    BY <1>4, BoundsAssumption
  <2>2. req[r] \in Request
    BY DEF TypeOK
  <2> HIDE DEF k
  <2> QED BY <2>1, <2>2 DEF Request
<1>6. req' \in [Requests -> Request]
  BY <1>1, <1>5 DEF TypeOK
<1>7. \A q \in Requests : /\ req'[q].pc = req[q].pc /\ req'[q].id = req[q].id
                          /\ req'[q].body = req[q].body /\ req'[q].got = req[q].got
                          /\ req'[q].linked = req[q].linked
  BY <1>1 DEF TypeOK, Request
<1>8. (RequestInv /\ LockInv)'
  BY <1>1, <1>7 DEF RequestInv, LockInv, At
<1>9. CASE ~req[r].linked
  <2>1. UNCHANGED file
    BY <1>9 DEF PutChunk
  <2>2. TypeOK'
    BY <1>1, <1>6, <2>1 DEF TypeOK
  <2>3. (LinkInv /\ NoForeignChunk)'
    BY <1>7, <2>1 DEF LinkInv, NoForeignChunk, At
  <2> QED BY <1>8, <2>2, <2>3
<1>10. CASE req[r].linked
  <2>1. file[d] # Absent /\ file[d] \in File
    BY <1>1, <1>10 DEF LinkInv, TypeOK
  <2> DEFINE f == WriteAt(file[d], k, c)
  <2>2. file' = [file EXCEPT ![d] = f]
    BY <1>10 DEF PutChunk, SessionOf
  <2>3. /\ f \in File /\ Len(f) = IF Len(file[d]) < k THEN k ELSE Len(file[d])
        /\ \A i \in 1..Len(f) : f[i] =
             IF i = k THEN c ELSE IF i <= Len(file[d]) THEN file[d][i] ELSE Hole
    <3> HIDE DEF k, c
    <3> DEFINE g == file[d]
    <3>1. g \in File
      BY <2>1
    <3> HIDE DEF g
    <3>2. /\ WriteAt(g, k, c) \in File
          /\ Len(WriteAt(g, k, c)) = IF Len(g) < k THEN k ELSE Len(g)
          /\ \A i \in 1..Len(WriteAt(g, k, c)) : WriteAt(g, k, c)[i] =
               IF i = k THEN c ELSE IF i <= Len(g) THEN g[i] ELSE Hole
      BY <1>4, <3>1, WriteAtFile
    <3> QED BY <3>2 DEF g
  <2> HIDE DEF f, c
  <2>4. file' \in [Content -> File \cup {Absent}]
    BY <1>1, <2>2, <2>3 DEF TypeOK
  <2>5. TypeOK'
    BY <1>1, <1>6, <2>4 DEF TypeOK
  <2>6. file'[d] = f /\ \A e \in Content \ {d} : file'[e] = file[e]
    BY <1>1, <2>2 DEF TypeOK
  <2>7. f # Absent
    BY <2>3, ContentAssumption
  <2>8. \A q \in Requests : req[q].got \in Content
    BY DEF TypeOK, Request
  <2>9. LinkInv'
    BY <1>7, <2>6, <2>7, <2>8 DEF LinkInv, At
  <2>10. Len(file[d]) \in Nat /\ \A i \in 1..Len(file[d]) : i <= Len(d) /\ file[d][i] \in {d[i], Hole}
    <3>1. Len(file[d]) \in Nat
      BY <2>1, BoundsAssumption DEF File
    <3>2. \A i \in 1..Len(file[d]) : i <= Len(d) /\ file[d][i] \in {d[i], Hole}
      BY <1>1, <2>1 DEF NoForeignChunk
    <3> QED BY <3>1, <3>2
  <2>11. \A i \in 1..Len(f) : i <= Len(d) /\ f[i] \in {d[i], Hole}
    BY <1>3, <1>4, <2>3, <2>10
  <2>12. NoForeignChunk'
    BY <2>6, <2>11 DEF NoForeignChunk
  <2> QED BY <1>8, <2>5, <2>9, <2>12
<1> QED BY <1>1, <1>9, <1>10

LEMMA PutDoneInv ==
  ASSUME Inv, NEW r \in Requests, PutDone(r)
  PROVE  /\ Inv'
         /\ AtomicWrite => file' = [file EXCEPT ![req[r].got] = req[r].got]
         /\ ~AtomicWrite => UNCHANGED file
<1> USE DEF Inv
<1> DEFINE s == req[r].id
           d == req[r].got
<1>1. /\ s \in Sessions /\ At(r, "put") /\ d \in Content
      /\ sess[s].lock = r /\ sess[s].data = d
  BY DEF PutDone, RequestInv, LockInv, TypeOK, Request, At
<1>2. /\ sess' = [sess EXCEPT ![s].state = "closed", ![s].lock = Absent]
      /\ req' = [req EXCEPT ![r].pc = "forget"]
      /\ file' = IF AtomicWrite THEN [file EXCEPT ![d] = d] ELSE file
      /\ sessions' = sessions \ {s}
      /\ UNCHANGED <<uploads, reloads, crashes, faults>>
  BY <1>1 DEF PutDone, SessionOf
<1>3. \A q \in Requests \ {r} : At(q, "put") => req[q].id # s
  BY <1>1 DEF LockInv
<1>4. sess[s] \in Session /\ req[r] \in Request
  BY <1>1 DEF TypeOK
<1>5. [sess[s] EXCEPT !.state = "closed", !.lock = Absent] \in Session
  BY <1>4 DEF Session
<1>6. [req[r] EXCEPT !.pc = "forget"] \in Request
  BY <1>4 DEF Request
<1>7. sess' \in [Sessions -> Session] /\ req' \in [Requests -> Request]
  BY <1>1, <1>2, <1>5, <1>6 DEF TypeOK
<1>8. d \in File
  BY <1>1, ContentFile
<1>9. file' \in [Content -> File \cup {Absent}]
  BY <1>1, <1>2, <1>8 DEF TypeOK
<1>10. TypeOK'
  BY <1>2, <1>7, <1>9 DEF TypeOK
<1>11. /\ req'[r].pc = "forget" /\ req'[r].id = s
       /\ \A q \in Requests \ {r} : req'[q] = req[q]
       /\ \A q \in Sessions \ {s} : sess'[q] = sess[q]
  BY <1>2 DEF TypeOK, Request
<1>12. RequestInv' /\ LockInv'
  BY <1>1, <1>3, <1>11 DEF RequestInv, LockInv, At
<1>13. LinkInv'
  BY <1>2, <1>11 DEF LinkInv, At
<1>14. NoForeignChunk'
  <2>1. \A i \in 1..Len(d) : i <= Len(d) /\ d[i] \in {d[i], Hole}
    BY <1>1, ContentSeq, BoundsAssumption
  <2>2. \A e \in Content : file'[e] = file[e] \/ (e = d /\ file'[e] = d)
    BY <1>1, <1>2 DEF TypeOK
  <2> QED BY <2>1, <2>2 DEF NoForeignChunk
<1> QED BY <1>2, <1>10, <1>12, <1>13, <1>14

LEMMA PutFailInv ==
  ASSUME Inv, NEW r \in Requests, PutFail(r)
  PROVE  Inv'
<1> USE DEF Inv
<1> DEFINE s == req[r].id
<1>1. s \in Sessions /\ sess[s].lock = r /\ At(r, "put")
  BY DEF PutFail, RequestInv, LockInv, At
<1>2. sess[s] \in Session
  BY <1>1 DEF TypeOK
<1>3. [sess[s] EXCEPT !.lock = Absent] \in Session
  BY <1>2 DEF Session
<1>4. sess' \in [Sessions -> Session] /\ \A q \in Sessions \ {s} : sess'[q] = sess[q]
  BY <1>1, <1>3 DEF PutFail, TypeOK
<1>5. \A q \in Requests \ {r} : At(q, "put") => req[q].id \in Sessions \ {s}
  BY <1>1 DEF LockInv, RequestInv, At
<1>6. faults' \in 0..MaxFaults
  BY BoundsAssumption DEF PutFail, TypeOK
<1>7. Answer(r) /\ UNCHANGED <<file, sessions, uploads, reloads, crashes>>
  BY DEF PutFail
<1> QED BY <1>4, <1>5, <1>6, <1>7, AnswerInv DEF TypeOK

LEMMA DeleteInv ==
  ASSUME Inv, NEW d \in Content, Delete(d)
  PROVE  Inv'
<1> USE DEF Inv
<1>1. \A r \in Requests : [req[r] EXCEPT !.linked = FALSE] \in Request
  BY DEF TypeOK, Request
<1>2. TypeOK'
  BY <1>1 DEF Delete, TypeOK
<1>3. \A r \in Requests :
        /\ req'[r].pc = req[r].pc /\ req'[r].id = req[r].id
        /\ req'[r].body = req[r].body /\ req'[r].got = req[r].got
        /\ req'[r].linked => req[r].linked
        /\ At(r, "put") /\ req[r].got = d => ~req'[r].linked
  BY DEF Delete, TypeOK, Request
<1>4. \A e \in Content : IF e = d THEN file'[e] = Absent ELSE file'[e] = file[e]
  BY DEF Delete, TypeOK
<1>5. (RequestInv /\ LockInv)'
  BY <1>3 DEF Delete, RequestInv, LockInv, At
<1>6. \A r \in Requests : req[r].got \in Content
  BY DEF TypeOK, Request
<1>7. LinkInv'
  BY <1>3, <1>4, <1>6 DEF LinkInv, At
<1>8. NoForeignChunk'
  BY <1>4 DEF NoForeignChunk
<1> QED BY <1>2, <1>5, <1>7, <1>8

LEMMA RestartInv ==
  ASSUME Inv, Restart
  PROVE  Inv'
<1> USE DEF Inv, Restart
<1>1. TypeOK'
  BY NoRequestType, NoSessionType, BoundsAssumption DEF TypeOK
<1>2. (RequestInv /\ LockInv /\ LinkInv /\ NoForeignChunk)'
  BY DEF RequestInv, LockInv, LinkInv, NoForeignChunk, At, NoRequest
<1> QED BY <1>1, <1>2

LEMMA ReloadInv ==
  ASSUME Inv, Reload
  PROVE  Inv'
<1> USE DEF Inv, Reload
<1>1. TypeOK'
  BY BoundsAssumption DEF TypeOK
<1>2. (RequestInv /\ LockInv /\ LinkInv /\ NoForeignChunk)'
  BY DEF RequestInv, LockInv, LinkInv, NoForeignChunk, At
<1> QED BY <1>1, <1>2

LEMMA NextInv == Inv /\ [Next]_vars => Inv'
<1> SUFFICES ASSUME Inv, [Next]_vars PROVE Inv'
  OBVIOUS
<1>1. CASE UNCHANGED vars
  BY <1>1 DEF vars, Inv, TypeOK, RequestInv, LockInv, LinkInv, NoForeignChunk, At
<1>3. ASSUME NEW r \in Requests, Ask(r) PROVE Inv'
  BY <1>3, AskInv
<1>4. ASSUME NEW r \in Requests, Serve(r) PROVE Inv'
  <2>1. CASE Forget(r)
    BY <2>1, AnswerInv DEF Forget, Inv, TypeOK
  <2> QED BY <1>4, <2>1, RegisterInv, CancelInv, WriteInv, CommitInv, PutChunkInv, PutDoneInv,
             PutFailInv DEF Serve
<1>5. ASSUME NEW r \in Requests, CutOff(r) PROVE Inv'
  BY <1>5, AnswerInv DEF CutOff, Inv, TypeOK
<1>6. ASSUME NEW d \in Content, Delete(d) PROVE Inv'
  BY <1>6, DeleteInv
<1>7. CASE Reload \/ Restart
  BY <1>7, ReloadInv, RestartInv
<1> QED BY <1>1, <1>3, <1>4, <1>5, <1>6, <1>7 DEF Next

LEMMA InvAlways == Spec => []Inv
BY InitInv, NextInv, PTL DEF Spec

\* The variables of the store stay in their types: a session never holds more
\* than its limit and a file never more than its digest's content can have.
THEOREM TypeCorrect == Spec => []TypeOK
<1>1. Inv => TypeOK
  BY DEF Inv
<1> QED BY <1>1, InvAlways, PTL

\* On any backend, with requests that share a session, commits of the same
\* content that overlap, deletions, failed writes and crashes, a file under
\* a digest never holds a chunk of another content.
THEOREM NoForeignChunkAlways == Spec => []NoForeignChunk
<1>1. Inv => NoForeignChunk
  BY DEF Inv
<1> QED BY <1>1, InvAlways, PTL

\* On a backend that writes objects at once RawFSBlobStore is a content
\* store: each step is an upload becoming addressable whole, a deletion, or
\* invisible.
THEOREM BlobStoreImplements ==
  ASSUME AtomicWrite
  PROVE  Spec => Implements
<1>1. Init => Abstract!Init
  BY DEF Init, Abstract!Init
<1>2. Inv /\ [Next]_vars => [Abstract!Next]_file
  <2> SUFFICES ASSUME Inv, Next, file' # file PROVE Abstract!Next
    BY DEF vars
  <2>1. CASE \E d \in Content : Delete(d)
    BY <2>1 DEF Delete, Abstract!Next, Abstract!Delete
  <2>2. CASE \E r \in Requests : PutDone(r)
    <3>1. PICK r \in Requests : PutDone(r)
      BY <2>2
    <3>2. file' = [file EXCEPT ![req[r].got] = req[r].got]
      BY <3>1, PutDoneInv
    <3>3. req[r].got \in Content
      BY DEF Inv, TypeOK, Request
    <3> QED BY <3>2, <3>3 DEF Abstract!Next, Abstract!Put
  <2>3. CASE \E r \in Requests : Ask(r) \/ CutOff(r)
    BY <2>3 DEF Ask, StartUpload, StartCancel, Append1, Finalize, CutOff
  <2>4. CASE \E r \in Requests : \/ Register(r) \/ Write(r) \/ Commit(r) \/ PutChunk(r)
                                 \/ PutFail(r) \/ Cancel(r) \/ Forget(r)
    BY <2>4 DEF Register, Write, Commit, PutChunk, PutFail, Cancel, Forget
  <2>5. CASE Reload \/ Restart
    BY <2>5 DEF Reload, Restart
  <2> QED BY <2>1, <2>2, <2>3, <2>4, <2>5 DEF Next, Serve
<1> QED BY <1>1, <1>2, InvAlways, PTL DEF Spec, Implements, Abstract!Spec
-----------------------------------------------------------------------------
\* A request that registers an upload is alone with its session until it has;
\* one that is about to drop an upload has had its session unregistered, and the
\* id is not given out again before it is answered.
OwnInv ==
  \A r \in Requests :
    /\ At(r, "forget") => req[r].id \notin sessions
    /\ At(r, "register") => /\ req[r].id \notin uploads
                            /\ \A q \in Requests \ {r} : req[q].id # req[r].id
\* What the tables have, whatever the sessions hold; a session in both tables
\* is open, but for the ones that are gone from the store's.
OpenInv == \A s \in sessions : sess[s].state = "open"
TableInv == Inv /\ TablesAgree /\ OwnInv /\ OpenInv

\* A step that registers and closes no session and ends no request that does.
LEMMA TablesKept ==
  ASSUME TableInv, UNCHANGED <<sessions, uploads>>,
         \A s \in Sessions : sess'[s].state = sess[s].state,
         \A r \in Requests : /\ req'[r].pc = "forget" <=> req[r].pc = "forget"
                             /\ req'[r].pc = "register" <=> req[r].pc = "register"
                             /\ req'[r].id \in {req[r].id, Absent}
                             /\ req[r].pc \in {"forget", "register"} => req'[r].id = req[r].id
  PROVE  (TablesAgree /\ OwnInv /\ OpenInv)'
<1>1. \A r \in Requests : req[r].pc = "register" => req[r].id \in Sessions /\ req[r].id # Absent
  BY AbsentAssumption DEF TableInv, Inv, RequestInv, At
<1>2. TablesAgree'
  BY DEF TableInv, TablesAgree, At
<1>3. OpenInv'
  BY DEF TableInv, Inv, TypeOK, OpenInv
<1>4. OwnInv'
  BY <1>1 DEF TableInv, OwnInv, At
<1> QED BY <1>2, <1>3, <1>4

LEMMA TableStep == TableInv /\ [Next]_vars => TableInv'
<1> SUFFICES ASSUME TableInv, [Next]_vars PROVE (TablesAgree /\ OwnInv /\ OpenInv)'
  BY NextInv DEF TableInv
<1> USE DEF TableInv, Inv
<1>t. /\ sess \in [Sessions -> Session] /\ req \in [Requests -> Request]
      /\ sessions \subseteq Sessions /\ uploads \subseteq Sessions
  BY DEF TypeOK
<1>a. Absent \notin Sessions
  BY AbsentAssumption
<1>1. CASE UNCHANGED vars
  BY <1>1 DEF vars, TablesAgree, OwnInv, OpenInv, At
<1>4. ASSUME NEW r \in Requests, Ask(r) PROVE (TablesAgree /\ OwnInv /\ OpenInv)'
  <2>1. PICK q \in Request :
          /\ At(r, "idle") /\ req' = [req EXCEPT ![r] = q]
          /\ q.pc \in {"register", "copy", "commit", "cancel", "forget"} /\ q.id \in Sessions
          /\ UNCHANGED uploads
          /\ \/ q.pc # "register" /\ UNCHANGED <<sess, sessions>>
             \/ /\ q.pc = "register" /\ sessions' = sessions \cup {q.id}
                /\ q.id \notin sessions \cup uploads
                /\ \A p \in Requests : req[p].id # q.id
                /\ sess'[q.id].state = "open"
                /\ \A t \in Sessions \ {q.id} : sess'[t] = sess[t]
          /\ q.pc # "register" => q.id \in uploads
          /\ q.pc = "forget" => ~Known(q.id)
    BY <1>4, AskEffect, Zenon
  <2>2. req'[r] = q /\ \A p \in Requests \ {r} : req'[p] = req[p]
    BY <1>t, <2>1
  <2>3. CASE q.pc # "register"
    <3>1. UNCHANGED <<sess, sessions, uploads>>
      BY <2>1, <2>3
    <3>2. q.pc = "forget" => q.id \notin sessions
      BY <2>1, <2>3 DEF OpenInv, Known
    <3> QED BY <2>1, <2>2, <2>3, <3>1, <3>2 DEF TablesAgree, OwnInv, OpenInv, At
  <2>4. CASE q.pc = "register"
    BY <1>t, <2>1, <2>2, <2>4 DEF TablesAgree, OwnInv, OpenInv, At
  <2> QED BY <2>3, <2>4
<1>5. ASSUME NEW r \in Requests, CutOff(r) \/ Write(r) \/ Commit(r) \/ PutChunk(r) \/ PutFail(r)
      PROVE  (TablesAgree /\ OwnInv /\ OpenInv)'
  <2>1. UNCHANGED <<sessions, uploads>>
    BY <1>5 DEF CutOff, Write, Commit, PutChunk, PutFail
  <2>2. \A s \in Sessions : sess'[s].state = sess[s].state
    <3>1. CASE CutOff(r) \/ PutChunk(r)
      BY <3>1 DEF CutOff, PutChunk
    <3>2. CASE Write(r)
      BY <1>t, <3>2 DEF Write, Session
    <3>3. CASE Commit(r)
      BY <1>t, <3>3 DEF Commit, Session
    <3>4. CASE PutFail(r)
      BY <1>t, <3>4 DEF PutFail, Session
    <3> QED BY <1>5, <3>1, <3>2, <3>3, <3>4
  <2>3. \A q \in Requests \ {r} : req'[q] = req[q]
    BY <1>5, <1>t DEF CutOff, Write, Commit, PutChunk, PutFail, Answer
  <2>4. req[r].pc \notin {"forget", "register"}
    BY <1>5 DEF CutOff, Write, Commit, PutChunk, PutFail, At
  <2>5. req'[r].pc \notin {"forget", "register"} /\ req'[r].id \in {req[r].id, Absent}
    <3>2. CASE CutOff(r) \/ Write(r) \/ Commit(r)
      BY <1>t, <3>2 DEF CutOff, Write, Commit, Answer, NoRequest, Request
    <3>3. CASE PutChunk(r) \/ PutFail(r)
      BY <1>t, <2>4, <3>3 DEF PutChunk, PutFail, Answer, NoRequest, Request
    <3> QED BY <1>5, <3>2, <3>3
  <2> QED BY <2>1, <2>2, <2>3, <2>4, <2>5, TablesKept
<1>6. ASSUME NEW r \in Requests, PutDone(r) \/ Cancel(r) PROVE (TablesAgree /\ OwnInv /\ OpenInv)'
  <2> DEFINE s == req[r].id
  <2>1. s \in Sessions /\ req[r].pc \in {"put", "cancel"}
    BY <1>6 DEF PutDone, Cancel, RequestInv, At
  <2>2. /\ \A q \in Sessions \ {s} : sess'[q] = sess[q]
        /\ sessions' = sessions \ {s} /\ uploads' = uploads
        /\ req'[r].pc = "forget" /\ req'[r].id = s
        /\ \A q \in Requests \ {r} : req'[q] = req[q]
    BY <1>6, <1>t DEF PutDone, Cancel, Request
  <2> QED BY <1>t, <2>1, <2>2 DEF TablesAgree, OwnInv, OpenInv, At
<1>7. ASSUME NEW r \in Requests, Forget(r) \/ Register(r) PROVE (TablesAgree /\ OwnInv /\ OpenInv)'
  <2>1. /\ req'[r].pc = "idle" /\ req'[r].id = Absent
        /\ \A q \in Requests \ {r} : req'[q] = req[q]
        /\ UNCHANGED <<sess, sessions>>
    BY <1>7, <1>t DEF Forget, Register, Answer, NoRequest, At
  <2>2. CASE Forget(r)
    <3>1. /\ req[r].pc = "forget" /\ uploads' = uploads \ {req[r].id}
          /\ req[r].id \in Sessions /\ req[r].id \notin sessions
      BY <2>2 DEF Forget, At, OwnInv, RequestInv
    <3>2. \A s \in sessions \ uploads' : s \in sessions \ uploads
      BY <3>1
    <3>3. TablesAgree'
      <4>1. \A s \in sessions' \ uploads' : \E q \in Requests : At(q, "register")' /\ req'[q].id = s
        BY <2>1, <3>1, <3>2 DEF TablesAgree, At
      <4>2. \A s \in uploads' \ sessions' : \E q \in Requests : At(q, "forget")' /\ req'[q].id = s
        BY <2>1, <3>1 DEF TablesAgree, At
      <4> QED BY <4>1, <4>2 DEF TablesAgree
    <3>4. OwnInv'
      BY <1>a, <2>1, <3>1 DEF OwnInv, At, RequestInv
    <3> QED BY <2>1, <3>3, <3>4 DEF OpenInv
  <2>3. CASE Register(r)
    <3>1. /\ req[r].pc = "register"
          /\ uploads' = IF req[r].id \in sessions THEN uploads \cup {req[r].id} ELSE uploads
      BY <2>3 DEF Register, At
    <3>2. \A q \in Requests \ {r} : req[q].id # req[r].id
      BY <3>1 DEF OwnInv, At
    <3>3. TablesAgree'
      <4>1. \A s \in sessions' \ uploads' : \E q \in Requests : At(q, "register")' /\ req'[q].id = s
        BY <2>1, <3>1 DEF TablesAgree, At
      <4>2. \A s \in uploads' \ sessions' : \E q \in Requests : At(q, "forget")' /\ req'[q].id = s
        BY <2>1, <3>1 DEF TablesAgree, At
      <4> QED BY <4>1, <4>2 DEF TablesAgree
    <3>4. OwnInv'
      BY <1>a, <2>1, <3>1, <3>2 DEF OwnInv, At, RequestInv
    <3> QED BY <2>1, <3>3, <3>4 DEF OpenInv
  <2> QED BY <1>7, <2>2, <2>3
<1>8. ASSUME NEW d \in Content, Delete(d) PROVE (TablesAgree /\ OwnInv /\ OpenInv)'
  <2>1. \A r \in Requests : req'[r].pc = req[r].pc /\ req'[r].id = req[r].id
    BY <1>8, <1>t DEF Delete, Request
  <2> QED BY <1>8, <2>1, TablesKept DEF Delete
<1>9. CASE Reload \/ Restart
  BY <1>9, <1>t DEF Reload, Restart, TablesAgree, OwnInv, OpenInv, At, NoRequest
<1> QED BY <1>1, <1>4, <1>6, <1>7, <1>8, <1>9, <1>5 DEF Next, Serve

\* What the handlers' table of uploads and the store's table of sessions do not
\* share is at every moment in the hands of a running request, also with several
\* requests on one session, cancelled uploads, failing writes, reloads and
\* crashes: no session is left in memory that no client can reach.
THEOREM TablesAgreeAlways == Spec => []TablesAgree
<1>1. Init => TableInv
  BY InitInv DEF Init, TableInv, TablesAgree, OwnInv, OpenInv, At, NoRequest
<1>2. TableInv => TablesAgree
  BY DEF TableInv
<1> QED BY <1>1, <1>2, TableStep, PTL DEF Spec
-----------------------------------------------------------------------------
\* A request still has to reach the i-th chunk of the file named d.
ToCome(r, d, i) ==
  /\ ~AtomicWrite /\ At(r, "put") /\ req[r].linked
  /\ req[r].got = d /\ req[r].off < i
Right(d, i) == i <= Len(file[d]) /\ file[d][i] = d[i]

\* A backend write starts at the first chunk of a file that has its name.
FreshInv ==
  \A r \in Requests : req[r].pc \in {"copy", "commit"} => req[r].off = 0 /\ req[r].linked

\* Without failures, a chunk that is missing from a file will be written by a
\* request that is still filling this file: a commit that truncates what
\* another one has written is itself going to write every chunk.
FillInv ==
  faults = 0 /\ crashes = 0 =>
    \A d \in Content : file[d] # Absent =>
      \A i \in 1..Len(d) : Right(d, i) \/ \E r \in Requests : ToCome(r, d, i)

WholeInv == Inv /\ FreshInv /\ FillInv

\* A step that leaves the files and the backend's writes alone.
LEMMA FillKept ==
  ASSUME WholeInv, UNCHANGED <<file, faults, crashes>>,
         \A r \in Requests : At(r, "put") =>
           /\ req'[r].pc = "put" /\ req'[r].got = req[r].got
           /\ req'[r].off = req[r].off /\ req'[r].linked = req[r].linked
  PROVE  FillInv'
BY DEF WholeInv, FillInv, Right, ToCome, At

\* The chunks of a request's write that went through.
LEMMA FillChunk ==
  ASSUME WholeInv, NEW r \in Requests, PutChunk(r)
  PROVE  FillInv'
<1> USE DEF WholeInv, Inv
<1>d. PICK d \in Content, k \in 1..(MaxLen + 1) : d = req[r].got /\ k = req[r].off + 1
  BY BoundsAssumption DEF TypeOK, Request
<1>1. /\ d \in Content /\ req[r].off \in 0..MaxLen /\ req[r].off < Len(d) /\ At(r, "put")
      /\ ~AtomicWrite /\ file \in [Content -> File \cup {Absent}]
  BY <1>d DEF TypeOK, PutChunk, Request
<1>2. Len(d) \in 0..MaxLen /\ d \in [1..Len(d) -> Chunks] /\ MaxLen \in Nat
  BY <1>1, ContentSeq, BoundsAssumption
<1>3. k \in 1..MaxLen /\ k \in 1..Len(d) /\ d[k] \in Chunks
  BY <1>d, <1>1, <1>2
<1>4. sess[req[r].id].data = d
  BY <1>d, <1>1 DEF LockInv
<1>5. /\ \A q \in Requests \ {r} : req'[q] = req[q]
      /\ req'[r].off = k /\ req'[r].pc = req[r].pc /\ req'[r].got = d
      /\ req'[r].linked = req[r].linked
  BY <1>d DEF PutChunk, TypeOK, Request
<1>6. \A e \in Content : \A i \in 1..Len(e) : \A q \in Requests :
        ToCome(q, e, i) => ToCome(q, e, i)' \/ (q = r /\ e = d /\ i = k /\ req[r].linked)
  <2> SUFFICES ASSUME NEW e \in Content, NEW i \in 1..Len(e), NEW q \in Requests, ToCome(q, e, i),
                      ~(q = r /\ e = d /\ i = k /\ req[r].linked)
               PROVE  ToCome(q, e, i)'
    OBVIOUS
  <2>1. Len(e) \in Nat
    BY ContentSeq
  <2>2. CASE q # r
    BY <1>5, <2>2 DEF ToCome, At
  <2>3. CASE q = r
    BY <1>d, <1>1, <1>5, <2>1, <2>3 DEF ToCome, At
  <2> QED BY <2>2, <2>3
<1>7. CASE ~req[r].linked
  <2>1. UNCHANGED <<file, faults, crashes>>
    BY <1>7 DEF PutChunk
  <2> QED BY <1>6, <1>7, <2>1 DEF FillInv, Right
<1>8. CASE req[r].linked
  <2>1. file[d] \in File
    BY <1>d, <1>1, <1>8 DEF LinkInv
  <2>2. /\ file' = [file EXCEPT ![d] = WriteAt(file[d], k, d[k])] /\ UNCHANGED <<faults, crashes>>
    BY <1>d, <1>1, <1>4, <1>8 DEF PutChunk, SessionOf
  <2>3. /\ \A e \in Content \ {d} : file'[e] = file[e]
        /\ file'[d] = WriteAt(file[d], k, d[k])
    BY <1>1, <2>2
  <2>4. Len(file[d]) \in Nat
    BY <2>1 DEF File
  <2>5. \A i \in 1..Len(d) : Right(d, i) \/ i = k => Right(d, i)'
    <3> DEFINE g == file'[d]
    <3>1. /\ Len(g) = IF Len(file[d]) < k THEN k ELSE Len(file[d])
          /\ \A i \in 1..Len(g) : g[i] =
               IF i = k THEN d[k] ELSE IF i <= Len(file[d]) THEN file[d][i] ELSE Hole
      BY <1>3, <2>1, <2>3, WriteAtFile
    <3> HIDE DEF g
    <3>2. \A i \in 1..Len(d) : (i <= Len(file[d]) /\ file[d][i] = d[i]) \/ i = k
                                 => i <= Len(g) /\ g[i] = d[i]
      BY <1>2, <1>3, <2>4, <3>1
    <3> QED BY <3>2 DEF Right, g
  <2>6. \A e \in Content \ {d} : \A i \in 1..Len(e) : Right(e, i) => Right(e, i)'
    BY <2>3 DEF Right
  <2>7. SUFFICES ASSUME faults = 0, crashes = 0, NEW e \in Content, file'[e] # Absent,
                        NEW i \in 1..Len(e), ~Right(e, i)'
                 PROVE  \E q \in Requests : ToCome(q, e, i)'
    BY <2>2 DEF FillInv
  <2>8. ~Right(e, i) /\ file[e] # Absent /\ ~(e = d /\ i = k)
    BY <1>1, <2>1, <2>3, <2>5, <2>6, <2>7, ContentAssumption
  <2>9. PICK q \in Requests : ToCome(q, e, i)
    BY <2>7, <2>8 DEF FillInv
  <2> QED BY <1>6, <2>8, <2>9
<1> QED BY <1>7, <1>8

\* A commit of a content truncates its file and is going to fill it.
LEMMA FillCommit ==
  ASSUME WholeInv, NEW r \in Requests, Commit(r)
  PROVE  FillInv'
<1> USE DEF WholeInv, Inv
<1>1. req \in [Requests -> Request] /\ file \in [Content -> File \cup {Absent}]
  BY DEF TypeOK
<1>2. /\ req[r].pc = "commit" /\ req[r].id \in Sessions /\ UNCHANGED <<faults, crashes>>
      /\ \A q \in Requests \ {r} : req'[q] = req[q]
  BY <1>1 DEF Commit, RequestInv, At, Answer
<1>3. CASE UNCHANGED file
  BY <1>2, <1>3, FillKept DEF At
<1>4. CASE file' # file
  <2>1. PICK d \in Content : d = sess[req[r].id].data
    BY <1>2 DEF TypeOK, Session
  <2>2. /\ ~AtomicWrite /\ file' = [file EXCEPT ![d] = <<>>]
        /\ req' = [req EXCEPT ![r].pc = "put", ![r].got = d]
    BY <1>4, <2>1 DEF Commit, SessionOf
  <2>3. \A i \in 1..Len(d) : ToCome(r, d, i)'
    <3>1. req'[r].pc = "put" /\ req'[r].got = d /\ req'[r].off = 0 /\ req'[r].linked
      BY <1>1, <1>2, <2>2 DEF FreshInv, Request
    <3>2. Len(d) \in Nat
      BY ContentSeq
    <3> QED BY <2>2, <3>1, <3>2 DEF ToCome, At
  <2>4. \A e \in Content : \A i \in 1..Len(e) : \A q \in Requests : ToCome(q, e, i) => ToCome(q, e, i)'
    BY <1>2 DEF ToCome, At
  <2>5. \A e \in Content \ {d} : file'[e] = file[e]
    BY <2>2
  <2>6. \A e \in Content \ {d} : \A i \in 1..Len(e) : Right(e, i) => Right(e, i)'
    BY <2>5 DEF Right
  <2> QED BY <1>2, <2>3, <2>4, <2>5, <2>6 DEF FillInv
<1> QED BY <1>3, <1>4

\* A write that is complete has reached every chunk of its file.
LEMMA FillDone ==
  ASSUME WholeInv, NEW r \in Requests, PutDone(r)
  PROVE  FillInv'
<1> USE DEF WholeInv, Inv
<1>1. PICK d \in Content : d = req[r].got
  BY DEF TypeOK, Request
<1>2. /\ req \in [Requests -> Request] /\ \A q \in Requests \ {r} : req'[q] = req[q]
      /\ UNCHANGED <<faults, crashes>>
  BY DEF TypeOK, PutDone
<1>3. CASE AtomicWrite
  <2>1. file' = [file EXCEPT ![d] = d]
    BY <1>1, <1>3, PutDoneInv
  <2>2. file'[d] = d /\ \A e \in Content \ {d} : file'[e] = file[e]
    BY <2>1 DEF TypeOK
  <2>3. \A i \in 1..Len(d) : Right(d, i)'
    BY <2>2, ContentSeq DEF Right
  <2>4. \A e \in Content \ {d} : \A i \in 1..Len(e) : Right(e, i) => Right(e, i)'
    BY <2>2 DEF Right
  <2> QED BY <1>2, <1>3, <2>2, <2>3, <2>4 DEF FillInv, ToCome
<1>4. CASE ~AtomicWrite
  <2>1. file' = file /\ req[r].off = Len(d)
    BY <1>1, <1>4, PutDoneInv DEF PutDone
  <2>2. \A e \in Content : \A i \in 1..Len(e) : \A q \in Requests : ToCome(q, e, i) => ToCome(q, e, i)'
    <3> SUFFICES ASSUME NEW e \in Content, NEW i \in 1..Len(e), NEW q \in Requests, ToCome(q, e, i)
                 PROVE  ToCome(q, e, i)'
      OBVIOUS
    <3>1. Len(e) \in Nat
      BY ContentSeq
    <3>2. q # r
      BY <1>1, <2>1, <3>1 DEF ToCome
    <3> QED BY <1>2, <3>2 DEF ToCome, At
  <2> QED BY <1>2, <2>1, <2>2 DEF FillInv, Right
<1> QED BY <1>3, <1>4

LEMMA FillDelete ==
  ASSUME WholeInv, NEW d \in Content, Delete(d)
  PROVE  FillInv'
<1> USE DEF WholeInv, Inv
<1>1. \A e \in Content \ {d} : file'[e] = file[e]
  BY DEF Delete, TypeOK
<1>2. file'[d] = Absent /\ UNCHANGED <<faults, crashes>>
  BY DEF Delete, TypeOK
<1>3. \A r \in Requests : req[r].got # d => req'[r] = req[r]
  BY DEF Delete
<1>4. \A e \in Content \ {d} : \A i \in 1..Len(e) : \A r \in Requests :
        ToCome(r, e, i) => ToCome(r, e, i)'
  BY <1>3 DEF ToCome, At
<1>5. \A e \in Content \ {d} : \A i \in 1..Len(e) : Right(e, i) => Right(e, i)'
  BY <1>1 DEF Right
<1> QED BY <1>1, <1>2, <1>4, <1>5 DEF FillInv

LEMMA FreshStep ==
  ASSUME WholeInv, [Next]_vars
  PROVE  FreshInv'
<1> USE DEF WholeInv, Inv
<1>t. req \in [Requests -> Request]
  BY DEF TypeOK
<1>1. CASE UNCHANGED vars
  BY <1>1 DEF vars, FreshInv
<1>2. CASE Reload
  BY <1>2 DEF Reload, FreshInv
<1>3. ASSUME NEW r \in Requests, Ask(r) PROVE FreshInv'
  <2>2. req'[r].off = 0 /\ req'[r].linked /\ \A q \in Requests \ {r} : req'[q] = req[q]
    <3>1. PICK q \in Request : req' = [req EXCEPT ![r] = q] /\ q.off = 0 /\ q.linked
      BY <1>3, AskEffect, Zenon
    <3> QED BY <1>t, <3>1
  <2> QED BY <2>2 DEF FreshInv
<1>4. ASSUME NEW r \in Requests, Serve(r) \/ CutOff(r) PROVE FreshInv'
  <2>1. \A q \in Requests \ {r} : req'[q] = req[q]
    BY <1>4, <1>t DEF Serve, CutOff, Register, Write, Commit, PutChunk, PutDone, PutFail, Cancel,
        Forget, Answer
  <2>2. req'[r].pc \in {"copy", "commit"} => req'[r].off = 0 /\ req'[r].linked
    <3>1. CASE Answer(r)
      BY <1>t, <3>1 DEF Answer, NoRequest
    <3>2. CASE Write(r) /\ ~Answer(r)
      BY <1>t, <3>2 DEF Write, FreshInv, Request, At
    <3>3. CASE (Commit(r) \/ PutChunk(r) \/ PutDone(r) \/ Cancel(r)) /\ ~Answer(r)
      <4>1. req'[r].pc \in {"put", "forget"}
        BY <1>t, <3>3 DEF Commit, PutChunk, PutDone, Cancel, Request, At
      <4> QED BY <4>1
    <3> QED BY <1>4, <3>1, <3>2, <3>3 DEF Serve, CutOff, Register, PutFail, Forget
  <2> QED BY <2>1, <2>2 DEF FreshInv
<1>5. ASSUME NEW d \in Content, Delete(d) PROVE FreshInv'
  <2>1. \A r \in Requests : /\ req'[r].pc = req[r].pc /\ req'[r].off = req[r].off
                            /\ req[r].pc # "put" => req'[r] = req[r]
    BY <1>5, <1>t DEF Delete, Request, At
  <2> QED BY <2>1 DEF FreshInv
<1>6. CASE Restart
  BY <1>6 DEF Restart, FreshInv, NoRequest
<1> QED BY <1>1, <1>2, <1>3, <1>4, <1>5, <1>6 DEF Next

LEMMA WholeStep == WholeInv /\ [Next]_vars => WholeInv'
<1> SUFFICES ASSUME WholeInv, [Next]_vars PROVE FillInv'
  BY NextInv, FreshStep DEF WholeInv
<1> USE DEF WholeInv, Inv
<1>t. req \in [Requests -> Request] /\ faults \in 0..MaxFaults /\ crashes \in 0..MaxCrashes
  BY DEF TypeOK
<1>1. CASE UNCHANGED vars
  BY <1>1, FillKept DEF vars, At
<1>2. CASE Reload
  BY <1>2, FillKept DEF Reload, At
<1>3. ASSUME NEW r \in Requests, Ask(r) PROVE FillInv'
  <2>1. At(r, "idle") /\ (\A q \in Requests \ {r} : req'[q] = req[q])
        /\ UNCHANGED <<file, faults, crashes>>
    BY <1>3, <1>t, AskEffect
  <2> QED BY <2>1, FillKept DEF At
<1>4. ASSUME NEW r \in Requests,
             Register(r) \/ Write(r) \/ Cancel(r) \/ Forget(r) \/ CutOff(r)
      PROVE  FillInv'
  <2>1. ~At(r, "put") /\ (\A q \in Requests \ {r} : req'[q] = req[q])
        /\ UNCHANGED <<file, faults, crashes>>
    BY <1>4, <1>t DEF Register, Write, Cancel, Forget, CutOff, Answer, At
  <2> QED BY <2>1, FillKept DEF At
<1>5. ASSUME NEW r \in Requests, PutFail(r) PROVE FillInv'
  BY <1>5, <1>t, BoundsAssumption DEF PutFail, FillInv
<1>6. CASE Restart
  BY <1>6, <1>t, BoundsAssumption DEF Restart, FillInv
<1> QED BY <1>1, <1>2, <1>3, <1>4, <1>5, <1>6, FillCommit, FillChunk, FillDone, FillDelete
        DEF Next, Serve

\* On a backend that fills files chunk by chunk too, commits of the same
\* content by several sessions, deletions and reloads leave every file whole
\* once no write is going on, as long as no write failed and the process did
\* not crash.
THEOREM QuietWholeAlways == Spec => []QuietWhole
<1>1. Init => WholeInv
  BY InitInv DEF Init, WholeInv, FreshInv, FillInv, NoRequest
<1>2. WholeInv => QuietWhole
  <2> SUFFICES ASSUME WholeInv, faults = 0, crashes = 0, \A r \in Requests : ~At(r, "put"),
                      NEW d \in Content, file[d] # Absent
               PROVE  file[d] = d
    BY DEF QuietWhole, BlobWhole
  <2>1. \A i \in 1..Len(d) : i <= Len(file[d]) /\ file[d][i] = d[i]
    BY DEF WholeInv, FillInv, Right, ToCome
  <2>2. \A i \in 1..Len(file[d]) : i <= Len(d)
    BY DEF WholeInv, Inv, NoForeignChunk
  <2>3. /\ Len(d) \in Nat /\ d \in [1..Len(d) -> Chunks]
        /\ Len(file[d]) \in Nat /\ file[d] \in [1..Len(file[d]) -> Chunks \cup {Hole}]
    BY ContentSeq, BoundsAssumption DEF WholeInv, Inv, TypeOK, File
  <2>4. Len(file[d]) = Len(d)
    BY <2>1, <2>2, <2>3
  <2> QED BY <2>1, <2>3, <2>4
<1> QED BY <1>1, <1>2, WholeStep, PTL DEF Spec
=============================================================================
