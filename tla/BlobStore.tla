------------------------------ MODULE BlobStore ------------------------------
(***************************************************************************)
(* Uploads into the content store of a repository: the Docker upload       *)
(* handlers with their table of uploads, the sessions of RawFSBlobStore,   *)
(* and the files the backend keeps under the blobs' digests.               *)
(*                                                                         *)
(* A content is a sequence of chunks; a digest is identified with the      *)
(* content it is the digest of.  Several requests may use one session at a *)
(* time (a client retries while its first attempt still runs): the         *)
(* session's mutex covers one Write, or one Commit from hashing to the end *)
(* of the backend's write.  The backend writes an object at once (S3) or   *)
(* truncates the file and fills it chunk by chunk (localfs, SFTP, FTP).    *)
(*                                                                         *)
(* An operator whose comment starts with "Faulty:" is not part of the      *)
(* model: it is what the definition after it would be with a plausible     *)
(* mistake, and a property must fail when it takes that place.             *)
(***************************************************************************)
EXTENDS Naturals, Sequences

CONSTANTS Chunks,
          MaxLen,        \* memLimit: what a session holds at most, in chunks
          Wanted,        \* the digests clients name in a PUT
          Sessions,      \* session ids; an id is random and not in use
          Requests,      \* requests on uploads being served at a time
          Absent,        \* no file, no chunk, no digest, no holder of a mutex
          Hole,          \* a chunk skipped by a write past the end of a file
          AtomicWrite,   \* the backend writes objects at once
          MaxReloads,    \* bound on reloads of the registry table
          MaxCrashes,    \* bound on restarts of the process
          MaxFaults      \* bound on failing backend writes

ASSUME AbsentAssumption ==
  /\ Absent \notin Chunks /\ Absent \notin Requests /\ Absent \notin Sessions
  /\ Hole \notin Chunks
ASSUME BoundsAssumption ==
  /\ MaxLen \in Nat /\ AtomicWrite \in BOOLEAN
  /\ MaxReloads \in Nat /\ MaxCrashes \in Nat /\ MaxFaults \in Nat

Content == UNION {[1..n -> Chunks] : n \in 0..MaxLen}
File == UNION {[1..n -> Chunks \cup {Hole}] : n \in 0..MaxLen}

ASSUME ContentAssumption == Absent \notin File /\ Wanted \subseteq Content

VARIABLES file,      \* what the backend holds under each digest
          sess,      \* the sessions
          sessions,  \* the store's table of sessions
          uploads,   \* the handlers' table of uploads
          req,       \* the requests being served
          reloads, crashes, faults

vars == <<file, sess, sessions, uploads, req, reloads, crashes, faults>>

Session == [state : {"open", "closed"}, data : Content,
            lock : Requests \cup {Absent}]
NoSession == [state |-> "closed", data |-> <<>>, lock |-> Absent]

\* want is the digest of a PUT; got, off and linked belong to the backend's
\* write: the digest of the data, the chunks written, and whether the file
\* being written still has its name.
Request == [pc : {"idle", "register", "copy", "commit", "put", "cancel", "forget"},
            id : Sessions \cup {Absent}, body : Chunks \cup {Absent},
            want : Content \cup {Absent}, got : Content, off : 0..MaxLen,
            linked : BOOLEAN]
NoRequest == [pc |-> "idle", id |-> Absent, body |-> Absent, want |-> Absent,
              got |-> <<>>, off |-> 0, linked |-> TRUE]

TypeOK ==
  /\ file \in [Content -> File \cup {Absent}]
  /\ sess \in [Sessions -> Session]
  /\ sessions \in SUBSET Sessions
  /\ uploads \in SUBSET Sessions
  /\ req \in [Requests -> Request]
  /\ reloads \in 0..MaxReloads
  /\ crashes \in 0..MaxCrashes
  /\ faults \in 0..MaxFaults

Init ==
  /\ file = [d \in Content |-> Absent]
  /\ sess = [s \in Sessions |-> NoSession]
  /\ sessions = {}
  /\ uploads = {}
  /\ req = [r \in Requests |-> NoRequest]
  /\ reloads = 0
  /\ crashes = 0
  /\ faults = 0

------------------------------------------------------------------------------
At(r, pc) == req[r].pc = pc
SessionOf(r) == sess[req[r].id]
Unlocked(s) == sess[s].lock = Absent

\* The request is answered.
Answer(r) == req' = [req EXCEPT ![r] = NoRequest]

\* POST: the store registers a session with an id nothing refers to.
StartUpload(r, s) ==
  /\ At(r, "idle")
  /\ s \notin sessions \cup uploads
  /\ \A q \in Requests : req[q].id # s
  /\ sess' = [sess EXCEPT ![s] = [NoSession EXCEPT !.state = "open"]]
  /\ sessions' = sessions \cup {s}
  /\ req' = [req EXCEPT ![r] = [NoRequest EXCEPT !.pc = "register", !.id = s]]
  /\ UNCHANGED <<file, uploads, reloads, crashes, faults>>

\* The handler puts it into its own table. After a reload, which leaves the
\* session out of the store's table, that is a table nobody reads.
Register(r) ==
  /\ At(r, "register")
  /\ uploads' = IF req[r].id \in sessions THEN uploads \cup {req[r].id} ELSE uploads
  /\ Answer(r)
  /\ UNCHANGED <<file, sess, sessions, reloads, crashes, faults>>

\* An upload the handlers find, and ResumeUpload finds its session.
Known(s) == s \in uploads /\ s \in sessions /\ sess[s].state = "open"

\* PATCH with a chunk, and PUT with a digest and perhaps a last chunk.
Append1(r, s, c) ==
  /\ At(r, "idle") /\ Known(s)
  /\ req' = [req EXCEPT ![r] = [NoRequest EXCEPT !.pc = "copy", !.id = s, !.body = c]]
  /\ UNCHANGED <<file, sess, sessions, uploads, reloads, crashes, faults>>

Finalize(r, s, c, d) ==
  /\ At(r, "idle") /\ Known(s)
  /\ req' = [req EXCEPT ![r] = [NoRequest EXCEPT !.id = s, !.body = c, !.want = d,
                                  !.pc = IF c = Absent THEN "commit" ELSE "copy"]]
  /\ UNCHANGED <<file, sess, sessions, uploads, reloads, crashes, faults>>

\* Faulty: the limit of a session is not checked.
WriteUnlimited(r) ==
  /\ At(r, "copy") /\ Unlocked(req[r].id)
  /\ IF SessionOf(r).state = "open"
     THEN /\ sess' = [sess EXCEPT ![req[r].id].data = Append(@, req[r].body)]
          /\ IF req[r].want = Absent THEN Answer(r)
             ELSE req' = [req EXCEPT ![r].pc = "commit", ![r].body = Absent]
     ELSE Answer(r) /\ UNCHANGED sess
  /\ UNCHANGED <<file, sessions, uploads, reloads, crashes, faults>>

\* Write: one chunk of the body into the session, under its mutex; a closed
\* session refuses it, and so does a full one.
Write(r) ==
  /\ At(r, "copy") /\ Unlocked(req[r].id)
  /\ IF SessionOf(r).state = "open" /\ Len(SessionOf(r).data) < MaxLen
     THEN /\ sess' = [sess EXCEPT ![req[r].id].data = Append(@, req[r].body)]
          /\ IF req[r].want = Absent THEN Answer(r)
             ELSE req' = [req EXCEPT ![r].pc = "commit", ![r].body = Absent]
     ELSE Answer(r) /\ UNCHANGED sess
  /\ UNCHANGED <<file, sessions, uploads, reloads, crashes, faults>>

\* The client is cut off before its chunk arrives.
CutOff(r) ==
  /\ At(r, "copy")
  /\ Answer(r)
  /\ UNCHANGED <<file, sess, sessions, uploads, reloads, crashes, faults>>

\* Faulty: the data is stored under the digest the client named.
CommitUnverified(r) ==
  /\ At(r, "commit") /\ Unlocked(req[r].id)
  /\ IF SessionOf(r).state = "open"
     THEN /\ sess' = [sess EXCEPT ![req[r].id].lock = r]
          /\ req' = [req EXCEPT ![r].pc = "put", ![r].got = req[r].want]
     ELSE Answer(r) /\ UNCHANGED sess
  /\ UNCHANGED <<file, sessions, uploads, reloads, crashes, faults>>

\* Commit takes the session's mutex and hashes the data; another digest than
\* the one named ends the request and leaves the session open.  A backend
\* that is not atomic truncates the file.
Commit(r) ==
  /\ At(r, "commit") /\ Unlocked(req[r].id)
  /\ IF SessionOf(r).state = "open" /\ SessionOf(r).data = req[r].want
     THEN /\ sess' = [sess EXCEPT ![req[r].id].lock = r]
          /\ req' = [req EXCEPT ![r].pc = "put", ![r].got = SessionOf(r).data]
          /\ file' = IF AtomicWrite THEN file
                     ELSE [file EXCEPT ![SessionOf(r).data] = <<>>]
     ELSE Answer(r) /\ UNCHANGED <<file, sess>>
  /\ UNCHANGED <<sessions, uploads, reloads, crashes, faults>>

\* A chunk written at a position of a file; what lies between its end and the
\* position is a hole.
WriteAt(f, k, c) ==
  [i \in 1..(IF Len(f) < k THEN k ELSE Len(f)) |->
     IF i = k THEN c ELSE IF i <= Len(f) THEN f[i] ELSE Hole]

\* Faulty: the chunks are written in the order of the file's length.
PutChunkAppends(r) ==
  /\ ~AtomicWrite
  /\ At(r, "put") /\ req[r].off < Len(req[r].got)
  /\ req' = [req EXCEPT ![r].off = @ + 1]
  /\ file' = IF req[r].linked
             THEN [file EXCEPT ![req[r].got] = Append(@, SessionOf(r).data[req[r].off + 1])]
             ELSE file
  /\ UNCHANGED <<sess, sessions, uploads, reloads, crashes, faults>>

\* A backend that is not atomic copies the next chunk into the open file.
PutChunk(r) ==
  /\ ~AtomicWrite
  /\ At(r, "put") /\ req[r].off < Len(req[r].got)
  /\ req' = [req EXCEPT ![r].off = @ + 1]
  /\ file' = IF req[r].linked
             THEN [file EXCEPT ![req[r].got] =
                     WriteAt(@, req[r].off + 1, SessionOf(r).data[req[r].off + 1])]
             ELSE file
  /\ UNCHANGED <<sess, sessions, uploads, reloads, crashes, faults>>

\* Faulty: the session is closed before the backend has written everything.
PutDoneEarly(r) ==
  /\ At(r, "put")
  /\ sess' = [sess EXCEPT ![req[r].id].state = "closed", ![req[r].id].lock = Absent]
  /\ sessions' = sessions \ {req[r].id}
  /\ req' = [req EXCEPT ![r].pc = "forget"]
  /\ UNCHANGED <<file, uploads, reloads, crashes, faults>>

\* The write is complete: the session is closed and leaves the store's table.
PutDone(r) ==
  /\ At(r, "put")
  /\ AtomicWrite \/ req[r].off = Len(req[r].got)
  /\ file' = IF AtomicWrite THEN [file EXCEPT ![req[r].got] = SessionOf(r).data]
             ELSE file
  /\ sess' = [sess EXCEPT ![req[r].id].state = "closed", ![req[r].id].lock = Absent]
  /\ sessions' = sessions \ {req[r].id}
  /\ req' = [req EXCEPT ![r].pc = "forget"]
  /\ UNCHANGED <<uploads, reloads, crashes, faults>>

\* Faulty: a failing write leaves the session's mutex held.
PutFailLocked(r) ==
  /\ faults < MaxFaults
  /\ At(r, "put")
  /\ faults' = faults + 1
  /\ Answer(r)
  /\ UNCHANGED <<file, sess, sessions, uploads, reloads, crashes>>

\* The write fails: the session stays open, and so do the chunks written.
PutFail(r) ==
  /\ faults < MaxFaults
  /\ At(r, "put")
  /\ faults' = faults + 1
  /\ sess' = [sess EXCEPT ![req[r].id].lock = Absent]
  /\ Answer(r)
  /\ UNCHANGED <<file, sessions, uploads, reloads, crashes>>

\* Faulty: the upload stays in the handlers' table.
ForgetNot(r) ==
  /\ At(r, "forget")
  /\ Answer(r)
  /\ UNCHANGED <<file, sess, sessions, uploads, reloads, crashes, faults>>

\* The handler of a PUT or DELETE drops the upload and answers.
Forget(r) ==
  /\ At(r, "forget")
  /\ uploads' = uploads \ {req[r].id}
  /\ Answer(r)
  /\ UNCHANGED <<file, sess, sessions, reloads, crashes, faults>>

\* DELETE of an upload: a session that is still found is to be cancelled.
StartCancel(r, s) ==
  /\ At(r, "idle") /\ s \in uploads
  /\ req' = [req EXCEPT ![r] = [NoRequest EXCEPT !.pc = IF Known(s) THEN "cancel" ELSE "forget",
                                                  !.id = s]]
  /\ UNCHANGED <<file, sess, sessions, uploads, reloads, crashes, faults>>

\* Cancel waits for the session's mutex, closes the session unless it is, and
\* takes it out of the store's table; the upload follows (Forget).
Cancel(r) ==
  /\ At(r, "cancel") /\ Unlocked(req[r].id)
  /\ sess' = [sess EXCEPT ![req[r].id].state = "closed"]
  /\ sessions' = sessions \ {req[r].id}
  /\ req' = [req EXCEPT ![r].pc = "forget"]
  /\ UNCHANGED <<file, uploads, reloads, crashes, faults>>

------------------------------------------------------------------------------
\* DELETE of a blob, by a client or by the collector.  A file that is being
\* written loses its name; its writers go on.
Delete(d) ==
  /\ file[d] # Absent
  /\ file' = [file EXCEPT ![d] = Absent]
  /\ req' = [r \in Requests |->
               IF At(r, "put") /\ req[r].got = d THEN [req[r] EXCEPT !.linked = FALSE]
               ELSE req[r]]
  /\ UNCHANGED <<sess, sessions, uploads, reloads, crashes, faults>>

\* A reload of the registry table builds new tables; requests being served
\* keep their sessions.
Reload ==
  /\ reloads < MaxReloads
  /\ reloads' = reloads + 1
  /\ sessions' = {}
  /\ uploads' = {}
  /\ UNCHANGED <<file, sess, req, crashes, faults>>

\* The process stops and starts: memory is lost, files stay.
Restart ==
  /\ crashes < MaxCrashes
  /\ crashes' = crashes + 1
  /\ sessions' = {}
  /\ uploads' = {}
  /\ sess' = [s \in Sessions |-> NoSession]
  /\ req' = [r \in Requests |-> NoRequest]
  /\ UNCHANGED <<file, reloads, faults>>

Serve(r) ==
  \/ Register(r) \/ Write(r) \/ Commit(r) \/ PutChunk(r) \/ PutDone(r) \/ PutFail(r)
  \/ Cancel(r) \/ Forget(r)

Ask(r) ==
  \E s \in Sessions :
    \/ StartUpload(r, s) \/ StartCancel(r, s)
    \/ \E c \in Chunks : Append1(r, s, c)
    \/ \E c \in Chunks \cup {Absent}, d \in Wanted : Finalize(r, s, c, d)

Next ==
  \/ \E r \in Requests : Ask(r) \/ Serve(r) \/ CutOff(r)
  \/ \E d \in Content : Delete(d)
  \/ Reload \/ Restart

Spec == Init /\ [][Next]_vars

FairSpec == Spec /\ \A r \in Requests : WF_vars(Serve(r))

------------------------------------------------------------------------------
\* The store keeps the promise of a content store: it is one, with the files
\* for its map.
Abstract == INSTANCE ContentStore WITH store <- file
Implements == Abstract!Spec

\* What is readable under a digest is exactly its content.
BlobWhole == \A d \in Content : file[d] \in {Absent, d}

\* The same while no backend write is going on: commits of the same content
\* by several sessions, each truncating and filling the same file, leave it
\* whole unless a write failed or the process crashed.
QuietWhole ==
  faults = 0 /\ crashes = 0 /\ (\A r \in Requests : ~At(r, "put")) => BlobWhole

\* A file never holds a chunk of another content: at every moment each chunk
\* is the right one or a hole.
NoForeignChunk ==
  \A d \in Content : file[d] # Absent =>
    \A i \in 1..Len(file[d]) : i <= Len(d) /\ file[d][i] \in {d[i], Hole}

\* The two tables are filled and emptied by several requests under a mutex
\* each, yet what one has and the other has not is in the hands of a running
\* request: a session in memory that no client can reach is about to be
\* registered by its POST, and an upload without a session is about to be
\* dropped.
TablesAgree ==
  /\ \A s \in sessions \ uploads : \E r \in Requests : At(r, "register") /\ req[r].id = s
  /\ \A s \in uploads \ sessions : \E r \in Requests : At(r, "forget") /\ req[r].id = s

\* Every request is answered, also when several share a session.
RequestsAnswered == \A r \in Requests : ~At(r, "idle") ~> At(r, "idle")
=============================================================================
