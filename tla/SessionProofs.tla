---------------------------- MODULE SessionProofs ----------------------------
(***************************************************************************)
(* What a recorded session and its narrative promise.                       *)
(***************************************************************************)
EXTENDS Recording, Narrative, FiniteSetTheorems, TLAPS

-----------------------------------------------------------------------------
(***************************************************************************)
(* What a recorded session promises, for any finite set of chunk numbers,   *)
(* any set of upload requests and scrubbers and any number of attempts.     *)
(*                                                                          *)
(* A session's parts are written by processes that do not know each other:  *)
(* requests and their clean-ups, abandoned writes, scrubbers whose claims   *)
(* have lapsed, executions of the analysis that outlived their leases, the  *)
(* sweeper.  The strengthening names what keeps them apart: a request has   *)
(* nothing to do with a settled chunk and a scrubber only with settled ones *)
(* (Writes, Scrubs), what is settled is committed and awaits no raw bytes   *)
(* (Settled), and an analysis that has read covers the rest in missed       *)
(* (Covers).  One lemma for each part of the state says what a step may do  *)
(* to it; the inductive step combines them.                                 *)
(***************************************************************************)

Chunk == [row : {"none", "reserved", "committed"}, settled : BOOLEAN,
          claim : {"none", "live", "lapsed"}, attempts : 0..MaxScrubs, readable : BOOLEAN]
Upload == {NoUpload} \union
          [pc : {"reserved", "stored", "removing", "releasing"}, seq : Seqs, body : Bodies]
Scrub == {NoScrub} \union [pc : {"claimed", "write", "mark", "failed"}, seq : Seqs]
Analysis == [status : {"none", "pending", "claimed", "read"}, attempts : 0..MaxAnalyses,
             read : SUBSET Seqs, zombies : SUBSET SUBSET Seqs]

\* A session that is gone, or was never there, has no rows; no request and no scrub precedes
\* its registration.
RowsGo ==
  /\ ~Exists => \A q \in Seqs : /\ chunk[q].row = "none"
                                /\ ~chunk[q].settled /\ ~chunk[q].readable
  /\ session.status = "none" => /\ \A u \in Uploaders : upload[u].pc = "idle"
                                /\ \A w \in Scrubbers : scrub[w].pc = "idle"

\* A session on its way out has a tombstone; one with a tombstone does not record again.
Tombs == /\ session.status \in {"deleting", "gone"} => session.tomb
         /\ TombstoneHolds

\* What may be read was settled, and what is settled was committed.
Settled(q) == /\ chunk[q].settled => chunk[q].row = "committed" /\ late[q] \intersect Bodies = {}
              /\ chunk[q].readable => chunk[q].settled

\* The number of a request under way is taken: by its reservation, until it has stored
\* its bytes; and it has nothing to do with a settled chunk.
Writes(u) ==
  upload[u].pc # "idle" /\ Exists =>
    /\ chunk[upload[u].seq].row # "none"
    /\ ~chunk[upload[u].seq].settled
    /\ upload[u].pc \in {"reserved", "stored"} => chunk[upload[u].seq].row = "reserved"

\* A scrubber has to do with settled chunks only, and what it is about to mark is redacted,
\* or erased.
Redacted(q) == object[q] = "clean" \/ (session.tomb /\ object[q] = "none")
Scrubs(w) ==
  scrub[w].pc # "idle" /\ Exists =>
    /\ chunk[scrub[w].seq].settled
    /\ scrub[w].pc = "mark" => Redacted(scrub[w].seq)

\* What an analysis that has read does not cover is in missed.
Covers == job.status = "read" => Readable \subseteq job.read \union missed

RecordingInv ==
  /\ RecordingAgrees /\ RowsGo /\ Tombs
  /\ \A q \in Seqs : Settled(q)
  /\ \A u \in Uploaders : Writes(u)
  /\ \A w \in Scrubbers : Scrubs(w)
  /\ Covers

Session == [status : {"none", "recording", "closed", "analyzing", "analyzed",
                      "analysis_failed", "deleting", "gone"},
            tomb : BOOLEAN, purge : BOOLEAN, due : {"no", "yes", "capped"}, count : Nat]

\* The variables as functions and records: what the prover needs of RecordingTypeOK.
Typed ==
  /\ session \in Session
  /\ chunk \in [Seqs -> Chunk]
  /\ object \in [Seqs -> Contents \union {"none"}]
  /\ late \in [Seqs -> SUBSET Contents]
  /\ upload \in [Uploaders -> Upload]
  /\ scrub \in [Scrubbers -> Scrub]
  /\ sweeper \in {"idle", "removed"}
  /\ job \in Analysis
  /\ analyzed \in SUBSET Seqs
  /\ missed \in SUBSET Seqs

LEMMA InvTyped == RecordingInv => Typed
<1>1. RecordingTypeOK => Typed
  <2>. SUFFICES ASSUME RecordingTypeOK PROVE session \in Session
      BY DEF RecordingTypeOK, Typed, Session, Chunk, Upload, Scrub, Analysis
  <2>1. Cardinality(Seqs) \in Nat
      BY FS_CardinalityType, RecordingConstants
  <2>. QED BY <2>1 DEF RecordingTypeOK, Session
<1>. QED BY <1>1 DEF RecordingInv, RecordingAgrees

(* What one step may do to the session. *)
SessionMoves ==
  /\ session' \in Session
  /\ \/ session'.status = session.status /\ session'.tomb = session.tomb
     \/ /\ MayRegister
        /\ session'.status = "recording" /\ session'.tomb = session.tomb
     \/ /\ session.status = "recording"
        /\ session'.status = "closed" /\ session'.tomb = session.tomb
     \/ /\ Exists
        /\ session'.status \in {"analyzing", "analyzed", "analysis_failed"}
        /\ session'.tomb = session.tomb
     \/ Live /\ session'.status = "deleting" /\ session'.tomb
     \/ /\ session.status = "deleting"
        /\ session'.status = "gone" /\ session'.tomb = session.tomb
        /\ chunk' = [q \in Seqs |-> NoChunk] /\ job' = NoJob

LEMMA SessionSteps == Typed /\ [RecordingNext]_recordingVars => SessionMoves
<1> SUFFICES ASSUME Typed, [RecordingNext]_recordingVars PROVE SessionMoves
    OBVIOUS
<1> USE DEF Typed, SessionMoves
<1>1. CASE UNCHANGED session
    BY <1>1
<1>2. CASE SessionInit
    BY <1>2 DEF SessionInit, Session
<1>3. ASSUME NEW u \in Uploaders, CommitChunk(u) PROVE SessionMoves
  <2>1. UNCHANGED session \/ \E n \in {0, 1} : session' = [session EXCEPT !.count = @ + n]
      BY <1>3 DEF CommitChunk, Session
  <2>. QED BY <2>1, <1>1 DEF Session
<1>4. CASE CloseIdleSessions
    BY <1>4 DEF CloseIdleSessions, Session
<1>5. CASE AnalysisSteps
    BY <1>5, <1>1 DEF AnalysisSteps, AnalysisBegins, AnalysisReads, AnalysisEnds, AnalysisFails,
       AnalysisLapses, Session
<1>6. CASE TimePasses("yes") \/ TimePasses("capped") \/ Pin \/ DeletionGrace
    BY <1>6 DEF TimePasses, Pin, DeletionGrace, Session
<1>7. CASE MarkSessionDeleting
    BY <1>7 DEF MarkSessionDeleting, Session
<1>8. CASE DeleteMarkedSession
  <2>1. CASE session.status = "deleting"
    <3>1. /\ session' = [session EXCEPT !.status = "gone", !.count = 0]
          /\ chunk' = [q \in Seqs |-> NoChunk] /\ job' = NoJob
        BY <1>8, <2>1 DEF DeleteMarkedSession
    <3>2. /\ session' \in Session
          /\ session'.status = "gone" /\ session'.tomb = session.tomb
        BY <3>1 DEF Session
    <3>. QED BY <2>1, <3>1, <3>2
  <2>. QED BY <2>1, <1>8, <1>1 DEF DeleteMarkedSession
<1>9. CASE \/ \E u \in Uploaders : \/ OverBudget(u) \/ PutObject(u) \/ RemoveThenRelease(u)
                                   \/ ReleaseChunkReservation(u) \/ UploadDies(u)
           \/ \E u \in Uploaders, q \in Seqs, b \in Bodies : ReserveChunkSeq(u, q, b)
           \/ \E q \in Seqs, b \in Contents : LateWrite(q, b)
           \/ \E read \in SUBSET Seqs : ZombieStores(read)
           \/ \E q \in Seqs : Settles(q) \/ ClaimLapses(q) \/ RemovePrefixFails(q)
           \/ \E w \in Scrubbers, q \in Seqs : ClaimUnscrubbedChunks(w, q)
           \/ \E w \in Scrubbers : ScrubSteps(w)
           \/ RemovePrefix \/ SweepDeletedPrefixes
    BY <1>9, <1>1 DEF OverBudget, PutObject, RemoveThenRelease, ReleaseChunkReservation, UploadDies,
       ReserveChunkSeq, LateWrite, ZombieStores, Settles, ClaimLapses, RemovePrefixFails,
       ClaimUnscrubbedChunks, ScrubSteps, Inspect, WriteRedacted, MarkChunkScrubbed,
       MarkChunkScrubFailed, ScrubDies, RemovePrefix, SweepDeletedPrefixes
<1>. QED
    BY <1>1, <1>2, <1>3, <1>4, <1>5, <1>6, <1>7, <1>8, <1>9
       DEF RecordingNext, recordingVars, UploadSteps

\* What one step may do to a chunk's row.
Same(q) == chunk'[q].row = chunk[q].row /\ chunk'[q].settled = chunk[q].settled
           /\ chunk'[q].readable = chunk[q].readable
Reserves(q) ==
  /\ Live /\ chunk[q].row = "none" /\ chunk'[q].row = "reserved"
  /\ chunk'[q].settled = chunk[q].settled /\ chunk'[q].readable = chunk[q].readable
Releases(q) ==
  /\ chunk[q].row = "reserved" /\ chunk'[q] = NoChunk
  /\ \E u \in Uploaders : /\ upload[u].pc # "idle" /\ upload[u].seq = q
                          /\ upload' = [upload EXCEPT ![u] = NoUpload]
Commits(q) ==
  /\ Live /\ chunk[q].row # "none" /\ chunk'[q].row = "committed"
  /\ chunk'[q].settled = chunk[q].settled /\ chunk'[q].readable = chunk[q].readable
  /\ \E u \in Uploaders :
       /\ upload[u].pc = "stored" /\ upload[u].seq = q
       /\ upload' \in {[upload EXCEPT ![u] = NoUpload], [upload EXCEPT ![u].pc = "removing"]}
Settling(q) ==
  /\ chunk[q].row = "committed" /\ late[q] \intersect Bodies = {}
  /\ \A u \in Uploaders : upload[u].pc \in {"removing", "releasing"} => upload[u].seq # q
  /\ chunk'[q].row = "committed" /\ chunk'[q].settled /\ chunk'[q].readable = chunk[q].readable
  /\ late' = late /\ upload' = upload
Marks(q) ==
  /\ chunk[q].row # "none" /\ \E w \in Scrubbers : scrub[w].pc = "mark" /\ scrub[w].seq = q
  /\ chunk'[q].row = chunk[q].row /\ chunk'[q].settled = chunk[q].settled /\ chunk'[q].readable
  /\ object' = object
  /\ job' = job \/ job'.status = "pending"
Vanishes(q) == chunk'[q] = NoChunk /\ session'.status = "gone"

ChunkMoves(q) ==
  Same(q) \/ Reserves(q) \/ Releases(q) \/ Commits(q) \/ Settling(q) \/ Marks(q) \/ Vanishes(q)

LEMMA ChunkSteps ==
  Typed /\ [RecordingNext]_recordingVars
  => chunk' \in [Seqs -> Chunk] /\ \A q \in Seqs : ChunkMoves(q)
<1> DEFINE Moved == chunk' \in [Seqs -> Chunk] /\ \A q \in Seqs : ChunkMoves(q)
<1> SUFFICES ASSUME Typed, [RecordingNext]_recordingVars PROVE Moved
    OBVIOUS
<1> USE DEF Typed
<1>1. CASE UNCHANGED chunk
    BY <1>1 DEF ChunkMoves, Same
<1>a. NoChunk \in Chunk
    BY RecordingConstants DEF NoChunk, Chunk
<1>2. ASSUME NEW u \in Uploaders, NEW r \in Seqs, NEW b \in Bodies, ReserveChunkSeq(u, r, b)
      PROVE  Moved
    BY <1>2 DEF ReserveChunkSeq, ChunkMoves, Same, Reserves, Chunk
<1>3. ASSUME NEW u \in Uploaders, OverBudget(u) \/ ReleaseChunkReservation(u) PROVE Moved
  <2>1. upload[u].pc # "idle" /\ chunk' \in {chunk, Released(upload[u].seq)} /\ Done(u)
      BY <1>3 DEF OverBudget, ReleaseChunkReservation
  <2>2. upload[u].seq \in Seqs
      BY <2>1 DEF Upload, NoUpload
  <2>3. CASE chunk' # chunk
    <3>1. /\ chunk[upload[u].seq].row = "reserved"
          /\ chunk' = [chunk EXCEPT ![upload[u].seq] = NoChunk]
        BY <2>1, <2>3 DEF Released
    <3>2. Releases(upload[u].seq)
        BY <2>1, <2>2, <3>1 DEF Releases, Done
    <3>3. \A q \in Seqs : q # upload[u].seq => Same(q)
        BY <3>1 DEF Same
    <3>. QED BY <3>1, <3>2, <3>3, <1>a, <2>2 DEF ChunkMoves
  <2>. QED BY <2>3, <1>1
<1>4. ASSUME NEW u \in Uploaders, CommitChunk(u) PROVE Moved
  <2>1. upload[u].pc = "stored" /\ upload[u].seq \in Seqs
      BY <1>4 DEF CommitChunk, Upload, NoUpload
  <2>2. CASE chunk' = [chunk EXCEPT ![upload[u].seq].row = "committed"] /\ Live
             /\ chunk[upload[u].seq].row # "none" /\ (Done(u) \/ To(u, "removing"))
    <3>1. \A q \in Seqs : q # upload[u].seq => Same(q)
        BY <2>2 DEF Same
    <3>2. chunk' \in [Seqs -> Chunk]
        BY <2>1, <2>2 DEF Chunk
    <3>3. Commits(upload[u].seq)
        BY <2>1, <2>2, <3>2 DEF Commits, Chunk, Done, To
    <3>. QED BY <3>1, <3>2, <3>3 DEF ChunkMoves
  <2>. QED BY <1>4, <1>1, <2>2 DEF CommitChunk
<1>5. ASSUME NEW r \in Seqs, Settles(r) PROVE Moved
  <2>1. chunk' \in [Seqs -> Chunk] /\ chunk' = [chunk EXCEPT ![r].settled = TRUE]
      BY <1>5 DEF Settles, Chunk
  <2>2. Settling(r)
      BY <1>5, <2>1 DEF Settles, Settling, Chunk
  <2>3. \A q \in Seqs : q # r => Same(q)
      BY <2>1 DEF Same
  <2>. QED BY <2>1, <2>2, <2>3 DEF ChunkMoves
<1>6. ASSUME NEW r \in Seqs, ClaimLapses(r) PROVE Moved
    BY <1>6 DEF ClaimLapses, ChunkMoves, Same, Chunk
<1>7. ASSUME NEW w \in Scrubbers, NEW r \in Seqs, ClaimUnscrubbedChunks(w, r) PROVE Moved
    BY <1>7, RecordingConstants DEF ClaimUnscrubbedChunks, Claimable, ChunkMoves, Same, Chunk
<1>8. ASSUME NEW w \in Scrubbers, MarkChunkScrubbed(w) PROVE Moved
  <2>1. scrub[w].pc = "mark" /\ scrub[w].seq \in Seqs /\ UNCHANGED object
      BY <1>8 DEF MarkChunkScrubbed, Scrub, NoScrub
  <2>2. CASE chunk[scrub[w].seq].row # "none"
    <3>1. /\ chunk' = [chunk EXCEPT ![scrub[w].seq].readable = TRUE, ![scrub[w].seq].claim = "none"]
          /\ job' = job \/ job'.status = "pending"
        BY <1>8, <2>2 DEF MarkChunkScrubbed, Enqueued, NoJob
    <3>2. \A q \in Seqs : q # scrub[w].seq => Same(q)
        BY <3>1 DEF Same
    <3>3. chunk' \in [Seqs -> Chunk]
        BY <2>1, <3>1 DEF Chunk
    <3>4. Marks(scrub[w].seq)
        BY <2>1, <2>2, <3>1 DEF Marks, Chunk
    <3>. QED BY <3>2, <3>3, <3>4 DEF ChunkMoves
  <2>. QED BY <2>2, <1>1, <1>8 DEF MarkChunkScrubbed
<1>9. ASSUME NEW w \in Scrubbers, MarkChunkScrubFailed(w) PROVE Moved
  <2>1. scrub[w].seq \in Seqs /\ chunk' = [chunk EXCEPT ![scrub[w].seq].claim = "none"]
      BY <1>9 DEF MarkChunkScrubFailed, Scrub, NoScrub
  <2>. QED BY <2>1 DEF ChunkMoves, Same, Chunk
<1>10. CASE DeleteMarkedSession
  <2>1. CASE session.status = "deleting"
    <3>1. session'.status = "gone" /\ chunk' = [q \in Seqs |-> NoChunk]
        BY <1>10, <2>1 DEF DeleteMarkedSession, Session
    <3>. QED BY <3>1, <1>a DEF ChunkMoves, Vanishes
  <2>. QED BY <2>1, <1>10, <1>1 DEF DeleteMarkedSession
<1>11. CASE \/ SessionInit \/ CloseIdleSessions \/ AnalysisSteps
            \/ \E u \in Uploaders : PutObject(u) \/ RemoveThenRelease(u) \/ UploadDies(u)
            \/ \E q \in Seqs, b \in Contents : LateWrite(q, b)
            \/ \E read \in SUBSET Seqs : ZombieStores(read)
            \/ \E q \in Seqs : RemovePrefixFails(q)
            \/ \E w \in Scrubbers : Inspect(w) \/ WriteRedacted(w) \/ ScrubDies(w)
            \/ TimePasses("yes") \/ TimePasses("capped") \/ Pin \/ MarkSessionDeleting
            \/ DeletionGrace \/ RemovePrefix \/ SweepDeletedPrefixes
    BY <1>11, <1>1 DEF SessionInit, CloseIdleSessions, AnalysisSteps, AnalysisBegins, AnalysisReads,
       AnalysisEnds, AnalysisFails, AnalysisLapses, PutObject, RemoveThenRelease, UploadDies,
       LateWrite, ZombieStores, RemovePrefixFails, Inspect, WriteRedacted, ScrubDies, TimePasses,
       Pin, MarkSessionDeleting, DeletionGrace, RemovePrefix, SweepDeletedPrefixes
<1>. QED
    BY <1>1, <1>2, <1>3, <1>4, <1>5, <1>6, <1>7, <1>8, <1>9, <1>10, <1>11
       DEF RecordingNext, recordingVars, UploadSteps, ScrubSteps

\* What one step may put under a chunk's key, and what may still come there.
ObjectMoves(q) ==
  \/ object'[q] = object[q] \/ object'[q] = "clean"
  \/ /\ object'[q] = "none"
     /\ \/ session.tomb /\ session'.tomb
        \/ object[q] = "bad"
        \/ \E u \in Uploaders : upload[u].pc = "removing" /\ upload[u].seq = q
  \/ \E u \in Uploaders : upload[u].pc = "reserved" /\ upload[u].seq = q
  \/ late[q] \intersect Bodies # {}
LateMoves(q) ==
  \/ late'[q] \subseteq late[q] \union {"clean"}
  \/ \E u \in Uploaders : upload[u].pc = "reserved" /\ upload[u].seq = q

LEMMA StorageSteps ==
  Typed /\ Tombs /\ [RecordingNext]_recordingVars
  => /\ object' \in [Seqs -> Contents \union {"none"}] /\ \A q \in Seqs : ObjectMoves(q)
     /\ late' \in [Seqs -> SUBSET Contents] /\ \A q \in Seqs : LateMoves(q)
<1> DEFINE Moved == /\ object' \in [Seqs -> Contents \union {"none"}]
                    /\ \A q \in Seqs : ObjectMoves(q)
                    /\ late' \in [Seqs -> SUBSET Contents] /\ \A q \in Seqs : LateMoves(q)
<1> SUFFICES ASSUME Typed, Tombs, [RecordingNext]_recordingVars PROVE Moved
    OBVIOUS
<1> USE DEF Typed
<1>1. CASE UNCHANGED <<object, late>>
    BY <1>1 DEF ObjectMoves, LateMoves
<1>2. ASSUME NEW u \in Uploaders, PutObject(u) \/ UploadDies(u) PROVE Moved
  <2>1. upload[u].pc # "idle" /\ upload[u].seq \in Seqs /\ upload[u].body \in Bodies
      BY <1>2 DEF PutObject, UploadDies, Upload, NoUpload
  <2>2. CASE upload[u].pc # "reserved"
      BY <1>1, <1>2, <2>2 DEF PutObject, UploadDies
  <2>3. CASE upload[u].pc = "reserved"
    <3>1. /\ object' \in {object, [object EXCEPT ![upload[u].seq] = upload[u].body]}
          /\ late' \in {late, [late EXCEPT ![upload[u].seq] = @ \union {upload[u].body}]}
        BY <1>2 DEF PutObject, UploadDies
    <3>2. \A q \in Seqs : q # upload[u].seq => object'[q] = object[q] /\ late'[q] = late[q]
        BY <3>1
    <3>3. object' \in [Seqs -> Contents \union {"none"}] /\ late' \in [Seqs -> SUBSET Contents]
        BY <2>1, <3>1 DEF Contents
    <3>. QED BY <2>3, <3>2, <3>3 DEF ObjectMoves, LateMoves
  <2>. QED BY <2>2, <2>3
<1>3. ASSUME NEW u \in Uploaders, RemoveThenRelease(u) PROVE Moved
  <2>1. /\ upload[u].pc = "removing" /\ upload[u].seq \in Seqs /\ late' = late
        /\ object' \in {object, [object EXCEPT ![upload[u].seq] = "none"]}
      BY <1>3 DEF RemoveThenRelease, Upload, NoUpload
  <2>. QED BY <2>1 DEF ObjectMoves, LateMoves
<1>4. ASSUME NEW r \in Seqs, NEW b \in Contents, LateWrite(r, b) PROVE Moved
  <2>1. /\ b \in late[r] /\ late' = [late EXCEPT ![r] = @ \ {b}]
        /\ object' \in {object, [object EXCEPT ![r] = b]}
      BY <1>4 DEF LateWrite
  <2>2. b = "clean" \/ late[r] \intersect Bodies # {}
      BY <2>1 DEF Contents
  <2>3. \A q \in Seqs : q # r => object'[q] = object[q]
      BY <2>1
  <2>4. object'[r] = object[r] \/ object'[r] = b
      BY <2>1
  <2>5. object' \in [Seqs -> Contents \union {"none"}] /\ late' \in [Seqs -> SUBSET Contents]
      BY <2>1
  <2>6. \A q \in Seqs : late'[q] \subseteq late[q]
      BY <2>1
  <2>. QED BY <2>2, <2>3, <2>4, <2>5, <2>6 DEF ObjectMoves, LateMoves
<1>5. ASSUME NEW w \in Scrubbers, Inspect(w) PROVE Moved
  <2>1. /\ scrub[w].seq \in Seqs /\ late' = late
        /\ \/ UNCHANGED object
           \/ /\ object[scrub[w].seq] = "bad"
              /\ object' = [object EXCEPT ![scrub[w].seq] = "none"]
      BY <1>5 DEF Inspect, Scrub, NoScrub
  <2>. QED BY <2>1 DEF ObjectMoves, LateMoves
<1>6. ASSUME NEW w \in Scrubbers, WriteRedacted(w) \/ ScrubDies(w) PROVE Moved
  <2>1. /\ scrub[w].seq \in Seqs
        /\ object' \in {object, [object EXCEPT ![scrub[w].seq] = "clean"]}
        /\ late' \in {late, [late EXCEPT ![scrub[w].seq] = @ \union {"clean"}]}
      BY <1>6 DEF WriteRedacted, ScrubDies, Scrub, NoScrub
  <2>2. \A q \in Seqs : /\ object'[q] = object[q] \/ object'[q] = "clean"
                        /\ late'[q] \subseteq late[q] \union {"clean"}
      BY <2>1
  <2>3. object' \in [Seqs -> Contents \union {"none"}] /\ late' \in [Seqs -> SUBSET Contents]
      BY <2>1 DEF Contents
  <2>. QED BY <2>2, <2>3 DEF ObjectMoves, LateMoves
<1>7. CASE RemovePrefix \/ SweepDeletedPrefixes \/ \E q \in Seqs : RemovePrefixFails(q)
  <2>1. /\ session.tomb /\ session' = session /\ late' = late
        /\ \A q \in Seqs : object'[q] = "none" \/ object'[q] = object[q]
        /\ object' \in [Seqs -> Contents \union {"none"}]
      BY <1>7 DEF RemovePrefix, RemovePrefixFails, SweepDeletedPrefixes, Resweeps, Tombs
  <2>. QED BY <2>1 DEF ObjectMoves, LateMoves
<1>8. CASE \/ SessionInit \/ CloseIdleSessions \/ AnalysisSteps
           \/ \E u \in Uploaders : OverBudget(u) \/ CommitChunk(u) \/ ReleaseChunkReservation(u)
           \/ \E u \in Uploaders, q \in Seqs, b \in Bodies : ReserveChunkSeq(u, q, b)
           \/ \E read \in SUBSET Seqs : ZombieStores(read)
           \/ \E q \in Seqs : Settles(q) \/ ClaimLapses(q)
           \/ \E w \in Scrubbers, q \in Seqs : ClaimUnscrubbedChunks(w, q)
           \/ \E w \in Scrubbers : MarkChunkScrubbed(w) \/ MarkChunkScrubFailed(w)
           \/ TimePasses("yes") \/ TimePasses("capped") \/ Pin \/ MarkSessionDeleting
           \/ DeletionGrace \/ DeleteMarkedSession
    BY <1>8, <1>1 DEF SessionInit, CloseIdleSessions, AnalysisSteps, AnalysisBegins, AnalysisReads,
       AnalysisEnds, AnalysisFails, AnalysisLapses, AnalysisOnly, OverBudget, CommitChunk,
       ReleaseChunkReservation, ReserveChunkSeq, ZombieStores, Settles, ClaimLapses,
       ClaimUnscrubbedChunks, MarkChunkScrubbed, MarkChunkScrubFailed, TimePasses, Pin,
       MarkSessionDeleting, DeletionGrace, DeleteMarkedSession
<1>9. CASE RecordingNext
  <2> HIDE DEF Typed, Moved
  <2>1. ASSUME NEW u \in Uploaders, UploadSteps(u) PROVE Moved
      BY <2>1, <1>2, <1>3, <1>8 DEF UploadSteps
  <2>2. ASSUME NEW w \in Scrubbers, ScrubSteps(w) PROVE Moved
      BY <2>2, <1>5, <1>6, <1>8 DEF ScrubSteps
  <2>3. ASSUME NEW q \in Seqs, NEW b \in Contents, LateWrite(q, b) PROVE Moved
      BY <2>3, <1>4
  <2>4. ASSUME NEW u \in Uploaders, NEW q \in Seqs, NEW b \in Bodies, ReserveChunkSeq(u, q, b)
        PROVE  Moved
      BY <2>4, <1>8
  <2>5. ASSUME NEW q \in Seqs, Settles(q) \/ ClaimLapses(q) \/ RemovePrefixFails(q) PROVE Moved
      BY <2>5, <1>7, <1>8
  <2>6. ASSUME NEW w \in Scrubbers, NEW q \in Seqs, ClaimUnscrubbedChunks(w, q) PROVE Moved
      BY <2>6, <1>8
  <2>. QED BY <1>9, <2>1, <2>2, <2>3, <2>4, <2>5, <2>6, <1>7, <1>8 DEF RecordingNext
<1>. QED BY <1>1, <1>9 DEF recordingVars

\* What one step may do to a request: it reserves a free number, goes on or ends.  Only one
\* that has its reservation stores bytes, and one that removes holds a number that nobody
\* may settle meanwhile.
UploadMoves(u) ==
  \/ upload'[u] = upload[u] \/ upload'[u].pc = "idle"
  \/ /\ upload[u].pc = "idle" /\ Live /\ session' = session
     /\ upload'[u].pc = "reserved" /\ chunk[upload'[u].seq].row = "none"
     /\ \A v \in Uploaders : v # u => upload'[v] = upload[v]
     /\ chunk' = [chunk EXCEPT ![upload'[u].seq].row = "reserved"]
  \/ /\ upload'[u].seq = upload[u].seq
     /\ \A v \in Uploaders : v # u => upload'[v] = upload[v]
     /\ \/ upload[u].pc = "reserved" /\ upload'[u].pc \in {"stored", "removing"} /\ chunk' = chunk
        \/ /\ upload[u].pc = "stored" /\ upload'[u].pc = "removing"
           /\ chunk' = chunk \/ (Live /\ chunk' = [chunk EXCEPT ![upload[u].seq].row = "committed"])
        \/ upload[u].pc = "removing" /\ upload'[u].pc = "releasing" /\ chunk' = chunk

LEMMA UploadSteppings ==
  Typed /\ [RecordingNext]_recordingVars
  => upload' \in [Uploaders -> Upload] /\ \A u \in Uploaders : UploadMoves(u)
<1> DEFINE Moved == upload' \in [Uploaders -> Upload] /\ \A u \in Uploaders : UploadMoves(u)
<1> SUFFICES ASSUME Typed, [RecordingNext]_recordingVars PROVE Moved
    OBVIOUS
<1> USE DEF Typed
<1>1. CASE UNCHANGED upload
    BY <1>1 DEF UploadMoves
<1>2. ASSUME NEW u \in Uploaders, NEW r \in Seqs, NEW b \in Bodies, ReserveChunkSeq(u, r, b)
      PROVE  Moved
  <2>1. /\ upload' = [upload EXCEPT ![u] = [pc |-> "reserved", seq |-> r, body |-> b]]
        /\ upload' \in [Uploaders -> Upload]
      BY <1>2 DEF ReserveChunkSeq, Upload
  <2>2. \A v \in Uploaders : v # u => upload'[v] = upload[v]
      BY <2>1
  <2>3. UploadMoves(u)
      BY <1>2, <2>1, <2>2 DEF ReserveChunkSeq, UploadMoves
  <2>. QED BY <2>1, <2>2, <2>3 DEF UploadMoves
<1>3. ASSUME NEW u \in Uploaders, UploadSteps(u) PROVE Moved
  <2>1. upload[u].pc # "idle" /\ upload[u].seq \in Seqs /\ upload[u].body \in Bodies
      BY <1>3 DEF UploadSteps, OverBudget, PutObject, CommitChunk, RemoveThenRelease,
         ReleaseChunkReservation, UploadDies, Upload, NoUpload
  <2>2. CASE Done(u)
      BY <2>2 DEF Done, UploadMoves, NoUpload, Upload
  <2>3. ASSUME NEW pc \in {"stored", "removing", "releasing"}, To(u, pc),
               \/ upload[u].pc = "reserved" /\ pc \in {"stored", "removing"} /\ chunk' = chunk
               \/ /\ upload[u].pc = "stored" /\ pc = "removing"
                  /\ chunk' = chunk
                     \/ (Live /\ chunk' = [chunk EXCEPT ![upload[u].seq].row = "committed"])
               \/ upload[u].pc = "removing" /\ pc = "releasing" /\ chunk' = chunk
        PROVE  Moved
    <3>1. /\ upload' \in [Uploaders -> Upload]
          /\ upload'[u].pc = pc /\ upload'[u].seq = upload[u].seq
        BY <2>1, <2>3 DEF To, Upload, NoUpload
    <3>2. \A v \in Uploaders : v # u => upload'[v] = upload[v]
        BY <2>3 DEF To
    <3>. QED BY <2>3, <3>1, <3>2 DEF UploadMoves
  <2>4. CASE PutObject(u)
      BY <2>3, <2>4 DEF PutObject
  <2>5. CASE CommitChunk(u)
      BY <2>2, <2>3, <2>5 DEF CommitChunk
  <2>6. CASE RemoveThenRelease(u)
      BY <2>2, <2>3, <2>6 DEF RemoveThenRelease
  <2>. QED BY <1>3, <2>2, <2>4, <2>5, <2>6
          DEF UploadSteps, OverBudget, ReleaseChunkReservation, UploadDies
<1>4. CASE \/ SessionInit \/ CloseIdleSessions \/ AnalysisSteps
           \/ \E q \in Seqs, b \in Contents : LateWrite(q, b)
           \/ \E read \in SUBSET Seqs : ZombieStores(read)
           \/ \E q \in Seqs : Settles(q) \/ ClaimLapses(q) \/ RemovePrefixFails(q)
           \/ \E w \in Scrubbers, q \in Seqs : ClaimUnscrubbedChunks(w, q)
           \/ \E w \in Scrubbers : ScrubSteps(w)
           \/ TimePasses("yes") \/ TimePasses("capped") \/ Pin \/ MarkSessionDeleting
           \/ DeletionGrace \/ RemovePrefix \/ DeleteMarkedSession \/ SweepDeletedPrefixes
    BY <1>4, <1>1 DEF SessionInit, CloseIdleSessions, AnalysisSteps, AnalysisBegins, AnalysisReads,
       AnalysisEnds, AnalysisFails, AnalysisLapses, AnalysisOnly, LateWrite, ZombieStores, Settles,
       ClaimLapses, ClaimUnscrubbedChunks, ScrubSteps, ScrubOnly, Inspect, WriteRedacted,
       MarkChunkScrubbed, MarkChunkScrubFailed, ScrubDies, TimePasses, Pin, MarkSessionDeleting,
       DeletionGrace, DeleteMarkedSession, RemovePrefix, RemovePrefixFails, SweepDeletedPrefixes,
       RetentionOnly
<1>5. CASE RecordingNext
  <2> HIDE DEF Typed, Moved
  <2>1. ASSUME NEW u \in Uploaders, NEW q \in Seqs, NEW b \in Bodies, ReserveChunkSeq(u, q, b)
        PROVE  Moved
      BY <2>1, <1>2
  <2>2. ASSUME NEW u \in Uploaders, UploadSteps(u) PROVE Moved
      BY <2>2, <1>3
  <2>3. ASSUME NEW w \in Scrubbers, ScrubSteps(w) PROVE Moved
      BY <2>3, <1>4
  <2>4. ASSUME NEW w \in Scrubbers, NEW q \in Seqs, ClaimUnscrubbedChunks(w, q) PROVE Moved
      BY <2>4, <1>4
  <2>5. ASSUME NEW q \in Seqs, NEW b \in Contents, LateWrite(q, b) PROVE Moved
      BY <2>5, <1>4
  <2>. QED BY <1>5, <2>1, <2>2, <2>3, <2>4, <2>5, <1>4 DEF RecordingNext
<1>. QED BY <1>1, <1>5 DEF recordingVars

\* What one step may do to a scrubber: it claims a settled chunk, goes on or ends, and is to
\* mark only what it has just redacted.
ScrubMoves(w) ==
  \/ scrub'[w] = scrub[w] \/ scrub'[w].pc = "idle"
  \/ Exists /\ scrub'[w].pc = "claimed" /\ chunk[scrub'[w].seq].settled
  \/ /\ scrub[w].pc # "idle" /\ scrub'[w].seq = scrub[w].seq
     /\ scrub'[w].pc = "mark" => object'[scrub[w].seq] = "clean"

LEMMA ScrubSteppings ==
  Typed /\ [RecordingNext]_recordingVars
  => scrub' \in [Scrubbers -> Scrub] /\ \A w \in Scrubbers : ScrubMoves(w)
<1> DEFINE Moved == scrub' \in [Scrubbers -> Scrub] /\ \A w \in Scrubbers : ScrubMoves(w)
<1> SUFFICES ASSUME Typed, [RecordingNext]_recordingVars PROVE Moved
    OBVIOUS
<1> USE DEF Typed
<1>1. CASE UNCHANGED scrub
    BY <1>1 DEF ScrubMoves
<1>2. ASSUME NEW w \in Scrubbers, NEW r \in Seqs, ClaimUnscrubbedChunks(w, r) PROVE Moved
  <2>1. /\ scrub' = [scrub EXCEPT ![w] = [pc |-> "claimed", seq |-> r]]
        /\ chunk[r].settled /\ Exists
      BY <1>2 DEF ClaimUnscrubbedChunks, Claimable, Live, Exists
  <2>. QED BY <2>1 DEF ScrubMoves, Scrub
<1>3. ASSUME NEW w \in Scrubbers, ScrubSteps(w) PROVE Moved
  <2>1. scrub[w].pc # "idle" /\ scrub[w].seq \in Seqs
      BY <1>3 DEF ScrubSteps, Inspect, WriteRedacted, MarkChunkScrubbed, MarkChunkScrubFailed,
         ScrubDies, Scrub, NoScrub
  <2>2. CASE scrub' = [scrub EXCEPT ![w] = NoScrub]
      BY <2>2 DEF ScrubMoves, NoScrub, Scrub
  <2>3. ASSUME NEW pc \in {"write", "mark", "failed"}, scrub' = [scrub EXCEPT ![w].pc = pc],
               pc = "mark" => object'[scrub[w].seq] = "clean"
        PROVE  Moved
    <3>1. /\ scrub' \in [Scrubbers -> Scrub]
          /\ scrub'[w].pc = pc /\ scrub'[w].seq = scrub[w].seq
        BY <2>1, <2>3 DEF Scrub, NoScrub
    <3>2. \A v \in Scrubbers : v # w => scrub'[v] = scrub[v]
        BY <2>3
    <3>. QED BY <2>1, <2>3, <3>1, <3>2 DEF ScrubMoves
  <2>4. CASE Inspect(w)
      BY <2>3, <2>4 DEF Inspect
  <2>5. CASE WriteRedacted(w)
      BY <2>1, <2>3, <2>5 DEF WriteRedacted
  <2>6. CASE MarkChunkScrubbed(w)
    <3>1. \/ scrub' = [scrub EXCEPT ![w] = NoScrub]
          \/ scrub' = [scrub EXCEPT ![w].pc = "failed"]
        BY <2>6 DEF MarkChunkScrubbed
    <3>. QED BY <2>2, <2>3, <3>1
  <2>. QED BY <1>3, <2>2, <2>4, <2>5, <2>6
          DEF ScrubSteps, MarkChunkScrubFailed, ScrubDies
<1>4. CASE \/ SessionInit \/ CloseIdleSessions \/ AnalysisSteps
           \/ \E u \in Uploaders : UploadSteps(u)
           \/ \E u \in Uploaders, q \in Seqs, b \in Bodies : ReserveChunkSeq(u, q, b)
           \/ \E q \in Seqs, b \in Contents : LateWrite(q, b)
           \/ \E read \in SUBSET Seqs : ZombieStores(read)
           \/ \E q \in Seqs : Settles(q) \/ ClaimLapses(q) \/ RemovePrefixFails(q)
           \/ TimePasses("yes") \/ TimePasses("capped") \/ Pin \/ MarkSessionDeleting
           \/ DeletionGrace \/ RemovePrefix \/ DeleteMarkedSession \/ SweepDeletedPrefixes
    BY <1>4, <1>1 DEF SessionInit, CloseIdleSessions, AnalysisSteps, AnalysisBegins, AnalysisReads,
       AnalysisEnds, AnalysisFails, AnalysisLapses, AnalysisOnly, LateWrite, ZombieStores, Settles,
       ClaimLapses, UploadSteps, UploadOnly, OverBudget, PutObject, CommitChunk, RemoveThenRelease,
       ReleaseChunkReservation, UploadDies, ReserveChunkSeq, TimePasses, Pin, MarkSessionDeleting,
       DeletionGrace, DeleteMarkedSession, RemovePrefix, RemovePrefixFails, SweepDeletedPrefixes,
       RetentionOnly
<1>5. CASE RecordingNext
  <2> HIDE DEF Typed, Moved
  <2>1. ASSUME NEW w \in Scrubbers, NEW q \in Seqs, ClaimUnscrubbedChunks(w, q) PROVE Moved
      BY <2>1, <1>2
  <2>2. ASSUME NEW w \in Scrubbers, ScrubSteps(w) PROVE Moved
      BY <2>2, <1>3
  <2>3. ASSUME NEW u \in Uploaders, UploadSteps(u) PROVE Moved
      BY <2>3, <1>4
  <2>4. ASSUME NEW u \in Uploaders, NEW q \in Seqs, NEW b \in Bodies, ReserveChunkSeq(u, q, b)
        PROVE  Moved
      BY <2>4, <1>4
  <2>5. ASSUME NEW q \in Seqs, NEW b \in Contents, LateWrite(q, b) PROVE Moved
      BY <2>5, <1>4
  <2>. QED BY <1>5, <2>1, <2>2, <2>3, <2>4, <2>5, <1>4 DEF RecordingNext
<1>. QED BY <1>1, <1>5 DEF recordingVars

\* What one step may do to the analysis: it is to be made again, or fails; it stays as it is,
\* and what becomes readable is missed or will be found by the job of the end of the session;
\* it reads all that is readable; it ends; or a superseded one is stored.
AnalysisMoves ==
  \/ job'.status \in {"pending", "claimed"}
  \/ job'.status = "none" /\ session'.status \notin {"closed", "analyzed"}
  \/ /\ job'.status = job.status /\ job'.read = job.read
     /\ session'.status = session.status \/ session'.status \notin {"closed", "analyzed"}
     /\ analyzed' = analyzed \/ Readable \subseteq analyzed' \union missed'
     /\ missed \subseteq missed'
     /\ Readable' \subseteq Readable \union missed'
  \/ job'.status = "read" /\ Readable' \subseteq job'.read
  \/ /\ job.status = "read" /\ job'.status = "none"
     /\ analyzed' = job.read /\ missed' = missed /\ Readable' = Readable

LEMMA AnalysisSteppings ==
  Typed /\ ReadableIsRedacted /\ [RecordingNext]_recordingVars
  => /\ job' \in Analysis /\ analyzed' \in SUBSET Seqs /\ missed' \in SUBSET Seqs
     /\ sweeper' \in {"idle", "removed"}
     /\ AnalysisMoves
<1> DEFINE Moved == /\ job' \in Analysis /\ analyzed' \in SUBSET Seqs /\ missed' \in SUBSET Seqs
                    /\ sweeper' \in {"idle", "removed"}
                    /\ AnalysisMoves
<1> SUFFICES ASSUME Typed, ReadableIsRedacted, [RecordingNext]_recordingVars PROVE Moved
    OBVIOUS
<1> USE DEF Typed
<1>j. Idle(job) \in Analysis /\ Enqueued(job) \in Analysis /\ Again(job) \in Analysis /\ NoJob \in Analysis
  <2>1. job.zombies \in SUBSET SUBSET Seqs
      BY DEF Analysis
  <2>2. NoJob \in Analysis /\ Idle(job) \in Analysis /\ Enqueued(job) \in Analysis
    <3> HIDE DEF Moved
    <3>1. NoJob \in Analysis
        BY RecordingConstants DEF NoJob, Analysis
    <3>2. Idle(job) \in Analysis
        BY <2>1, <3>1 DEF Idle, Analysis
    <3>3. Enqueued(job) \in Analysis
        BY <2>1, <3>1 DEF Enqueued, Analysis
    <3>. QED BY <3>1, <3>2, <3>3
  <2>3. job.attempts \in 0..MaxAnalyses
      BY DEF Analysis
  <2>4. CASE job.attempts + 1 >= MaxAnalyses
      BY <2>2, <2>4 DEF Again
  <2>5. CASE ~(job.attempts + 1 >= MaxAnalyses)
    <3>1. job.attempts + 1 \in 0..MaxAnalyses
        BY <2>3, <2>5, RecordingConstants
    <3>. QED BY <2>2, <2>5, <3>1 DEF Again, Analysis
  <2>. QED BY <2>2, <2>4, <2>5
<1>k. /\ Idle(job).status = "none" /\ Enqueued(job).status = "pending"
      /\ Again(job).status \in {"none", "pending"}
    BY DEF Idle, Enqueued, Again, NoJob
<1>1. ASSUME UNCHANGED <<job, analyzed, missed>>, Readable' \subseteq Readable,
             session'.status = session.status \/ session'.status \notin {"closed", "analyzed"},
             sweeper' \in {"idle", "removed"}
      PROVE  Moved
    BY <1>1 DEF AnalysisMoves
<1>2. CASE /\ UNCHANGED <<job, analyzed, missed, chunk, session>>
           /\ sweeper' \in {"idle", "removed"}
    BY <1>1, <1>2 DEF Readable
<1>3. CASE SessionInit \/ MarkSessionDeleting
    BY <1>3, <1>1 DEF SessionInit, MarkSessionDeleting, Session, Readable, RetentionOnly
<1>4. CASE TimePasses("yes") \/ TimePasses("capped") \/ Pin \/ DeletionGrace
  <2>1. session'.status = session.status
      BY <1>4 DEF TimePasses, Pin, DeletionGrace, Session
  <2>. QED BY <1>4, <2>1, <1>1 DEF TimePasses, Pin, DeletionGrace, Readable, RetentionOnly
<1>5. CASE CloseIdleSessions
    BY <1>5, <1>j, <1>k DEF CloseIdleSessions, AnalysisMoves, AnalysisOnly
<1>6. CASE AnalysisBegins
    BY <1>6 DEF AnalysisBegins, AnalysisMoves, AnalysisOnly, Analysis
<1>7. CASE AnalysisReads
  <2>1. /\ job' = [job EXCEPT !.status = "read", !.read = {q \in Readable : object[q] # "bad"}]
        /\ \A q \in Readable : object[q] # "none"
        /\ UNCHANGED <<chunk, analyzed, sweeper>> /\ missed' = {}
      BY <1>7 DEF AnalysisReads, AnalysisOnly
  <2>2. \A q \in Readable : object[q] # "bad"
      BY <2>1 DEF Readable, ReadableIsRedacted
  <2>3. Readable' = Readable /\ Readable \subseteq Seqs
      BY <2>1 DEF Readable
  <2>4. job'.status = "read" /\ job'.read = Readable /\ job' \in Analysis
      BY <2>1, <2>2, <2>3 DEF Analysis
  <2>. QED BY <2>1, <2>3, <2>4 DEF AnalysisMoves
<1>8. CASE AnalysisEnds
  <2>1. /\ job.status = "read" /\ job' = Idle(job) /\ analyzed' = job.read
        /\ UNCHANGED <<chunk, missed, sweeper>>
      BY <1>8 DEF AnalysisEnds, AnalysisOnly
  <2>2. Readable' = Readable /\ job.read \in SUBSET Seqs
      BY <2>1 DEF Readable, Analysis
  <2>. QED BY <1>j, <1>k, <2>1, <2>2 DEF AnalysisMoves
<1>9. CASE AnalysisFails
  <2>1. /\ session'.status = "analysis_failed" /\ job' = Again(job)
        /\ analyzed' \in {analyzed, job.read} /\ UNCHANGED <<missed, sweeper>>
      BY <1>9 DEF AnalysisFails, AnalysisOnly, Session
  <2>2. job.read \in SUBSET Seqs
      BY DEF Analysis
  <2>. QED BY <1>j, <1>k, <2>1, <2>2 DEF AnalysisMoves
<1>10. CASE AnalysisLapses
  <2>1. /\ job' = [Again(job) EXCEPT !.zombies =
                     @ \union (IF job.status = "read" THEN {job.read} ELSE {})]
        /\ UNCHANGED <<analyzed, missed, sweeper>>
        /\ Again(job).status = "none" => session'.status = "analysis_failed"
      BY <1>10 DEF AnalysisLapses, AnalysisOnly, Session
  <2>2. job' \in Analysis /\ job'.status = Again(job).status
      BY <1>j, <2>1 DEF Analysis
  <2>. QED BY <1>k, <2>1, <2>2 DEF AnalysisMoves
<1>11. ASSUME NEW read \in SUBSET Seqs, ZombieStores(read) PROVE Moved
  <2>1. /\ analyzed' = read /\ missed' = missed \union (Readable \ read)
        /\ job' = [job EXCEPT !.zombies = @ \ {read}]
        /\ UNCHANGED <<session, chunk, sweeper>>
      BY <1>11 DEF ZombieStores, AnalysisOnly
  <2>2. Readable' = Readable /\ Readable \subseteq Seqs
      BY <2>1 DEF Readable
  <2>3. job' \in Analysis /\ job'.status = job.status /\ job'.read = job.read
      BY <2>1 DEF Analysis
  <2>. QED BY <2>1, <2>2, <2>3 DEF AnalysisMoves
<1>12. ASSUME NEW w \in Scrubbers, MarkChunkScrubbed(w) PROVE Moved
  <2>1. /\ scrub[w].seq \in Seqs /\ UNCHANGED <<session, analyzed, sweeper>>
      BY <1>12 DEF MarkChunkScrubbed, ScrubOnly, Scrub, NoScrub
  <2>2. CASE chunk[scrub[w].seq].row = "none"
      BY <1>12, <2>1, <2>2, <1>2 DEF MarkChunkScrubbed
  <2>3. CASE chunk[scrub[w].seq].row # "none"
    <3>1. /\ chunk' = [chunk EXCEPT ![scrub[w].seq].readable = TRUE, ![scrub[w].seq].claim = "none"]
          /\ job' = IF Reanalyzes THEN Enqueued(job) ELSE job
          /\ missed' = IF job.status = "read" THEN missed \union {scrub[w].seq} ELSE missed
        BY <1>12, <2>3 DEF MarkChunkScrubbed
    <3>2. Readable' \subseteq Readable \union {scrub[w].seq}
        BY <3>1 DEF Readable
    <3>3. CASE job.status = "read"
        BY <2>1, <3>1, <3>2, <3>3 DEF AnalysisMoves, Reanalyzes
    <3>4. CASE job.status \in {"pending", "claimed"} \/ Reanalyzes
        BY <1>j, <1>k, <2>1, <3>1, <3>4 DEF AnalysisMoves, Reanalyzes
    <3>5. CASE job.status = "none" /\ ~Reanalyzes
        BY <2>1, <3>1, <3>5 DEF AnalysisMoves, Reanalyzes
    <3>. QED BY <3>3, <3>4, <3>5 DEF Analysis
  <2>. QED BY <2>2, <2>3
<1>13. CASE DeleteMarkedSession
  <2>1. CASE session.status = "deleting"
    <3>1. /\ session'.status = "gone" /\ job' = NoJob /\ analyzed' = {} /\ missed' = missed
          /\ sweeper' = "idle"
        BY <1>13, <2>1 DEF DeleteMarkedSession, RetentionOnly, Session
    <3>. QED BY <1>j, <3>1 DEF AnalysisMoves, NoJob
  <2>. QED BY <1>13, <1>2, <2>1 DEF DeleteMarkedSession, RetentionOnly
<1>14. ASSUME NEW u \in Uploaders, UploadSteps(u) PROVE Moved
  <2>1. UNCHANGED <<job, analyzed, missed, sweeper>>
      BY <1>14 DEF UploadSteps, UploadOnly, OverBudget, PutObject, CommitChunk, RemoveThenRelease,
         ReleaseChunkReservation, UploadDies
  <2>2. session'.status = session.status
      BY <1>14 DEF UploadSteps, OverBudget, PutObject, CommitChunk, RemoveThenRelease,
         ReleaseChunkReservation, UploadDies, Session
  <2>3. \A q \in Seqs : chunk'[q].readable => chunk[q].readable
    <3>1. \/ UNCHANGED chunk \/ chunk' = Released(upload[u].seq)
          \/ chunk' = [chunk EXCEPT ![upload[u].seq].row = "committed"]
        BY <1>14 DEF UploadSteps, OverBudget, PutObject, CommitChunk, RemoveThenRelease,
           ReleaseChunkReservation, UploadDies
    <3>. QED BY <3>1 DEF Released, NoChunk, Chunk
  <2>. QED BY <1>1, <2>1, <2>2, <2>3 DEF Readable
<1>15. ASSUME NEW w \in Scrubbers,
              \/ Inspect(w) \/ WriteRedacted(w) \/ MarkChunkScrubFailed(w) \/ ScrubDies(w)
              \/ \E q \in Seqs : ClaimUnscrubbedChunks(w, q)
       PROVE  Moved
  <2>1. UNCHANGED <<job, analyzed, missed, session, sweeper>>
      BY <1>15 DEF Inspect, WriteRedacted, MarkChunkScrubFailed, ScrubDies, ClaimUnscrubbedChunks,
         ScrubOnly
  <2>2. \A q \in Seqs : chunk'[q].readable => chunk[q].readable
    <3>1. CASE UNCHANGED chunk
        BY <3>1
    <3>2. CASE \E q \in Seqs : ClaimUnscrubbedChunks(w, q)
        BY <3>2 DEF ClaimUnscrubbedChunks, Chunk
    <3>3. CASE MarkChunkScrubFailed(w)
        BY <3>3 DEF MarkChunkScrubFailed, Chunk
    <3>. QED BY <1>15, <3>1, <3>2, <3>3 DEF Inspect, WriteRedacted, ScrubDies
  <2>. QED BY <1>1, <2>1, <2>2 DEF Readable
<1>16. ASSUME NEW q \in Seqs, \/ Settles(q) \/ ClaimLapses(q) \/ RemovePrefixFails(q)
                              \/ \E u \in Uploaders, b \in Bodies : ReserveChunkSeq(u, q, b)
                              \/ \E b \in Contents : LateWrite(q, b)
       PROVE  Moved
  <2>1. UNCHANGED <<job, analyzed, missed, session, sweeper>>
      BY <1>16 DEF Settles, ClaimLapses, RemovePrefixFails, ReserveChunkSeq, LateWrite, UploadOnly,
         RetentionOnly
  <2>2. \A r \in Seqs : chunk'[r].readable => chunk[r].readable
      BY <1>16 DEF Settles, ClaimLapses, RemovePrefixFails, ReserveChunkSeq, LateWrite, Chunk
  <2>. QED BY <1>1, <2>1, <2>2 DEF Readable
<1>17. CASE RemovePrefix \/ SweepDeletedPrefixes
    BY <1>17, <1>2 DEF RemovePrefix, SweepDeletedPrefixes, RetentionOnly
<1>18. CASE UNCHANGED recordingVars
    BY <1>18, <1>2 DEF recordingVars
<1>19. CASE RecordingNext
  <2> HIDE DEF Typed, Moved
  <2>1. ASSUME NEW w \in Scrubbers, ScrubSteps(w) PROVE Moved
      BY <2>1, <1>12, <1>15 DEF ScrubSteps
  <2>2. ASSUME NEW w \in Scrubbers, NEW q \in Seqs, ClaimUnscrubbedChunks(w, q) PROVE Moved
      BY <2>2, <1>15
  <2>3. ASSUME NEW q \in Seqs, Settles(q) \/ ClaimLapses(q) \/ RemovePrefixFails(q) PROVE Moved
      BY <2>3, <1>16
  <2>5. ASSUME NEW u \in Uploaders, NEW q \in Seqs, NEW b \in Bodies, ReserveChunkSeq(u, q, b)
        PROVE  Moved
      BY <2>5, <1>16
  <2>6. ASSUME NEW q \in Seqs, NEW b \in Contents, LateWrite(q, b) PROVE Moved
      BY <2>6, <1>16
  <2>4. CASE AnalysisSteps
      BY <2>4, <1>6, <1>7, <1>8, <1>9, <1>10 DEF AnalysisSteps
  <2>. QED BY <1>19, <2>1, <2>2, <2>3, <2>4, <2>5, <2>6, <1>3, <1>4, <1>5, <1>11, <1>13, <1>14, <1>17
          DEF RecordingNext
<1>. QED BY <1>18, <1>19

\* What one step may do to the number of committed chunks, and to the counter.
Committed == {q \in Seqs : chunk[q].row = "committed"}
CountMoves ==
  \/ session'.count = session.count /\ Committed' = Committed
  \/ /\ session'.count = session.count + 1
     /\ \E q \in Seqs : q \notin Committed /\ Committed' = Committed \union {q}
  \/ session'.count = 0 /\ Committed' = {}

LEMMA CountSteps == Typed /\ [RecordingNext]_recordingVars => CountMoves
<1> SUFFICES ASSUME Typed, [RecordingNext]_recordingVars PROVE CountMoves
    OBVIOUS
<1> USE DEF Typed
<1>1. CASE session'.count = session.count
           /\ \A q \in Seqs : chunk'[q].row = "committed" <=> chunk[q].row = "committed"
    BY <1>1 DEF CountMoves, Committed
<1>2. ASSUME NEW u \in Uploaders, CommitChunk(u) PROVE CountMoves
  <2>1. upload[u].seq \in Seqs
      BY <1>2 DEF CommitChunk, Upload, NoUpload
  <2>2. CASE UNCHANGED <<session, chunk>>
      BY <1>1, <2>2
  <2>3. CASE /\ chunk[upload[u].seq].row # "none"
             /\ chunk' = [chunk EXCEPT ![upload[u].seq].row = "committed"]
             /\ session' = [session EXCEPT !.count =
                              IF chunk[upload[u].seq].row = "reserved" THEN @ + 1 ELSE @]
    <3>1. CASE chunk[upload[u].seq].row = "reserved"
      <4>1. session'.count = session.count + 1
          BY <2>3, <3>1 DEF Session
      <4>2. /\ chunk'[upload[u].seq].row = "committed"
            /\ \A q \in Seqs : q # upload[u].seq => chunk'[q] = chunk[q]
          BY <2>1, <2>3 DEF Chunk
      <4>3. upload[u].seq \notin Committed /\ Committed' = Committed \union {upload[u].seq}
          BY <2>1, <3>1, <4>2 DEF Committed
      <4>. QED BY <2>1, <4>1, <4>3 DEF CountMoves
    <3>2. CASE chunk[upload[u].seq].row # "reserved"
      <4>1. chunk[upload[u].seq].row = "committed"
          BY <2>1, <2>3, <3>2 DEF Chunk
      <4>2. session'.count = session.count
          BY <2>3, <3>2 DEF Session
      <4>3. \A q \in Seqs : chunk'[q].row = "committed" <=> chunk[q].row = "committed"
          BY <2>1, <2>3, <4>1 DEF Chunk
      <4>. QED BY <1>1, <4>2, <4>3
    <3>. QED BY <3>1, <3>2
  <2>. QED BY <1>2, <2>2, <2>3 DEF CommitChunk
<1>3. CASE DeleteMarkedSession
  <2>1. CASE session.status = "deleting"
    <3>1. session'.count = 0 /\ chunk' = [q \in Seqs |-> NoChunk]
        BY <1>3, <2>1 DEF DeleteMarkedSession, Session
    <3>. QED BY <3>1 DEF CountMoves, Committed, NoChunk
  <2>. QED BY <1>1, <1>3, <2>1 DEF DeleteMarkedSession
<1>4. ASSUME NEW u \in Uploaders, UploadSteps(u) PROVE CountMoves
  <2>1. CASE OverBudget(u) \/ ReleaseChunkReservation(u)
    <3>1. UNCHANGED session /\ chunk' \in {chunk, Released(upload[u].seq)}
        BY <2>1 DEF OverBudget, ReleaseChunkReservation
    <3>. QED BY <1>1, <3>1 DEF Released, NoChunk, Chunk
  <2>. QED BY <1>1, <1>2, <1>4, <2>1
          DEF UploadSteps, PutObject, RemoveThenRelease, UploadDies
<1>5. ASSUME NEW u \in Uploaders, NEW q \in Seqs, NEW b \in Bodies, ReserveChunkSeq(u, q, b)
      PROVE  CountMoves
    BY <1>1, <1>5 DEF ReserveChunkSeq, Chunk
<1>6. ASSUME NEW q \in Seqs,
             \/ Settles(q) \/ ClaimLapses(q) \/ RemovePrefixFails(q)
             \/ \E b \in Contents : LateWrite(q, b)
             \/ \E w \in Scrubbers : ClaimUnscrubbedChunks(w, q)
      PROVE  CountMoves
    BY <1>1, <1>6 DEF Settles, ClaimLapses, RemovePrefixFails, LateWrite, ClaimUnscrubbedChunks,
       Chunk
<1>7. ASSUME NEW w \in Scrubbers, ScrubSteps(w) PROVE CountMoves
  <2>1. CASE MarkChunkScrubbed(w)
      BY <1>1, <2>1 DEF MarkChunkScrubbed, Chunk
  <2>2. CASE MarkChunkScrubFailed(w)
      BY <1>1, <2>2 DEF MarkChunkScrubFailed, Chunk
  <2>. QED BY <1>1, <1>7, <2>1, <2>2 DEF ScrubSteps, Inspect, WriteRedacted, ScrubDies
<1>8. CASE \/ SessionInit \/ CloseIdleSessions \/ AnalysisSteps
           \/ TimePasses("yes") \/ TimePasses("capped") \/ Pin \/ MarkSessionDeleting
           \/ DeletionGrace \/ RemovePrefix \/ SweepDeletedPrefixes
           \/ \E read \in SUBSET Seqs : ZombieStores(read)
  <2>1. UNCHANGED chunk
      BY <1>8 DEF SessionInit, CloseIdleSessions, AnalysisSteps, AnalysisBegins, AnalysisReads,
         AnalysisEnds, AnalysisFails, AnalysisLapses, TimePasses, Pin, MarkSessionDeleting,
         DeletionGrace, RemovePrefix, SweepDeletedPrefixes, ZombieStores
  <2>2. session'.count = session.count
      BY <1>8 DEF SessionInit, CloseIdleSessions, AnalysisSteps, AnalysisBegins, AnalysisReads,
         AnalysisEnds, AnalysisFails, AnalysisLapses, TimePasses, Pin, MarkSessionDeleting,
         DeletionGrace, RemovePrefix, SweepDeletedPrefixes, ZombieStores, Session
  <2>. QED BY <1>1, <2>1, <2>2
<1>9. CASE UNCHANGED recordingVars
    BY <1>1, <1>9 DEF recordingVars
<1>10. CASE RecordingNext
  <2> HIDE DEF Typed
  <2>. QED BY <1>10, <1>3, <1>4, <1>5, <1>6, <1>7, <1>8 DEF RecordingNext
<1>. QED BY <1>9, <1>10

(* The inductive step: with what a step may do to each part, the parts agree again. *)
LEMMA StepKeepsInv == RecordingInv /\ [RecordingNext]_recordingVars => RecordingInv'
<1> SUFFICES ASSUME RecordingInv, [RecordingNext]_recordingVars PROVE RecordingInv'
    OBVIOUS
<1>t. Typed
    BY InvTyped
<1>i. /\ ReadableIsRedacted /\ OneWriter /\ CountIsCommitted /\ LateChunksAnalyzed
      /\ RowsGo /\ Tombs /\ Covers
      /\ \A q \in Seqs : Settled(q)
      /\ \A u \in Uploaders : Writes(u)
      /\ \A w \in Scrubbers : Scrubs(w)
    BY DEF RecordingInv, RecordingAgrees
<1>s. SessionMoves
    BY <1>t, SessionSteps
<1>c. chunk' \in [Seqs -> Chunk] /\ \A q \in Seqs : ChunkMoves(q)
    BY <1>t, ChunkSteps
<1>o. /\ object' \in [Seqs -> Contents \union {"none"}] /\ \A q \in Seqs : ObjectMoves(q)
      /\ late' \in [Seqs -> SUBSET Contents] /\ \A q \in Seqs : LateMoves(q)
    BY <1>t, <1>i, StorageSteps
<1>u. upload' \in [Uploaders -> Upload] /\ \A u \in Uploaders : UploadMoves(u)
    BY <1>t, UploadSteppings
<1>b. scrub' \in [Scrubbers -> Scrub] /\ \A w \in Scrubbers : ScrubMoves(w)
    BY <1>t, ScrubSteppings
<1>a. /\ job' \in Analysis /\ analyzed' \in SUBSET Seqs /\ missed' \in SUBSET Seqs
      /\ sweeper' \in {"idle", "removed"}
      /\ AnalysisMoves
    BY <1>t, <1>i, AnalysisSteppings
<1>n. CountMoves
    BY <1>t, CountSteps
<1> HIDE DEF RecordingInv

(* The session itself. *)
<1>1. session.tomb => session'.tomb
    BY <1>s DEF SessionMoves
<1>2. Tombs'
    BY <1>s, <1>i DEF SessionMoves, Tombs, TombstoneHolds, MayRegister, Live
<1>3. Exists' => Exists \/ session.status = "none"
    BY <1>s, <1>i DEF SessionMoves, Tombs, MayRegister, Exists, Live
<1>4. \A q \in Seqs : chunk[q].row # "none" \/ chunk[q].settled => Exists
    BY <1>i DEF RowsGo
<1>5. RowsGo'
  <2>1. CASE Exists'
    <3>1. session'.status # "none"
        BY <2>1 DEF Exists
    <3>. QED BY <2>1, <3>1 DEF RowsGo
  <2>2. CASE ~Exists' /\ session'.status = session.status
    <3>1. ~Exists
        BY <2>2 DEF Exists
    <3>2. \A q \in Seqs : /\ chunk'[q].row = "none"
                          /\ ~chunk'[q].settled /\ ~chunk'[q].readable
        BY <1>c, <1>i, <3>1 DEF RowsGo, ChunkMoves, Same, Reserves, Releases, Commits, Settling,
           Marks, Vanishes, NoChunk, Live, Exists
    <3>3. session'.status = "none" => \A u \in Uploaders : upload'[u].pc = "idle"
        BY <1>u, <1>i, <2>2, <3>1 DEF RowsGo, UploadMoves, Live, Exists
    <3>4. session'.status = "none" => \A w \in Scrubbers : scrub'[w].pc = "idle"
        BY <1>b, <1>i, <2>2, <3>1 DEF RowsGo, ScrubMoves
    <3>. QED BY <3>2, <3>3, <3>4 DEF RowsGo
  <2>3. CASE ~Exists' /\ session'.status # session.status
    <3>1. session'.status = "gone" /\ chunk' = [q \in Seqs |-> NoChunk]
        BY <1>s, <2>3 DEF SessionMoves, Exists
    <3>. QED BY <3>1 DEF RowsGo, NoChunk
  <2>. QED BY <2>1, <2>2, <2>3

(* Requests and scrubs under way have a session as long as there is one. *)
<1>6. \A u \in Uploaders : upload[u].pc # "idle" /\ Exists' => Exists
    BY <1>3, <1>i DEF RowsGo
<1>7. \A w \in Scrubbers : scrub[w].pc # "idle" /\ Exists' => Exists
    BY <1>3, <1>i DEF RowsGo
<1>8. \A q \in Seqs, u \in Uploaders :
        chunk[q].settled /\ upload[u].pc # "idle" => upload[u].seq # q
    BY <1>4, <1>i DEF Writes
<1>9. \A q \in Seqs : Marks(q) => chunk[q].settled /\ Redacted(q)
    BY <1>4, <1>i DEF Marks, Scrubs

(* Rows, and what is redacted. *)
<1>10. ASSUME NEW q \in Seqs PROVE Settled(q)'
  <2>1. chunk[q].settled => late'[q] \intersect Bodies = {}
      BY <1>o, <1>i, <1>8 DEF LateMoves, Settled, Bodies
  <2>2. CASE Same(q)
      BY <1>i, <2>1, <2>2 DEF Same, Settled
  <2>3. CASE Reserves(q) \/ Commits(q)
    <3>1. ~chunk[q].settled
        BY <1>8, <1>i, <2>3 DEF Reserves, Commits, Settled
    <3>. QED BY <1>i, <2>3, <3>1 DEF Reserves, Commits, Settled
  <2>4. CASE Releases(q) \/ Vanishes(q)
      BY <2>4 DEF Releases, Vanishes, Settled, NoChunk
  <2>5. CASE Settling(q)
      BY <1>i, <2>5 DEF Settling, Settled
  <2>6. CASE Marks(q)
      BY <1>i, <1>9, <2>1, <2>6 DEF Marks, Settled
  <2>. QED BY <1>c, <2>2, <2>3, <2>4, <2>5, <2>6 DEF ChunkMoves
<1>11. ASSUME NEW q \in Seqs, chunk[q].settled, Exists' PROVE chunk'[q].settled
    BY <1>11, <1>c, <1>i DEF ChunkMoves, Same, Reserves, Releases, Commits, Settling, Marks, Vanishes,
       Settled, Exists
<1>12. ASSUME NEW q \in Seqs, chunk[q].settled, Redacted(q) PROVE Redacted(q)'
    BY <1>12, <1>1, <1>8, <1>i, <1>o DEF ObjectMoves, Redacted, Settled
<1>13. ReadableIsRedacted'
  <2> SUFFICES ASSUME NEW q \in Seqs, chunk'[q].readable PROVE Redacted(q)'
      BY DEF ReadableIsRedacted, Redacted
  <2>1. chunk[q].readable \/ Marks(q)
      BY <1>c DEF ChunkMoves, Same, Reserves, Releases, Commits, Settling, Vanishes, NoChunk
  <2>2. chunk[q].readable => chunk[q].settled /\ Redacted(q)
      BY <1>i DEF ReadableIsRedacted, Redacted, Settled
  <2>. QED BY <2>1, <2>2, <1>9, <1>12

(* Requests. *)
<1>14. OneWriter'
  <2> SUFFICES ASSUME NEW u \in Uploaders, NEW v \in Uploaders, u # v,
                      upload'[u].pc # "idle", upload'[v].pc # "idle",
                      upload'[u].seq = upload'[v].seq
               PROVE  FALSE
      BY DEF OneWriter
  <2>1. ASSUME NEW x \in Uploaders, NEW y \in Uploaders, x # y, upload[x].pc = "idle",
               upload'[x].pc # "idle", upload'[y].pc # "idle", upload'[x].seq = upload'[y].seq
        PROVE  FALSE
    <3>1. /\ Live /\ chunk[upload'[x].seq].row = "none" /\ upload'[y] = upload[y]
        BY <1>u, <2>1 DEF UploadMoves
    <3>2. Exists
        BY <3>1 DEF Live, Exists
    <3>. QED BY <1>i, <2>1, <3>1, <3>2 DEF Writes
  <2>2. CASE upload[u].pc # "idle" /\ upload[v].pc # "idle"
    <3>1. upload'[u].seq = upload[u].seq /\ upload'[v].seq = upload[v].seq
        BY <1>u, <2>2 DEF UploadMoves
    <3>2. /\ upload[u].pc \in {"reserved", "stored", "removing", "releasing"}
          /\ upload[v].pc \in {"reserved", "stored", "removing", "releasing"}
        BY <1>t, <2>2 DEF Typed, Upload, NoUpload
    <3>. QED BY <1>i, <3>1, <3>2 DEF OneWriter
  <2>. QED BY <2>1, <2>2
<1>15. ASSUME NEW u \in Uploaders PROVE Writes(u)'
  <2> SUFFICES ASSUME upload'[u].pc # "idle", Exists'
               PROVE  /\ chunk'[upload'[u].seq].row # "none"
                      /\ ~chunk'[upload'[u].seq].settled
                      /\ upload'[u].pc \in {"reserved", "stored"}
                           => chunk'[upload'[u].seq].row = "reserved"
      BY DEF Writes
  <2>s. upload'[u].seq \in Seqs
      BY <1>u DEF Upload, NoUpload
  <2>1. CASE upload'[u] = upload[u]
    <3> DEFINE q == upload[u].seq
    <3>1. /\ chunk[q].row # "none" /\ ~chunk[q].settled
          /\ upload[u].pc \in {"reserved", "stored"} => chunk[q].row = "reserved"
        BY <1>6, <1>i, <2>1 DEF Writes
    <3>2. \A v \in Uploaders : upload[v].pc # "idle" /\ upload[v].seq = q => v = u
      <4>1. \A v \in Uploaders : upload[v].pc # "idle"
                => upload[v].pc \in {"reserved", "stored", "removing", "releasing"}
          BY <1>t DEF Typed, Upload, NoUpload
      <4>. QED BY <1>i, <2>1, <4>1 DEF OneWriter
    <3>3. ~Reserves(q)
        BY <3>1 DEF Reserves
    <3>4. ~Releases(q)
        BY <3>2, <2>1, <1>t DEF Releases, Typed, NoUpload
    <3>5. ~Commits(q)
      <4> SUFFICES ASSUME Commits(q) PROVE FALSE
          OBVIOUS
      <4>1. /\ upload[u].pc = "stored"
            /\ upload' \in {[upload EXCEPT ![u] = NoUpload], [upload EXCEPT ![u].pc = "removing"]}
          BY <3>2 DEF Commits
      <4>2. upload[u] \in Upload /\ upload \in [Uploaders -> Upload]
          BY <1>t DEF Typed
      <4>. QED BY <2>1, <4>1, <4>2 DEF Upload, NoUpload
    <3>6. ~Settling(q)
      <4> SUFFICES ASSUME Settling(q) PROVE FALSE
          OBVIOUS
      <4>1. upload[u].pc \in {"reserved", "stored"}
          BY <1>t, <2>1 DEF Settling, Typed, Upload, NoUpload
      <4>. QED BY <3>1, <4>1 DEF Settling
    <3>7. ~Marks(q)
        BY <2>s, <2>1, <3>1, <1>9
    <3>8. ~Vanishes(q)
        BY DEF Vanishes, Exists
    <3>9. Same(q)
        BY <1>c, <2>s, <2>1, <3>3, <3>4, <3>5, <3>6, <3>7, <3>8 DEF ChunkMoves
    <3>. QED BY <2>1, <3>1, <3>9 DEF Same
  <2>2. CASE /\ upload'[u].pc = "reserved" /\ chunk[upload'[u].seq].row = "none"
             /\ chunk' = [chunk EXCEPT ![upload'[u].seq].row = "reserved"]
    <3>1. chunk'[upload'[u].seq] = [chunk[upload'[u].seq] EXCEPT !.row = "reserved"]
        BY <1>t, <2>s, <2>2 DEF Typed
    <3>2. chunk[upload'[u].seq] \in Chunk
        BY <1>t, <2>s DEF Typed
    <3>3. ~chunk[upload'[u].seq].settled
        BY <1>i, <2>s, <2>2 DEF Settled
    <3>. QED BY <3>1, <3>2, <3>3 DEF Chunk
  <2>3. CASE /\ upload'[u].seq = upload[u].seq /\ upload[u].pc # "idle"
             /\ upload[u].pc = "reserved" \/ upload'[u].pc \notin {"reserved", "stored"}
             /\ chunk' = chunk
      BY <1>6, <1>i, <2>3 DEF Writes
  <2>4. CASE /\ upload'[u].seq = upload[u].seq /\ upload[u].pc # "idle"
             /\ upload'[u].pc = "removing"
             /\ chunk' = [chunk EXCEPT ![upload[u].seq].row = "committed"]
    <3>1. chunk'[upload'[u].seq] = [chunk[upload'[u].seq] EXCEPT !.row = "committed"]
        BY <1>t, <2>s, <2>4 DEF Typed
    <3>2. chunk[upload'[u].seq] \in Chunk
        BY <1>t, <2>s DEF Typed
    <3>3. ~chunk[upload'[u].seq].settled
        BY <1>6, <1>i, <2>4 DEF Writes
    <3>. QED BY <2>4, <3>1, <3>2, <3>3 DEF Chunk
  <2>. QED BY <1>u, <2>1, <2>2, <2>3, <2>4 DEF UploadMoves

(* Scrubs and analyses. *)
<1>16. ASSUME NEW w \in Scrubbers PROVE Scrubs(w)'
  <2> SUFFICES ASSUME NEW q \in Seqs, q = scrub'[w].seq, scrub'[w].pc # "idle", Exists'
               PROVE  /\ chunk'[q].settled
                      /\ scrub'[w].pc = "mark" =>
                           object'[q] = "clean" \/ (session'.tomb /\ object'[q] = "none")
    <3>1. scrub'[w].pc # "idle" => scrub'[w].seq \in Seqs
        BY <1>b DEF Scrub, NoScrub
    <3>. QED BY <3>1 DEF Scrubs, Redacted
  <2>1. chunk[q].settled
      BY <1>b, <1>7, <1>i DEF ScrubMoves, Scrubs
  <2>2. chunk'[q].settled
      BY <1>11, <2>1
  <2>3. ASSUME scrub'[w].pc = "mark"
        PROVE  object'[q] = "clean" \/ (session'.tomb /\ object'[q] = "none")
    <3>1. CASE scrub'[w] = scrub[w]
      <4>1. Redacted(q)
          BY <1>7, <1>i, <2>3, <3>1 DEF Scrubs
      <4>. QED BY <1>12, <2>1, <4>1 DEF Redacted
    <3>. QED BY <1>b, <2>3, <3>1 DEF ScrubMoves
  <2>. QED BY <2>2, <2>3
<1>17. Covers'
    BY <1>a, <1>i DEF AnalysisMoves, Covers
<1>18. LateChunksAnalyzed'
    BY <1>a, <1>i, <1>1 DEF AnalysisMoves, Covers, LateChunksAnalyzed

(* The counter. *)
<1>19. CountIsCommitted' /\ session'.count \in 0..Cardinality(Seqs)
  <2>1. IsFiniteSet(Committed) /\ IsFiniteSet(Committed')
      BY RecordingConstants, FS_Subset DEF Committed
  <2>2. session.count = Cardinality(Committed)
      BY <1>i DEF CountIsCommitted, Committed
  <2>3. session'.count = Cardinality(Committed')
      BY <1>n, <2>1, <2>2, FS_AddElement, FS_EmptySet DEF CountMoves
  <2>4. Cardinality(Committed') <= Cardinality(Seqs) /\ Cardinality(Committed') \in Nat
        /\ Cardinality(Seqs) \in Nat
      BY RecordingConstants, FS_Subset, FS_CardinalityType DEF Committed
  <2>. QED BY <2>3, <2>4 DEF CountIsCommitted, Committed
<1>20. RecordingTypeOK'
    BY <1>s, <1>c, <1>o, <1>u, <1>b, <1>a, <1>19 DEF RecordingTypeOK, SessionMoves, Session, Chunk,
       Upload, Scrub, Analysis
<1>. QED BY <1>2, <1>5, <1>10, <1>13, <1>14, <1>15, <1>16, <1>17, <1>18, <1>19, <1>20
        DEF RecordingInv, RecordingAgrees, Tombs

LEMMA InitHasInv == RecordingInit => RecordingInv
<1> SUFFICES ASSUME RecordingInit PROVE RecordingInv
    OBVIOUS
<1>1. RecordingTypeOK
  <2>1. Cardinality(Seqs) \in Nat
      BY FS_CardinalityType, RecordingConstants
  <2>. QED BY <2>1, RecordingConstants DEF RecordingInit, RecordingTypeOK, NoChunk, NoUpload,
          NoScrub, NoJob, Contents, Bodies
<1>2. CountIsCommitted
  <2>1. {q \in Seqs : chunk[q].row = "committed"} = {}
      BY DEF RecordingInit, NoChunk
  <2>. QED BY <2>1, FS_EmptySet DEF CountIsCommitted, RecordingInit
<1>3. /\ ReadableIsRedacted /\ OneWriter /\ TombstoneHolds /\ LateChunksAnalyzed
      /\ RowsGo /\ Tombs /\ Covers
    BY DEF RecordingInit, ReadableIsRedacted, OneWriter, TombstoneHolds, LateChunksAnalyzed, RowsGo,
       Tombs, Covers, NoChunk, NoUpload, NoScrub, NoJob, Readable
<1>4. /\ \A q \in Seqs : Settled(q)
      /\ \A u \in Uploaders : Writes(u)
      /\ \A w \in Scrubbers : Scrubs(w)
    BY DEF RecordingInit, Settled, Writes, Scrubs, NoChunk, NoUpload, NoScrub
<1>. QED BY <1>1, <1>2, <1>3, <1>4 DEF RecordingInv, RecordingAgrees

\* Whatever the chunks, the requests and the scrubbers at once: what may be read is redacted,
\* a key has one writer, the counter is the number of committed chunks, a deleted session does
\* not record again, and no chunk that was readable is left out of the analysis unnoticed.
THEOREM RecordingAgreesHolds == RecordingSpec => []RecordingAgrees
<1>1. RecordingSpec => []RecordingInv
    BY InitHasInv, StepKeepsInv, PTL DEF RecordingSpec
<1>2. RecordingInv => RecordingAgrees
    BY DEF RecordingInv
<1>. QED BY <1>1, <1>2, PTL

-----------------------------------------------------------------------------
(***************************************************************************)
(* What a session's narrative promises, for any set of workers and any      *)
(* limit of attempts.                                                       *)
(*                                                                          *)
(* A claim is not fenced by the job's lease, so any number of executions    *)
(* may hold one stage at once; what keeps them apart is the row.  The       *)
(* strengthening says what an execution may still write (Answers), that the *)
(* check of a narrative begins when its writing has ended well (Unchecked), *)
(* and that a unit of budget is taken with the stamp that forbids the next  *)
(* (Charged).                                                               *)
(***************************************************************************)

\* The budget's stamp and the unit it stands for are written together.
Charged == \A k \in Stages : paid[k] = IF k \in row.stamped THEN 1 ELSE 0

\* Only a narrative that was written well has a check.
Unchecked == row.status # "ok" => row.check = "none"

\* What an execution that is about to end its stage brings is an end of that stage.
Answers(w) ==
  run[w].pc = "finish" =>
    IF run[w].stage = "narrate" THEN run[w].result \in Ends \union {"ok", "quiet"}
                                ELSE run[w].result \in Grades

NarrativeInv ==
  /\ NarrativeAgrees
  /\ Charged
  /\ Unchecked
  /\ \A w \in Narrators : Answers(w)

\* What a step may do to the row and to the count of emissions.
RowMoves ==
  /\ row' \in Row
  /\ Unchecked'
  /\ row.status \in Ends \union {"ok"} => row'.status = row.status
  /\ row.status = "ok" /\ row.check \notin Open => row'.check = row.check
  /\ emitted' \in Nat
  /\ EmittedOnce'

\* Every step that writes the row finds it in a state that allows the write.
LEMMA RowSteps == NarrativeInv /\ [NarrativeNext]_narrativeVars => RowMoves
<1> SUFFICES ASSUME NarrativeInv, [NarrativeNext]_narrativeVars PROVE RowMoves
    OBVIOUS
<1> USE DEF NarrativeInv, NarrativeAgrees, NarrativeTypeOK
<1>0. row.status \in {"none", "pending", "narrating", "ok"} \union Ends
      /\ row.check \in {"none"} \union Open \union Grades
    BY DEF Row
<1>1. CASE UNCHANGED <<row, emitted>>
    BY <1>1 DEF RowMoves, EmittedOnce, Unchecked
<1>3. CASE ReserveNarrative
  <2>1. row.status = "none" /\ row' = [row EXCEPT !.status = "pending"] /\ emitted' = emitted
      BY <1>3 DEF ReserveNarrative
  <2>2. row' \in Row /\ row'.status = "pending" /\ row'.check = row.check
      BY <2>1 DEF Row
  <2>. QED BY <1>0, <2>1, <2>2 DEF Unchecked, EmittedOnce, Ends, RowMoves
<1>4. ASSUME NEW w \in Narrators, ClaimPendingNarrative(w) PROVE RowMoves
  <2>1. CASE keyed /\ row.status = "pending"
    <3>1. row' = [row EXCEPT !.status = "narrating", !.stale = FALSE] /\ emitted' = emitted
        BY <1>4, <2>1 DEF ClaimPendingNarrative
    <3>2. row' \in Row /\ row'.status = "narrating" /\ row'.check = row.check
        BY <3>1 DEF Row
    <3>. QED BY <1>0, <2>1, <3>1, <3>2 DEF Unchecked, EmittedOnce, Ends, RowMoves
  <2>2. CASE ~(keyed /\ row.status = "pending")
      BY <1>1, <1>4, <2>2 DEF ClaimPendingNarrative
  <2>. QED BY <2>1, <2>2
<1>5. ASSUME NEW w \in Narrators, ClaimVerifyingNarrative(w) PROVE RowMoves
  <2>1. CASE row.status = "ok" /\ row.check = "pending"
    <3>1. row' = [row EXCEPT !.check = "verifying", !.stale = FALSE] /\ emitted' = emitted
        BY <1>5, <2>1 DEF ClaimVerifyingNarrative
    <3>2. row' \in Row /\ row'.status = "ok" /\ row'.check = "verifying"
        BY <2>1, <3>1 DEF Row, Open
    <3>. QED BY <1>0, <2>1, <3>1, <3>2 DEF EmittedOnce, Open, RowMoves, Unchecked
  <2>2. CASE ~(row.status = "ok" /\ row.check = "pending")
      BY <1>1, <1>5, <2>2 DEF ClaimVerifyingNarrative
  <2>. QED BY <2>1, <2>2
<1>6. ASSUME NEW w \in Narrators, ReserveNarrativeBudget(w) PROVE RowMoves
  <2>1. CASE UNCHANGED row
      BY <1>1, <1>6, <2>1 DEF ReserveNarrativeBudget
  <2>2. CASE ~UNCHANGED row
    <3>1. row' = [row EXCEPT !.stamped = @ \union {run[w].stage}, !.stale = FALSE]
          /\ emitted' = emitted /\ run[w].pc = "reserve"
        BY <1>6, <2>2 DEF ReserveNarrativeBudget
    <3>2. run[w].stage \in Stages
        BY <3>1 DEF Run, NoRun
    <3>3. row' \in Row /\ row'.status = row.status /\ row'.check = row.check
        BY <3>1, <3>2 DEF Row
    <3>. QED BY <1>0, <3>1, <3>3 DEF Unchecked, EmittedOnce, RowMoves
  <2>. QED BY <2>1, <2>2
<1>7. ASSUME NEW w \in Narrators, FinishNarrative(w) PROVE RowMoves
  <2> DEFINE res == run[w].result
  <2>1. CASE ~MayFinish(w)
      BY <1>1, <1>7, <2>1 DEF FinishNarrative
  <2>2. CASE MayFinish(w)
    <3>1. /\ row' = [row EXCEPT !.status = IF res = "quiet" THEN "ok" ELSE res,
                                !.check = IF res = "ok" THEN "pending" ELSE @,
                                !.stale = FALSE]
          /\ emitted' = IF res = "quiet" THEN emitted + 1 ELSE emitted
          /\ res \in Ends \union {"ok", "quiet"} /\ row.status = "narrating"
        BY <1>7, <2>2 DEF FinishNarrative, MayFinish, Answers
    <3>2. row.check = "none" /\ emitted = 0
        BY <3>1 DEF Unchecked, EmittedOnce
    <3> HIDE DEF res
    <3>3. CASE res = "quiet"
      <4>1. row' = [row EXCEPT !.status = "ok", !.check = "none", !.stale = FALSE] /\ emitted' = 1
          BY <3>1, <3>2, <3>3
      <4>2. row' \in Row /\ row'.status = "ok" /\ row'.check = "none"
          BY <4>1 DEF Row
      <4>. QED BY <1>0, <3>1, <4>1, <4>2 DEF Open, Ends, RowMoves, Unchecked, EmittedOnce
    <3>4. CASE res = "ok"
      <4>1. row' = [row EXCEPT !.status = "ok", !.check = "pending", !.stale = FALSE] /\ emitted' = 0
          BY <3>1, <3>2, <3>4
      <4>2. row' \in Row /\ row'.status = "ok" /\ row'.check = "pending"
          BY <4>1 DEF Row, Open
      <4>. QED BY <1>0, <3>1, <4>1, <4>2 DEF Open, Ends, RowMoves, Unchecked, EmittedOnce
    <3>5. CASE res \in Ends
      <4>1. row' = [row EXCEPT !.status = res, !.check = "none", !.stale = FALSE] /\ emitted' = 0
          BY <3>1, <3>2, <3>5 DEF Ends
      <4>2. row' \in Row /\ row'.status = res /\ row'.check = "none"
          BY <3>5, <4>1 DEF Row
      <4>. QED BY <1>0, <3>1, <3>5, <4>1, <4>2 DEF Ends, RowMoves, Unchecked, EmittedOnce
    <3>. QED BY <3>1, <3>3, <3>4, <3>5
  <2>. QED BY <2>1, <2>2
<1>8. ASSUME NEW w \in Narrators, FinalizeVerification(w) PROVE RowMoves
  <2>1. CASE ~(CheckOpen /\ Leased(w))
      BY <1>1, <1>8, <2>1 DEF FinalizeVerification
  <2>2. CASE CheckOpen /\ Leased(w)
    <3>1. /\ row' = [row EXCEPT !.check = run[w].result, !.stale = FALSE]
          /\ emitted' = emitted + 1
          /\ run[w].result \in Grades
          /\ row.status = "ok" /\ row.check \in Open
        BY <1>8, <2>2 DEF FinalizeVerification, CheckOpen, Answers
    <3>2. row' \in Row /\ row'.status = "ok" /\ row'.check = run[w].result
        BY <3>1 DEF Row
    <3>3. emitted' = 1
        BY <3>1 DEF EmittedOnce
    <3>. QED BY <1>0, <3>1, <3>2, <3>3 DEF Open, Grades, RowMoves, Unchecked, EmittedOnce
  <2>. QED BY <2>1, <2>2
<1>9. CASE FinalizeExpired
  <2>1. CASE ~CheckOpen
      BY <1>1, <1>9, <2>1 DEF FinalizeExpired
  <2>2. CASE CheckOpen
    <3>1. /\ row' = [row EXCEPT !.check = "failed", !.stale = FALSE]
          /\ emitted' = emitted + 1
          /\ row.status = "ok" /\ row.check \in Open
        BY <1>9, <2>2 DEF FinalizeExpired, CheckOpen
    <3>2. row' \in Row /\ row'.status = "ok" /\ row'.check = "failed"
        BY <3>1 DEF Row, Grades
    <3>3. emitted' = 1
        BY <3>1 DEF EmittedOnce
    <3>. QED BY <1>0, <3>1, <3>2, <3>3 DEF Open, RowMoves, Unchecked, EmittedOnce
  <2>. QED BY <2>1, <2>2
<1>10. CASE SweepNarratives
  <2>0. emitted' = emitted
      BY <1>10 DEF SweepNarratives
  <2>1. CASE row' = row
      BY <1>1, <2>0, <2>1
  <2>2. CASE row' = [row EXCEPT !.status = "failed", !.stale = FALSE]
             /\ row.status \in {"pending", "narrating"}
    <3>1. row' \in Row /\ row'.status = "failed" /\ row'.check = row.check
        BY <2>2 DEF Row, Ends
    <3>. QED BY <1>0, <2>0, <2>2, <3>1 DEF Unchecked, EmittedOnce, Ends, RowMoves
  <2>3. CASE row' = [row EXCEPT !.status = "pending", !.stale = FALSE]
             /\ row.status = "narrating"
    <3>1. row' \in Row /\ row'.status = "pending" /\ row'.check = row.check
        BY <2>3 DEF Row
    <3>. QED BY <1>0, <2>0, <2>3, <3>1 DEF Unchecked, EmittedOnce, Ends, RowMoves
  <2>4. CASE row' = [row EXCEPT !.check = "pending"] /\ row.status = "ok" /\ row.check = "verifying"
    <3>1. row' \in Row /\ row'.status = "ok" /\ row'.check = "pending"
        BY <2>4 DEF Row, Open
    <3>. QED BY <1>0, <2>0, <2>4, <3>1 DEF EmittedOnce, Open, RowMoves, Unchecked
  <2>. QED BY <1>10, <2>1, <2>2, <2>3, <2>4 DEF SweepNarratives, SweptCheck, SweptNarration
<1>11. CASE TurnsStale \/ TurnsOld
  <2>1. emitted' = emitted /\ (row' = [row EXCEPT !.stale = TRUE] \/ row' = [row EXCEPT !.old = TRUE])
      BY <1>11 DEF TurnsStale, TurnsOld
  <2>2. row' \in Row /\ row'.status = row.status /\ row'.check = row.check
      BY <2>1 DEF Row
  <2>. QED BY <1>0, <2>1, <2>2 DEF Unchecked, EmittedOnce, RowMoves
<1>12. CASE SelectExpired \/ KeySet \/ \E k \in Stages : LeaseLapses(k)
    BY <1>1, <1>12 DEF SelectExpired, KeySet, LeaseLapses
<1>13. ASSUME NEW w \in Narrators,
              \/ CallModel(w) \/ EnqueueVerification(w) \/ RunEnds(w) \/ WorkerStops(w)
              \/ \E k \in Stages : ClaimTask(w, k)
       PROVE  RowMoves
    BY <1>1, <1>13 DEF CallModel, EnqueueVerification, RunEnds, WorkerStops, ClaimTask
<1>. QED
    BY <1>1, <1>3, <1>4, <1>5, <1>6, <1>7, <1>8, <1>9, <1>10, <1>11, <1>12, <1>13
       DEF NarrativeNext, RunSteps, narrativeVars

\* The rest of the state: types, what is paid, and what an execution may end with.
Around ==
  /\ queue' \in [Stages -> Task] /\ run' \in [Narrators -> Run]
  /\ selected' \in BOOLEAN /\ keyed' \in BOOLEAN
  /\ paid' \in [Stages -> Nat]
  /\ Charged'
  /\ \A w \in Narrators : Answers(w)'

\* A job charged or queued is a job.
LEMMA TaskKept ==
  ASSUME NarrativeTypeOK, NEW k \in Stages
  PROVE  Retried(k) \in [Stages -> Task] /\ QueuedOnce(k) \in [Stages -> Task]
<1>1. NoTask \in Task
    BY NarrativeConstants DEF Task, NoTask
<1>2. ASSUME NEW j \in Task PROVE Queued(j) \in Task
    BY DEF Task, Queued
<1>3. QueuedOnce(k) \in [Stages -> Task]
    BY <1>1, <1>2 DEF NarrativeTypeOK, QueuedOnce
<1>4. CASE queue[k].tries + 1 < MaxTries
  <2> DEFINE j == [queue[k] EXCEPT !.tries = queue[k].tries + 1]
  <2>1. j \in Task
    <3>1. queue[k] \in Task /\ queue[k].tries + 1 \in 0..MaxTries - 1
        BY <1>4, NarrativeConstants DEF NarrativeTypeOK, Task
    <3>. QED BY <3>1 DEF Task
  <2>2. Retried(k) = [queue EXCEPT ![k] = Queued(j)]
      BY <1>4 DEF Retried
  <2> HIDE DEF j
  <2>3. Queued(j) \in Task
      BY <1>2, <2>1
  <2>. QED BY <1>3, <2>2, <2>3 DEF NarrativeTypeOK
<1>5. CASE ~(queue[k].tries + 1 < MaxTries)
    BY <1>1, <1>3, <1>5 DEF Retried, NarrativeTypeOK
<1>. QED BY <1>3, <1>4, <1>5

\* An execution that ends its stage only with an end of that stage keeps Answers.
LEMMA RunKept ==
  ASSUME NarrativeInv, NEW w \in Narrators, NEW r \in Run,
         run' = [run EXCEPT ![w] = r],
         r.pc = "finish" =>
           IF r.stage = "narrate" THEN r.result \in Ends \union {"ok", "quiet"}
                                  ELSE r.result \in Grades
  PROVE  run' \in [Narrators -> Run] /\ \A v \in Narrators : Answers(v)'
BY DEF NarrativeInv, NarrativeAgrees, NarrativeTypeOK, Answers

\* The two ways an execution goes on.
LEMMA Goings ==
  ASSUME NarrativeInv, NEW w \in Narrators, run[w].pc # "idle"
  PROVE  /\ run[w].stage \in Stages
         /\ \A pc \in {"claim", "reserve", "call", "enqueue", "complete", "fail"} :
              Goes(w, pc) => run' \in [Narrators -> Run] /\ \A v \in Narrators : Answers(v)'
         /\ \A res \in {"none", "ok", "quiet"} \union Ends \union Grades :
              /\ Finishes(w, res)
              /\ IF run[w].stage = "narrate" THEN res \in Ends \union {"ok", "quiet"} ELSE res \in Grades
              => run' \in [Narrators -> Run] /\ \A v \in Narrators : Answers(v)'
<1> USE DEF NarrativeInv, NarrativeAgrees, NarrativeTypeOK
<1>1. run[w] \in Run /\ run[w] # NoRun /\ run[w].stage \in Stages
    BY DEF Run, NoRun
<1>2. ASSUME NEW pc \in {"claim", "reserve", "call", "enqueue", "complete", "fail"}, Goes(w, pc)
      PROVE  run' \in [Narrators -> Run] /\ \A v \in Narrators : Answers(v)'
  <2> DEFINE r == [run[w] EXCEPT !.pc = pc]
  <2>1. r \in Run /\ r.pc # "finish"
      BY <1>1 DEF Run
  <2>2. run' = [run EXCEPT ![w] = r]
      BY <1>2 DEF Goes
  <2> HIDE DEF r
  <2>. QED BY <2>1, <2>2, RunKept
<1>3. ASSUME NEW res \in {"none", "ok", "quiet"} \union Ends \union Grades, Finishes(w, res),
             IF run[w].stage = "narrate" THEN res \in Ends \union {"ok", "quiet"} ELSE res \in Grades
      PROVE  run' \in [Narrators -> Run] /\ \A v \in Narrators : Answers(v)'
  <2> DEFINE r == [run[w] EXCEPT !.pc = "finish", !.result = res]
  <2>1. r \in Run /\ r.stage = run[w].stage /\ r.result = res
      BY <1>1 DEF Run
  <2>2. run' = [run EXCEPT ![w] = r]
      BY <1>3 DEF Finishes
  <2> HIDE DEF r
  <2>. QED BY <1>3, <2>1, <2>2, RunKept
<1>. QED BY <1>1, <1>2, <1>3

\* Every step keeps the rest of the state.
LEMMA StateSteps == NarrativeInv /\ [NarrativeNext]_narrativeVars => Around
<1> SUFFICES ASSUME NarrativeInv, [NarrativeNext]_narrativeVars PROVE Around
    OBVIOUS
<1> USE DEF NarrativeInv, NarrativeAgrees, NarrativeTypeOK
<1>1. CASE UNCHANGED <<run, selected, keyed, paid, row>> /\ queue' \in [Stages -> Task]
    BY <1>1 DEF Around, Charged, Answers
<1>2. UNCHANGED <<paid>> /\ row'.stamped = row.stamped => Charged' /\ paid' \in [Stages -> Nat]
    BY DEF Charged
<1>3. CASE UNCHANGED narrativeVars
    BY <1>1, <1>3 DEF narrativeVars
<1>4. CASE ReserveNarrative
  <2>1. queue' \in [Stages -> Task] /\ row'.stamped = row.stamped
        /\ UNCHANGED <<run, selected, keyed, paid>>
      BY <1>4, TaskKept DEF ReserveNarrative, Stages, Row
  <2>. QED BY <1>2, <2>1 DEF Around, Answers
<1>5. CASE SelectExpired \/ FinalizeExpired \/ TurnsStale \/ TurnsOld \/ KeySet
  <2>1. UNCHANGED <<queue, run, paid>> /\ selected' \in BOOLEAN /\ keyed' \in BOOLEAN
      BY <1>5 DEF SelectExpired, FinalizeExpired, TurnsStale, TurnsOld, KeySet
  <2>2. row'.stamped = row.stamped
      BY <1>5 DEF SelectExpired, FinalizeExpired, TurnsStale, TurnsOld, KeySet, Row
  <2>. QED BY <1>2, <2>1, <2>2 DEF Around, Answers
<1>6. CASE SweepNarratives
  <2>1. UNCHANGED <<run, selected, keyed, paid>> /\ row'.stamped = row.stamped
      BY <1>6 DEF SweepNarratives, SweptCheck, SweptNarration, Row
  <2>2. queue' \in [Stages -> Task]
      BY <1>6, TaskKept DEF SweepNarratives, Stages
  <2>. QED BY <1>2, <2>1, <2>2 DEF Around, Answers
<1>7. ASSUME NEW k \in Stages, LeaseLapses(k) PROVE Around
    BY <1>1, <1>7, TaskKept DEF LeaseLapses
<1>8. ASSUME NEW w \in Narrators, NEW k \in Stages, ClaimTask(w, k) PROVE Around
  <2> DEFINE r == [stage |-> k, result |-> "none", pc |-> "claim"]
             t == [queue[k] EXCEPT !.status = "claimed", !.holder = w]
  <2>1. r \in Run /\ r.pc # "finish"
      BY DEF Run
  <2>2. t \in Task
      BY DEF Task
  <2>3. queue' = [queue EXCEPT ![k] = t] /\ run' = [run EXCEPT ![w] = r]
        /\ UNCHANGED <<row, selected, keyed, paid>>
      BY <1>8 DEF ClaimTask
  <2> HIDE DEF r, t
  <2>4. queue' \in [Stages -> Task]
      BY <2>2, <2>3
  <2>5. run' \in [Narrators -> Run] /\ \A v \in Narrators : Answers(v)'
      BY <2>1, <2>3, RunKept
  <2>. QED BY <1>2, <2>3, <2>4, <2>5 DEF Around
<1>9. ASSUME NEW w \in Narrators, RunEnds(w) \/ WorkerStops(w) PROVE Around
  <2>1. NoRun \in Run /\ NoRun.pc # "finish"
      BY DEF Run, NoRun
  <2>2. run' = [run EXCEPT ![w] = NoRun] /\ UNCHANGED <<row, selected, keyed, paid>>
      BY <1>9 DEF RunEnds, WorkerStops
  <2>3. run' \in [Narrators -> Run] /\ \A v \in Narrators : Answers(v)'
      BY <2>1, <2>2, RunKept
  <2>4. NoTask \in Task
      BY NarrativeConstants DEF NoTask, Task
  <2>5. ASSUME RunEnds(w) PROVE queue' \in [Stages -> Task]
    <3>1. run[w].stage \in Stages
        BY <2>5 DEF RunEnds, Run, NoRun
    <3>. QED BY <2>4, <2>5, <3>1, TaskKept DEF RunEnds
  <2>6. queue' \in [Stages -> Task]
      BY <1>9, <2>5 DEF WorkerStops
  <2>. QED BY <1>2, <2>2, <2>3, <2>6 DEF Around
<1>10. ASSUME NEW w \in Narrators, ClaimPendingNarrative(w) \/ ClaimVerifyingNarrative(w)
       PROVE  Around
  <2>1. run[w].pc = "claim" /\ UNCHANGED <<queue, paid, selected, keyed>>
      BY <1>10 DEF ClaimPendingNarrative, ClaimVerifyingNarrative, RunOnly
  <2>2. row'.stamped = row.stamped
      BY <1>10 DEF ClaimPendingNarrative, ClaimVerifyingNarrative, Row
  <2>3. \/ Goes(w, "reserve") \/ Goes(w, "complete")
        \/ Finishes(w, "unsupported") /\ run[w].stage = "verify"
      BY <1>10 DEF ClaimPendingNarrative, ClaimVerifyingNarrative
  <2>4. run' \in [Narrators -> Run] /\ \A v \in Narrators : Answers(v)'
      BY <2>1, <2>3, Goings DEF Grades
  <2>. QED BY <1>2, <2>1, <2>2, <2>4 DEF Around
<1>11. ASSUME NEW w \in Narrators, ReserveNarrativeBudget(w) PROVE Around
  <2> DEFINE k == run[w].stage
  <2>1. run[w].pc = "reserve" /\ UNCHANGED <<queue, selected, keyed>>
      BY <1>11 DEF ReserveNarrativeBudget, RunOnly
  <2>2. k \in Stages
      BY <2>1, Goings
  <2>3. \/ Goes(w, "call")
        \/ Finishes(w, "skipped_budget")
        \/ Finishes(w, "skipped_cap") /\ k = "narrate"
      BY <1>11, <2>2 DEF ReserveNarrativeBudget
  <2>4. run' \in [Narrators -> Run] /\ \A v \in Narrators : Answers(v)'
      BY <2>1, <2>3, Goings DEF Grades, Ends
  <2>5. CASE UNCHANGED <<row, paid>>
      BY <1>2, <2>1, <2>4, <2>5 DEF Around
  <2>6. CASE ~UNCHANGED <<row, paid>>
    <3>1. /\ ~(k \in row.stamped)
          /\ paid' = [paid EXCEPT ![k] = @ + 1]
          /\ row'.stamped = row.stamped \union {k}
        BY <1>11, <2>6 DEF ReserveNarrativeBudget, Stamped, Row
    <3> HIDE DEF k
    <3>2. Charged' /\ paid' \in [Stages -> Nat]
        BY <2>2, <3>1 DEF Charged
    <3>. QED BY <2>1, <2>4, <3>2 DEF Around
  <2>. QED BY <2>5, <2>6
<1>12. ASSUME NEW w \in Narrators, CallModel(w) PROVE Around
  <2>1. run[w].pc = "call" /\ UNCHANGED <<row, queue, paid, selected, keyed>>
      BY <1>12 DEF CallModel, RunOnly
  <2>2. \/ Goes(w, "fail")
        \/ \E res \in Narrations : Finishes(w, res) /\ run[w].stage = "narrate"
        \/ \E res \in Verifications : Finishes(w, res) /\ run[w].stage = "verify"
      BY <1>12 DEF CallModel
  <2>3. run' \in [Narrators -> Run] /\ \A v \in Narrators : Answers(v)'
      BY <2>1, <2>2, Goings DEF Narrations, Verifications, Grades, Ends
  <2>. QED BY <1>2, <2>1, <2>3 DEF Around
<1>13. ASSUME NEW w \in Narrators,
              FinishNarrative(w) \/ FinalizeVerification(w) \/ EnqueueVerification(w)
       PROVE  Around
  <2>1. run[w].pc \in {"finish", "enqueue"} /\ UNCHANGED <<paid, selected, keyed>>
      BY <1>13 DEF FinishNarrative, FinalizeVerification, EnqueueVerification, RunOnly
  <2>2. Goes(w, "enqueue") \/ Goes(w, "complete") \/ Goes(w, "fail")
      BY <1>13 DEF FinishNarrative, FinalizeVerification, EnqueueVerification
  <2>3. run' \in [Narrators -> Run] /\ \A v \in Narrators : Answers(v)'
      BY <2>1, <2>2, Goings
  <2>4. row'.stamped = row.stamped
      BY <1>13 DEF FinishNarrative, FinalizeVerification, EnqueueVerification, Row
  <2>5. queue' \in [Stages -> Task]
      BY <1>13, TaskKept DEF FinishNarrative, FinalizeVerification, EnqueueVerification, Stages
  <2>. QED BY <1>2, <2>1, <2>3, <2>4, <2>5 DEF Around
<1>. QED
    BY <1>3, <1>4, <1>5, <1>6, <1>7, <1>8, <1>9, <1>10, <1>11, <1>12, <1>13
       DEF NarrativeNext, RunSteps

\* The invariant is inductive.
LEMMA NarrativeInvHolds == NarrativeSpec => []NarrativeInv
<1>1. NarrativeInit => NarrativeInv
  <2> SUFFICES ASSUME NarrativeInit PROVE NarrativeInv
      OBVIOUS
  <2>1. row \in Row /\ row.status = "none" /\ row.check = "none" /\ row.stamped = {}
      BY DEF NarrativeInit, Row
  <2>2. queue \in [Stages -> Task]
      BY NarrativeConstants DEF NarrativeInit, Task, NoTask
  <2>3. run \in [Narrators -> Run] /\ \A w \in Narrators : run[w].pc = "idle"
      BY DEF NarrativeInit, Run, NoRun
  <2>4. paid = [k \in Stages |-> 0] /\ emitted = 0 /\ selected \in BOOLEAN /\ keyed \in BOOLEAN
      BY DEF NarrativeInit
  <2>. QED BY <2>1, <2>2, <2>3, <2>4
          DEF NarrativeInv, NarrativeAgrees, NarrativeTypeOK, EmittedOnce, PaidOnce, Charged,
              Unchecked, Answers
<1>2. NarrativeInv /\ [NarrativeNext]_narrativeVars => NarrativeInv'
  <2> SUFFICES ASSUME NarrativeInv, RowMoves, Around PROVE NarrativeInv'
      BY RowSteps, StateSteps
  <2>1. PaidOnce'
      BY DEF Around, Charged, PaidOnce
  <2>. QED BY <2>1 DEF NarrativeInv, NarrativeAgrees, NarrativeTypeOK, RowMoves, Around
<1>. QED BY <1>1, <1>2, PTL DEF NarrativeSpec

\* Claims that outlive their leases, retries and the sweep neither emit a session's
\* observations twice, nor pay a stage twice (db.ts: finishNarrative,
\* finalizeVerification, reserveNarrativeBudget, sweepNarratives).
THEOREM NarrativeAgreesHolds == NarrativeSpec => []NarrativeAgrees
<1>1. NarrativeInv => NarrativeAgrees
    BY DEF NarrativeInv
<1>. QED BY <1>1, NarrativeInvHolds, PTL

\* No execution and no sweep writes over what a narrative, or its check, came to
\* (the status guards of finishNarrative and finalizeVerification).
THEOREM NarrativeIsFinalHolds == NarrativeSpec => NarrativeIsFinal
<1>1. NarrativeInv /\ [NarrativeNext]_narrativeVars =>
        [/\ row.status \in Ends \union {"ok"} => row'.status = row.status
         /\ row.status = "ok" /\ row.check \notin Open => row'.check = row.check]_narrativeVars
    BY RowSteps DEF RowMoves
<1>. QED BY <1>1, NarrativeInvHolds, PTL DEF NarrativeSpec, NarrativeIsFinal
=============================================================================
