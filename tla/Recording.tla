------------------------------- MODULE Recording -------------------------------
(***************************************************************************)
(* A recorded session on the server: ingestion registers it, takes its     *)
(* chunks (handler/session.go, db/sessions.go), scrubs them                 *)
(* (scrubber/scrubber.go), has the worker analyse it (index.ts) and erases  *)
(* it (retention/retention.go).                                             *)
(*                                                                          *)
(* A chunk is a row and an object under a key that its session and its      *)
(* number determine, so every request for the same number writes the same   *)
(* key.  Object storage is external: a write that its caller gave up on     *)
(* may have landed, may still land, or is lost.                             *)
(*                                                                          *)
(* One session is modelled, as no two share a row or a key.  Time appears   *)
(* as the steps it enables: the 30 seconds before a chunk is scrubbed, the  *)
(* two minutes of a scrub claim, the minute before a purge, retention.      *)
(***************************************************************************)
EXTENDS Naturals, FiniteSets

CONSTANTS
  Seqs,            \* chunk numbers
  Uploaders,       \* upload requests in flight at once
  Scrubbers,       \* scrubber loops, one per ingestion replica
  MaxScrubs,       \* maxScrubAttempts
  MaxAnalyses      \* max_attempts of a session_analysis job

\* A chunk's number is a 32-bit column.
ASSUME RecordingConstants ==
  IsFiniteSet(Seqs) /\ MaxScrubs \in Nat \ {0} /\ MaxAnalyses \in Nat \ {0}

VARIABLES
  session,   \* the sessions row: status, tomb (its tombstone), due (retention),
             \* purge (deletion_started_at is a minute old), count (chunk_count)
  chunk,     \* the session_chunks rows
  object,    \* what storage holds under each chunk's key
  late,      \* abandoned writes that may still land
  upload,    \* ChunkUpload requests
  scrub,     \* scrubOne calls
  sweeper,   \* "removed" between RemovePrefix and DeleteMarkedSession
  job,       \* the session_analysis job: status, attempts, the chunks read, and
             \* those read by executions that outlived their lease
  analyzed,  \* chunks the stored analysis was computed from
  missed     \* chunks made readable after a running analysis had read, or lost
             \* when an execution without a lease stored what it had read

recordingVars == <<session, chunk, object, late, upload, scrub, sweeper, job,
                   analyzed, missed>>

Bodies   == {"raw", "bad"}          \* bad: will not inflate, or is not JSON
Contents == Bodies \union {"clean"}

NoChunk == [row |-> "none", settled |-> FALSE, claim |-> "none",
            attempts |-> 0, readable |-> FALSE]
NoUpload == [pc |-> "idle"]
NoScrub  == [pc |-> "idle"]
NoJob    == [status |-> "none", attempts |-> 0, read |-> {}, zombies |-> {}]

Live == session.status \notin {"none", "deleting", "gone"}
Exists == session.status \notin {"none", "gone"}

RecordingTypeOK ==
  /\ session \in [status : {"none", "recording", "closed", "analyzing",
                            "analyzed", "analysis_failed", "deleting", "gone"},
                  tomb : BOOLEAN, purge : BOOLEAN,
                  due : {"no", "yes", "capped"}, count : 0..Cardinality(Seqs)]
  /\ chunk \in [Seqs -> [row : {"none", "reserved", "committed"},
                         settled : BOOLEAN, claim : {"none", "live", "lapsed"},
                         attempts : 0..MaxScrubs, readable : BOOLEAN]]
  /\ object \in [Seqs -> Contents \union {"none"}]
  /\ late \in [Seqs -> SUBSET Contents]
  /\ upload \in [Uploaders -> {NoUpload} \union
        [pc : {"reserved", "stored", "removing", "releasing"},
         seq : Seqs, body : Bodies]]
  /\ scrub \in [Scrubbers -> {NoScrub} \union
        [pc : {"claimed", "write", "mark", "failed"}, seq : Seqs]]
  /\ sweeper \in {"idle", "removed"}
  /\ job \in [status : {"none", "pending", "claimed", "read"},
              attempts : 0..MaxAnalyses, read : SUBSET Seqs,
              zombies : SUBSET SUBSET Seqs]
  /\ analyzed \subseteq Seqs
  /\ missed \subseteq Seqs

RecordingInit ==
  /\ session = [status |-> "none", tomb |-> FALSE, purge |-> FALSE,
                due |-> "no", count |-> 0]
  /\ chunk = [q \in Seqs |-> NoChunk]
  /\ object = [q \in Seqs |-> "none"]
  /\ late = [q \in Seqs |-> {}]
  /\ upload = [u \in Uploaders |-> NoUpload]
  /\ scrub = [w \in Scrubbers |-> NoScrub]
  /\ sweeper = "idle"
  /\ job = NoJob
  /\ analyzed = {}
  /\ missed = {}

-----------------------------------------------------------------------------
(* Registration and upload.                                                  *)

\* SessionInit with RegisterSession: a known session is left as it is, one with
\* a tombstone is refused.
MayRegister == session.status \in {"none", "gone"} /\ ~session.tomb

SessionInit ==
  /\ MayRegister
  /\ session' = [session EXCEPT !.status = "recording"]
  /\ UNCHANGED <<chunk, object, late, upload, scrub, sweeper, job, analyzed, missed>>

UploadOnly == UNCHANGED <<scrub, sweeper, job, analyzed, missed>>

To(u, pc) == upload' = [upload EXCEPT ![u].pc = pc]
Done(u)   == upload' = [upload EXCEPT ![u] = NoUpload]

\* ChunkUpload up to ReserveChunkSeq: a request refused on the way (recording
\* off, session not live, number taken: the rows' primary key) leaves no trace.
ReserveChunkSeq(u, q, b) ==
  /\ upload[u].pc = "idle"
  /\ Live /\ chunk[q].row = "none"
  /\ chunk' = [chunk EXCEPT ![q].row = "reserved"]
  /\ upload' = [upload EXCEPT ![u] = [pc |-> "reserved", seq |-> q, body |-> b]]
  /\ UNCHANGED <<session, object, late>> /\ UploadOnly

\* ReleaseChunkReservation deletes the row unless it is committed.
Released(q) == IF chunk[q].row = "reserved"
                 THEN [chunk EXCEPT ![q] = NoChunk] ELSE chunk

\* The project is over its byte budget: the reservation is released, if the
\* database answers.
OverBudget(u) ==
  /\ upload[u].pc = "reserved"
  /\ chunk' \in {chunk, Released(upload[u].seq)}
  /\ Done(u)
  /\ UNCHANGED <<session, object, late>> /\ UploadOnly

\* PutObject.  A failed put may have stored the bytes, or may store them later.
PutObject(u) ==
  LET q == upload[u].seq
      b == upload[u].body
  IN
  /\ upload[u].pc = "reserved"
  /\ \/ object' = [object EXCEPT ![q] = b] /\ UNCHANGED late /\ To(u, "stored")
     \/ /\ \/ object' = [object EXCEPT ![q] = b] /\ UNCHANGED late
           \/ late' = [late EXCEPT ![q] = @ \union {b}] /\ UNCHANGED object
        /\ To(u, "removing")
  /\ UNCHANGED <<session, chunk>> /\ UploadOnly

\* CommitChunk and, on an error, the start of the clean-up: the session may be
\* on its way out, or the commit's answer may be lost though it was applied.
\* A row committed already is not counted again.
CommitChunk(u) ==
  LET q == upload[u].seq IN
  /\ upload[u].pc = "stored"
  /\ \/ /\ Live /\ chunk[q].row # "none"
        /\ chunk' = [chunk EXCEPT ![q].row = "committed"]
        /\ session' = [session EXCEPT !.count =
                         IF chunk[q].row = "reserved" THEN @ + 1 ELSE @]
        /\ Done(u) \/ To(u, "removing")
     \/ To(u, "removing") /\ UNCHANGED <<session, chunk>>
  /\ UNCHANGED <<object, late>> /\ UploadOnly

\* Mutant of RemoveThenRelease: the reservation goes first.
ReleaseThenRemove(u) ==
  LET q == upload[u].seq IN
  /\ upload[u].pc = "removing"
  /\ IF chunk[q].row = "reserved"
       THEN chunk' = Released(q) /\ UNCHANGED <<object, upload>>
       ELSE object' = [object EXCEPT ![q] = "none"] /\ Done(u) /\ UNCHANGED chunk
  /\ UNCHANGED <<session, late>> /\ UploadOnly

\* removeObjectAndRelease: the object goes first.  A removal that fails leaves
\* the reservation in place, whatever became of the object.
RemoveThenRelease(u) ==
  LET q == upload[u].seq IN
  /\ upload[u].pc = "removing"
  /\ \/ object' = [object EXCEPT ![q] = "none"] /\ To(u, "releasing")
     \/ object' \in {object, [object EXCEPT ![q] = "none"]} /\ Done(u)
  /\ UNCHANGED <<session, chunk, late>> /\ UploadOnly

ReleaseChunkReservation(u) ==
  /\ upload[u].pc = "releasing"
  /\ chunk' \in {chunk, Released(upload[u].seq)}
  /\ Done(u)
  /\ UNCHANGED <<session, object, late>> /\ UploadOnly

\* The ingestion process dies with the request, perhaps while it was writing.
UploadDies(u) ==
  /\ upload[u].pc # "idle"
  /\ Done(u)
  /\ \/ UNCHANGED late
     \/ /\ upload[u].pc = "reserved"
        /\ late' = [late EXCEPT ![upload[u].seq] = @ \union {upload[u].body}]
  /\ UNCHANGED <<session, chunk, object>> /\ UploadOnly

\* External: an abandoned write lands, or turns out to be lost.
LateWrite(q, b) ==
  /\ b \in late[q]
  /\ late' = [late EXCEPT ![q] = @ \ {b}]
  /\ object' \in {object, [object EXCEPT ![q] = b]}
  /\ UNCHANGED <<session, chunk, upload>> /\ UploadOnly

-----------------------------------------------------------------------------
(* Scrubbing.                                                                *)

ScrubOnly == UNCHANGED <<upload, sweeper, analyzed>>

\* The 30 seconds ClaimUnscrubbedChunks waits after the commit.  Assumed of
\* storage and of the handler: an upload's abandoned write and its clean-up
\* (two calls of at most five seconds) are over by then.
Settles(q) ==
  /\ chunk[q].row = "committed" /\ ~chunk[q].settled
  /\ late[q] \intersect Bodies = {}
  /\ \A u \in Uploaders : upload[u].pc \in {"removing", "releasing"} => upload[u].seq # q
  /\ chunk' = [chunk EXCEPT ![q].settled = TRUE]
  /\ UNCHANGED <<session, object, late, upload, scrub, sweeper, job, analyzed, missed>>

\* Two minutes after a claim another scrubber may claim the chunk again, while
\* the first, busy with the rest of its batch, still means to scrub it.
ClaimLapses(q) ==
  /\ chunk[q].claim = "live"
  /\ chunk' = [chunk EXCEPT ![q].claim = "lapsed"]
  /\ UNCHANGED <<session, object, late, upload, scrub, sweeper, job, analyzed, missed>>

Claimable(q) ==
  /\ chunk[q].row = "committed" /\ ~chunk[q].readable /\ chunk[q].settled
  /\ chunk[q].claim # "live" /\ chunk[q].attempts < MaxScrubs /\ Live

ClaimUnscrubbedChunks(w, q) ==
  /\ scrub[w].pc = "idle"
  /\ Claimable(q)
  /\ chunk' = [chunk EXCEPT ![q].attempts = @ + 1, ![q].claim = "live"]
  /\ scrub' = [scrub EXCEPT ![w] = [pc |-> "claimed", seq |-> q]]
  /\ UNCHANGED <<session, object, late, job, missed>> /\ ScrubOnly

\* Stat, get, inflate, validate: any of the calls may fail, and an object that
\* cannot be scrubbed is removed, the error of that ignored.
Inspect(w) ==
  LET q == scrub[w].seq IN
  /\ scrub[w].pc = "claimed"
  /\ \/ /\ object[q] \in {"raw", "clean"}
        /\ scrub' = [scrub EXCEPT ![w].pc = "write"] /\ UNCHANGED object
     \/ /\ scrub' = [scrub EXCEPT ![w].pc = "failed"]
        /\ \/ UNCHANGED object
           \/ object[q] = "bad" /\ object' = [object EXCEPT ![q] = "none"]
  /\ UNCHANGED <<session, chunk, late, job, missed>> /\ ScrubOnly

\* The redacted bytes replace the raw ones under the same key.
WriteRedacted(w) ==
  LET q == scrub[w].seq IN
  /\ scrub[w].pc = "write"
  /\ \/ /\ object' = [object EXCEPT ![q] = "clean"] /\ UNCHANGED late
        /\ \E pc \in {"mark", "failed"} : scrub' = [scrub EXCEPT ![w].pc = pc]
     \/ /\ late' = [late EXCEPT ![q] = @ \union {"clean"}] /\ UNCHANGED object
        /\ scrub' = [scrub EXCEPT ![w].pc = "failed"]
  /\ UNCHANGED <<session, chunk, job, missed>> /\ ScrubOnly

Enqueued(j) == [NoJob EXCEPT !.status = "pending", !.zombies = j.zombies]
Idle(j)     == [NoJob EXCEPT !.zombies = j.zombies]

\* MarkChunkScrubbed re-enqueues the analysis of a finished session in the same
\* transaction unless a job is live.
Reanalyzes ==
  session.status \in {"closed", "analyzed", "analysis_failed"} /\ job.status = "none"

MarkChunkScrubbed(w) ==
  LET q == scrub[w].seq IN
  /\ scrub[w].pc = "mark"
  /\ IF chunk[q].row = "none"
       THEN UNCHANGED <<chunk, missed, job>>
       ELSE /\ chunk' = [chunk EXCEPT ![q].readable = TRUE, ![q].claim = "none"]
            /\ job' = IF Reanalyzes THEN Enqueued(job) ELSE job
            /\ missed' = IF job.status = "read" THEN missed \union {q} ELSE missed
  /\ \E pc \in {"idle", "failed"} :
       scrub' = [scrub EXCEPT ![w] =
                   IF pc = "idle" THEN NoScrub ELSE [@ EXCEPT !.pc = pc]]
  /\ UNCHANGED <<session, object, late>> /\ ScrubOnly

\* MarkChunkScrubFailed.
MarkChunkScrubFailed(w) ==
  LET q == scrub[w].seq IN
  /\ scrub[w].pc = "failed"
  /\ chunk' = [chunk EXCEPT ![q].claim = "none"]
  /\ scrub' = [scrub EXCEPT ![w] = NoScrub]
  /\ UNCHANGED <<session, object, late, job, missed>> /\ ScrubOnly

\* The replica stops, or its database call fails: the claim is left to lapse.
ScrubDies(w) ==
  /\ scrub[w].pc # "idle"
  /\ scrub' = [scrub EXCEPT ![w] = NoScrub]
  /\ \/ UNCHANGED late
     \/ /\ scrub[w].pc = "write"
        /\ late' = [late EXCEPT ![scrub[w].seq] = @ \union {"clean"}]
  /\ UNCHANGED <<session, chunk, object, job, missed>> /\ ScrubOnly

-----------------------------------------------------------------------------
(* Analysis.                                                                 *)

AnalysisOnly == UNCHANGED <<object, late, upload, scrub, sweeper>>

Readable == {q \in Seqs : chunk[q].readable}

\* CloseIdleSessions: the close and its job are one statement.
CloseIdleSessions ==
  /\ session.status = "recording"
  /\ session' = [session EXCEPT !.status = "closed"]
  /\ job' = Enqueued(job)
  /\ UNCHANGED <<chunk, analyzed, missed>> /\ AnalysisOnly

\* processSessionAnalysisJob takes the job.  setSessionAnalysisStatus writes the
\* status whatever it was, "deleting" included.
AnalysisBegins ==
  /\ job.status = "pending" /\ Exists
  /\ session' = [session EXCEPT !.status = "analyzing"]
  /\ job' = [job EXCEPT !.status = "claimed"]
  /\ UNCHANGED <<chunk, analyzed, missed>> /\ AnalysisOnly

\* getScrubbedChunksForSession and readChunksBounded, which skips a chunk that is
\* no recording and fails the job for one that it cannot fetch.
AnalysisReads ==
  /\ job.status = "claimed" /\ Exists
  /\ \A q \in Readable : object[q] # "none"
  /\ job' = [job EXCEPT !.status = "read",
                        !.read = {q \in Readable : object[q] # "bad"}]
  /\ missed' = {}
  /\ UNCHANGED <<session, chunk, analyzed>> /\ AnalysisOnly

\* The facts are replaced, the row upserted, the status set, the job completed.
AnalysisEnds ==
  /\ job.status = "read" /\ Exists
  /\ analyzed' = job.read
  /\ session' = [session EXCEPT !.status = "analyzed"]
  /\ job' = Idle(job)
  /\ UNCHANGED <<chunk, missed>> /\ AnalysisOnly

\* The job is retried, or dead-letters at its last attempt.
Again(j) == IF j.attempts + 1 >= MaxAnalyses
              THEN Idle(j) ELSE [Enqueued(j) EXCEPT !.attempts = j.attempts + 1]

\* An attempt fails, perhaps after the facts were stored.
AnalysisFails ==
  /\ job.status \in {"claimed", "read"} /\ Exists
  /\ session' = [session EXCEPT !.status = "analysis_failed"]
  /\ job' = Again(job)
  /\ analyzed' \in {analyzed, IF job.status = "read" THEN job.read ELSE analyzed}
  /\ UNCHANGED <<chunk, missed>> /\ AnalysisOnly

\* The lease lapses and the reaper takes the job back.  An execution past its
\* assertJobLease may still go on.
AnalysisLapses ==
  /\ job.status \in {"claimed", "read"} /\ Exists
  /\ session' = IF Again(job).status = "none"
                   THEN [session EXCEPT !.status = "analysis_failed"] ELSE session
  /\ job' = [Again(job) EXCEPT !.zombies =
               @ \union (IF job.status = "read" THEN {job.read} ELSE {})]
  /\ UNCHANGED <<chunk, analyzed, missed>> /\ AnalysisOnly

\* The transaction of the facts is not guarded by the lease: what such an
\* execution read replaces what a later one has stored.
ZombieStores(read) ==
  /\ read \in job.zombies /\ Exists
  /\ analyzed' = read
  /\ missed' = missed \union (Readable \ read)
  /\ job' = [job EXCEPT !.zombies = @ \ {read}]
  /\ UNCHANGED <<session, chunk>> /\ AnalysisOnly

-----------------------------------------------------------------------------
(* Retention.                                                                *)

RetentionOnly == UNCHANGED <<upload, scrub, missed>>

\* The project's retention has passed, or the 90 days no pin outlasts.
TimePasses(due) ==
  /\ Exists /\ session.due # "capped"
  /\ session' = [session EXCEPT !.due = due]
  /\ UNCHANGED <<chunk, object, late, sweeper, job, analyzed>> /\ RetentionOnly

\* An error captured in the session moves retain_until (capture.go).
Pin ==
  /\ Exists /\ session.due = "yes"
  /\ session' = [session EXCEPT !.due = "no"]
  /\ UNCHANGED <<chunk, object, late, sweeper, job, analyzed>> /\ RetentionOnly

\* MarkSessionDeleting: the row and the tombstone in one transaction.
\* deletion_started_at keeps its first value.
MarkSessionDeleting ==
  /\ Live /\ session.due # "no"
  /\ session' = [session EXCEPT !.status = "deleting", !.tomb = TRUE]
  /\ UNCHANGED <<chunk, object, late, sweeper, job, analyzed>> /\ RetentionOnly

\* SessionsReadyForPurge's minute of grace.
DeletionGrace ==
  /\ session.status = "deleting" /\ ~session.purge
  /\ session' = [session EXCEPT !.purge = TRUE]
  /\ UNCHANGED <<chunk, object, late, sweeper, job, analyzed>> /\ RetentionOnly

\* RemovePrefix: every object of the session, or some of them and an error.
RemovePrefix ==
  /\ sweeper = "idle"
  /\ session.status = "deleting" /\ session.purge
  /\ object' = [q \in Seqs |-> "none"]
  /\ sweeper' = "removed"
  /\ UNCHANGED <<session, chunk, late, job, analyzed>> /\ RetentionOnly

RemovePrefixFails(q) ==
  /\ sweeper = "idle"
  /\ session.status = "deleting" /\ session.purge
  /\ object' = [object EXCEPT ![q] = "none"]
  /\ UNCHANGED <<session, chunk, late, sweeper, job, analyzed>> /\ RetentionOnly

\* DeleteMarkedSession: nothing if the row is no longer "deleting"; otherwise
\* the row goes, and its chunks and its analysis with it.  A job left behind
\* has no session and does nothing.
DeleteMarkedSession ==
  /\ sweeper = "removed"
  /\ sweeper' = "idle"
  /\ IF session.status = "deleting"
       THEN /\ session' = [session EXCEPT !.status = "gone", !.count = 0]
            /\ chunk' = [q \in Seqs |-> NoChunk]
            /\ job' = NoJob
            /\ analyzed' = {}
       ELSE UNCHANGED <<session, chunk, job, analyzed>>
  /\ UNCHANGED <<object, late>> /\ RetentionOnly

\* sweepDeletedPrefixes comes back to a tombstone for ever.
\* (Mutant: the tombstones' prefixes are not swept again.)
NoResweep == FALSE
Resweeps == session.tomb /\ session.status = "gone"

SweepDeletedPrefixes ==
  /\ Resweeps
  /\ object' = [q \in Seqs |-> "none"]
  /\ UNCHANGED <<session, chunk, late, sweeper, job, analyzed>> /\ RetentionOnly

-----------------------------------------------------------------------------
UploadSteps(u) ==
  \/ OverBudget(u) \/ PutObject(u) \/ CommitChunk(u)
  \/ RemoveThenRelease(u) \/ ReleaseChunkReservation(u) \/ UploadDies(u)

ScrubSteps(w) ==
  \/ Inspect(w) \/ WriteRedacted(w) \/ MarkChunkScrubbed(w)
  \/ MarkChunkScrubFailed(w) \/ ScrubDies(w)

AnalysisSteps ==
  AnalysisBegins \/ AnalysisReads \/ AnalysisEnds \/ AnalysisFails \/ AnalysisLapses

RecordingNext ==
  \/ SessionInit \/ CloseIdleSessions \/ AnalysisSteps
  \/ \E u \in Uploaders : UploadSteps(u)
  \/ \E u \in Uploaders, q \in Seqs, b \in Bodies : ReserveChunkSeq(u, q, b)
  \/ \E q \in Seqs, b \in Contents : LateWrite(q, b)
  \/ \E read \in SUBSET Seqs : ZombieStores(read)
  \/ \E q \in Seqs : Settles(q) \/ ClaimLapses(q) \/ RemovePrefixFails(q)
  \/ \E w \in Scrubbers, q \in Seqs : ClaimUnscrubbedChunks(w, q)
  \/ \E w \in Scrubbers : ScrubSteps(w)
  \/ TimePasses("yes") \/ TimePasses("capped") \/ Pin \/ MarkSessionDeleting \/ DeletionGrace
  \/ RemovePrefix \/ DeleteMarkedSession \/ SweepDeletedPrefixes

\* Requests, scrubs and jobs end, one way or another; time passes; the sweeper
\* runs every hour, and its calls do not fail for ever.
RecordingFairness ==
  /\ \A u \in Uploaders : WF_recordingVars(UploadSteps(u))
  /\ \A w \in Scrubbers : WF_recordingVars(ScrubSteps(w))
  /\ \A q \in Seqs, b \in Contents : WF_recordingVars(LateWrite(q, b))
  /\ WF_recordingVars(AnalysisSteps)
  /\ WF_recordingVars(TimePasses("capped"))
  /\ WF_recordingVars(MarkSessionDeleting)
  /\ WF_recordingVars(DeletionGrace)
  /\ WF_recordingVars(RemovePrefix)
  /\ WF_recordingVars(DeleteMarkedSession)
  /\ WF_recordingVars(SweepDeletedPrefixes)

RecordingSpec == RecordingInit /\ [][RecordingNext]_recordingVars /\ RecordingFairness

-----------------------------------------------------------------------------
(* Properties.                                                               *)

\* A chunk the dashboard and the worker may read (scrubbed_at) holds redacted
\* bytes, or nothing once its session has been marked for deletion: no late
\* upload, retry, clean-up or second scrubber puts raw bytes under its key or
\* takes its object away.
ReadableIsRedacted ==
  \A q \in Seqs : chunk[q].readable =>
    object[q] = "clean" \/ (session.tomb /\ object[q] = "none")

\* One request at a time writes and removes under a chunk's key: a failed
\* request is done with the object before a retry may reserve the number.
OneWriter ==
  \A u, v \in Uploaders :
    /\ upload[u].pc \in {"reserved", "stored", "removing", "releasing"}
    /\ upload[v].pc \in {"reserved", "stored", "removing", "releasing"}
    /\ upload[u].seq = upload[v].seq
    => u = v

\* chunk_count, from which the analysis derives its coverage, is the number of
\* committed chunks, whatever was retried, released or cleaned up.
CountIsCommitted ==
  session.count = Cardinality({q \in Seqs : chunk[q].row = "committed"})

\* A session that was marked for deletion never records again under its id,
\* though browsers keep the id and register it on every page load.
TombstoneHolds == session.tomb => session.status \notin {"recording", "closed"}

\* When no analysis is queued or running, a session that was analysed was
\* analysed with every chunk that is readable, but for those that became
\* readable after the last analysis had read (MarkChunkScrubbed takes the
\* running job to cover them) and those a superseded execution wrote over.
LateChunksAnalyzed ==
  job.status = "none" /\ session.status \in {"closed", "analyzed"} /\ ~session.tomb
    => Readable \subseteq analyzed \union missed

\* A session marked for deletion ends up erased for good, its row and every
\* object under its prefix, though an analysis may write over its status and an
\* upload may land after the purge.
EventuallyErased ==
  <>[](session.tomb => session.status = "gone" /\ \A q \in Seqs : object[q] = "none")

(* The rows of a recorded session, its objects and its analysis agree, and   *)
(* nothing readable is raw.                                                  *)
RecordingAgrees ==
  /\ RecordingTypeOK
  /\ ReadableIsRedacted
  /\ OneWriter
  /\ CountIsCommitted
  /\ TombstoneHolds
  /\ LateChunksAnalyzed
=============================================================================
