--------------------------- MODULE StackResolution ---------------------------
(* A source map arrives while the stack that needs it is being resolved:      *)
(* UploadSourceMap stores the map and wakes the stacks that wait, and the     *)
(* stack_resolve job publishes that it waits and looks for the maps.  The two *)
(* take no lock together; that neither misses the other rests on the order of *)
(* their steps alone.                                                         *)
EXTENDS Integers, FiniteSets

CONSTANTS
    DebugIds,           \* debug IDs
    Mapped,        \* those whose map has the position of the frame
    Events,        \* captured errors
    Frames,        \* Frames[e]: the debug IDs of e's frames
    Uploads,       \* requests to store a map
    UploadOf,      \* UploadOf[u]: the debug ID it is for
    Jobs,          \* rows a stack_resolve job may take
    MaxResolves,   \* attempts of a job
    MaxFailures    \* bound: lost workers, lost or unreadable objects, lost wakes

ASSUME StackAssumption ==
    /\ Frames \in [Events -> SUBSET DebugIds]
    /\ UploadOf \in [Uploads -> DebugIds]
    /\ MaxResolves \in Nat \ {0}
    /\ MaxFailures \in Nat

VARIABLES
    rows,      \* sourcemap_files
    objects,   \* the maps in object storage
    upload,    \* where each request stands
    status,    \* error_event_resolutions.status, "none" without a row,
               \* "absent" before the event
    job,       \* the jobs: of which event, at which step, and the rows it read
    failures   \* failures so far

stackVars == <<rows, objects, upload, status, job, failures>>

FreeRow == [event |-> "none", step |-> "free", attempts |-> 0, seen |-> {}]

Fails == /\ failures < MaxFailures
         /\ failures' = failures + 1

JobsOf(e) == {j \in Jobs : job[j].event = e /\ job[j].step # "free"}

-----------------------------------------------------------------------------
(* UploadSourceMap. *)

Receive(u) ==
    /\ upload[u] = "idle"
    /\ upload' = [upload EXCEPT ![u] = "put"]
    /\ UNCHANGED <<rows, objects, status, job, failures>>

(* The object first: of a row that exists it is only put back when lost.      *)
PutObject(u) ==
    /\ upload[u] = "put"
    /\ objects' = objects \cup {UploadOf[u]}
    /\ upload' = [upload EXCEPT ![u] = "row"]
    /\ UNCHANGED <<rows, status, job, failures>>

UpsertSourceMapFile(u) ==
    /\ upload[u] = "row"
    /\ rows' = rows \cup {UploadOf[u]}
    /\ upload' = [upload EXCEPT ![u] = "wake"]
    /\ UNCHANGED <<objects, status, job, failures>>

(* The request fails before its row is written; it may come again. *)
Unavailable(u) ==
    /\ upload[u] \in {"put", "row"}
    /\ upload' = [upload EXCEPT ![u] = "idle"]
    /\ UNCHANGED <<rows, objects, status, job, failures>>

\* Mutant: a claimed job counts as one that will look again.
WaitsIdle(e, d) == status[e] = "pending" /\ d \in Frames[e] /\ JobsOf(e) = {}

(* Who is woken: a parked stack with a frame of this map and no queued job.   *)
(* A claimed one does not count, it may have looked already.                  *)
Waits(e, d) == /\ status[e] = "pending"
               /\ d \in Frames[e]
               /\ \A j \in JobsOf(e) : job[j].step # "queued"

(* WakePendingStackResolutions, one job for each that waits. *)
Wake(u) ==
    /\ upload[u] = "wake"
    /\ LET waiting == {e \in Events : Waits(e, UploadOf[u])} IN
         \E into \in [waiting -> {j \in Jobs : job[j] = FreeRow}] :
           /\ \A e1, e2 \in waiting : into[e1] = into[e2] => e1 = e2
           /\ job' = [j \in Jobs |->
                        IF \E e \in waiting : into[e] = j
                        THEN [FreeRow EXCEPT !.event = CHOOSE e \in waiting : into[e] = j,
                                          !.step = "queued"]
                        ELSE job[j]]
    /\ upload' = [upload EXCEPT ![u] = "idle"]
    /\ UNCHANGED <<rows, objects, status, failures>>

(* A wake that fails is logged, and the upload has succeeded. *)
WakeLost(u) ==
    /\ upload[u] = "wake" /\ Fails
    /\ upload' = [upload EXCEPT ![u] = "idle"]
    /\ UNCHANGED <<rows, objects, status, job>>

ObjectLost(d) ==
    /\ d \in objects /\ Fails
    /\ objects' = objects \ {d}
    /\ UNCHANGED <<rows, upload, status, job>>

-----------------------------------------------------------------------------
(* runStackResolve. *)

(* CaptureError queues the job of an event. *)
Capture(e, j) ==
    /\ status[e] = "absent" /\ job[j] = FreeRow
    /\ status' = [status EXCEPT ![e] = "none"]
    /\ job' = [job EXCEPT ![j] = [FreeRow EXCEPT !.event = e, !.step = "queued"]]
    /\ UNCHANGED <<rows, objects, upload, failures>>

Claim(j) ==
    /\ job[j].step = "queued"
    /\ job' = [job EXCEPT ![j].step = "claimed"]
    /\ UNCHANGED <<rows, objects, upload, status, failures>>

(* recordResolution: a resolved row keeps its envelope, and the raw fallback  *)
(* gives way only to a resolution.                                            *)
Recorded(e, new) ==
    IF status[e] = "resolved" \/ (status[e] = "no_map" /\ new \in {"pending", "failed"})
    THEN status ELSE [status EXCEPT ![e] = new]

(* The wait is published before the catalog is read. *)
PublishWait(j) ==
    /\ job[j].step = "claimed"
    /\ status' = Recorded(job[j].event, "pending")
    /\ job' = [job EXCEPT ![j].step = "published"]
    /\ UNCHANGED <<rows, objects, upload, failures>>

(* getMapRows, for the debug IDs of the frames. *)
GetMapRows(j) ==
    /\ job[j].step = "published"
    /\ job' = [job EXCEPT ![j] = [@ EXCEPT !.step = "read",
                                         !.seen = rows \cap Frames[job[j].event]]]
    /\ UNCHANGED <<rows, objects, upload, status, failures>>

(* The frames that are resolved: their map was read and has their position.   *)
Resolved(read) == read \cap Mapped

(* What becomes of the attempt, by the maps it could read: no frame has a     *)
(* debug ID; a map is missing, or a part of the frames resolved, and it is    *)
(* parked; all resolved; none.                                                *)
Outcome(j, read) ==
    LET frames == Frames[job[j].event] IN
    CASE frames = {} -> "no_map"
      [] frames # {} /\ job[j].seen = {} -> "pending"
      [] frames # {} /\ job[j].seen # {} /\ Resolved(read) = frames -> "resolved"
      [] frames # {} /\ job[j].seen # {} /\ Resolved(read) = {} -> "failed"
      [] OTHER -> "pending"

(* The job is queued again, or it was its last attempt and it is dead.        *)
Again(j) ==
    [job EXCEPT ![j] =
       IF job[j].attempts + 1 < MaxResolves
       THEN [FreeRow EXCEPT !.event = job[j].event, !.step = "queued",
                            !.attempts = job[j].attempts + 1]
       ELSE FreeRow]

(* What an attempt reads of the maps it saw: those that are stored, and of    *)
(* the others those whose positions the cache remembers.                      *)
Reads(seen) == {read \in SUBSET seen : seen \cap objects \subseteq read}

(* The maps are fetched one by one, and an object that cannot be read leaves  *)
(* its frames unresolved.  An attempt that resolved nothing throws, the last  *)
(* one after it settled the raw fallback.                                     *)
Settle(j) ==
    /\ job[j].step = "read"
    /\ \E read \in SUBSET job[j].seen :
         /\ IF read \in Reads(job[j].seen) THEN UNCHANGED failures ELSE Fails
         /\ LET outcome == Outcome(j, read) IN
              IF outcome = "failed"
              THEN /\ job' = Again(j)
                   /\ status' = Recorded(job[j].event,
                                         IF job[j].attempts + 1 < MaxResolves
                                         THEN "failed" ELSE "no_map")
              ELSE /\ job' = [job EXCEPT ![j] = FreeRow]
                   /\ status' = Recorded(job[j].event, outcome)
    /\ UNCHANGED <<rows, objects, upload>>

(* The worker is lost, or has no object storage: the job is tried again.      *)
Lapse(j) ==
    /\ job[j].step \in {"claimed", "published", "read"} /\ Fails
    /\ job' = Again(j)
    /\ UNCHANGED <<rows, objects, upload, status>>

(* Watchdog.Sweep, past the boundary: what waits settles with the raw stack.  *)
Sweep(e) ==
    /\ status[e] \in {"none", "pending", "failed"}
    /\ status' = [status EXCEPT ![e] = "no_map"]
    /\ UNCHANGED <<rows, objects, upload, job, failures>>

-----------------------------------------------------------------------------
StackInit ==
    /\ rows = {}
    /\ objects = {}
    /\ upload = [u \in Uploads |-> "idle"]
    /\ status = [e \in Events |-> "absent"]
    /\ job = [j \in Jobs |-> FreeRow]
    /\ failures = 0

StackNext ==
    \/ \E u \in Uploads : \/ Receive(u) \/ PutObject(u) \/ UpsertSourceMapFile(u)
                          \/ Unavailable(u) \/ Wake(u) \/ WakeLost(u)
    \/ \E d \in DebugIds : ObjectLost(d)
    \/ \E e \in Events : Sweep(e) \/ \E j \in Jobs : Capture(e, j)
    \/ \E j \in Jobs : Claim(j) \/ PublishWait(j) \/ GetMapRows(j) \/ Settle(j) \/ Lapse(j)

StackSpec == StackInit /\ [][StackNext]_stackVars

-----------------------------------------------------------------------------
StackTypeOK ==
    /\ rows \subseteq DebugIds
    /\ objects \subseteq DebugIds
    /\ upload \in [Uploads -> {"idle", "put", "row", "wake"}]
    /\ status \in [Events -> {"absent", "none", "pending", "failed", "no_map", "resolved"}]
    /\ job \in [Jobs -> [event : Events \cup {"none"},
                         step : {"free", "queued", "claimed", "published", "read"},
                         attempts : Nat, seen : SUBSET DebugIds]]
    /\ failures \in Nat

(* A row says what can be read, unless an object was lost since.              *)
RowsAreReadable == failures = 0 => rows \subseteq objects

(* Somebody will look again for the stack e: a job that has not read the      *)
(* catalog, or read all it needs, or an upload that has yet to wake it.       *)
WillBeSeen(e) ==
    \/ \E j \in JobsOf(e) : job[j].step = "read" => Frames[e] \subseteq job[j].seen
    \/ \E u \in Uploads : upload[u] = "wake" /\ UploadOf[u] \in Frames[e]

(* No stack waits for maps that have arrived: if each of its frames has its   *)
(* map and a position in it, and no step failed, somebody will look again.    *)
NobodyWaits ==
    failures = 0 =>
      \A e \in Events :
        (status[e] = "pending" /\ Frames[e] # {} /\ Frames[e] \subseteq rows \cap Mapped)
          => WillBeSeen(e)

(* Uploads and resolutions do not miss each other.                            *)
ResolutionAgrees == StackTypeOK /\ RowsAreReadable /\ NobodyWaits
=============================================================================
