------------------------------ MODULE SdkCapture ------------------------------
(***************************************************************************)
(* Session recording in one browser tab (packages/sdk: replay.ts,           *)
(* session.ts, chunk-upload.ts, and the identity changes of core.ts).       *)
(*                                                                          *)
(* The page runs one task at a time.  An action is a task up to its next    *)
(* await, with the calls it makes; what is awaited (a registration, the     *)
(* import of rrweb, an upload) is answered by a later action, in any order. *)
(* A continuation whose generation has been left behind does nothing and is *)
(* forgotten at once, but for an import: that one still calls record().     *)
(*                                                                          *)
(* `page` is the tab's memory.  Its id, seq and user are written through to *)
(* sessionStorage and survive a reload; the rest does not.                  *)
(***************************************************************************)
EXTENDS Naturals, FiniteSets, TLC

CONSTANTS
  MaxIds,          \* sessions the tab opens
  MaxSeq,          \* chunks of a session
  MaxStray         \* abandoned starts whose import is still under way

ASSUME SdkConstants == MaxIds \in Nat \ {0} /\ MaxSeq \in Nat /\ MaxStray \in Nat

VARIABLES
  page,
  known,           \* sessions whose registration was answered "recording"
  shipped          \* how many chunks were given each number of each session

sdkVars == <<page, known, shipped>>

Ids  == 1..MaxIds
Numbers == 0..MaxSeq

NoBuffer == [owners |-> {}, snap |-> FALSE]
Quiet == [installed |-> FALSE, ready |-> FALSE, awaiting |-> FALSE,
          listener |-> FALSE, recorder |-> FALSE, current |-> 0,
          buffer |-> NoBuffer, starting |-> "no", target |-> 0, rotating |-> 0]

SdkTypeOK ==
  /\ page \in [id : Ids, seq : Numbers \union {MaxSeq + 1}, user : {"none", "user"}, idle : BOOLEAN,
               installed : BOOLEAN, ready : BOOLEAN, awaiting : BOOLEAN,
               listener : BOOLEAN, recorder : BOOLEAN, current : Ids \union {0},
               buffer : [owners : SUBSET Ids, snap : BOOLEAN],
               starting : {"no", "register", "import"}, target : Ids \union {0},
               rotating : Ids \union {0}, stray : 0..MaxStray, stopped : BOOLEAN,
               uploads : SUBSET [sid : Ids, seq : Numbers, owners : SUBSET Ids,
                                 snap : BOOLEAN, inline : BOOLEAN]]
  /\ known \subseteq Ids
  /\ shipped \in [Ids \X Numbers -> Nat]

SdkInit ==
  /\ page = [id |-> 1, seq |-> 0, user |-> "none", idle |-> FALSE,
             stray |-> 0, stopped |-> FALSE, uploads |-> {}] @@ Quiet
  /\ known = {}
  /\ shipped = [c \in Ids \X Numbers |-> 0]

-----------------------------------------------------------------------------
(* What the handlers do to the tab's memory.                                 *)

\* freshState: another id, numbers from zero.  The caller stays within MaxIds.
FreshState(p, user) == [p EXCEPT !.id = @ + 1, !.seq = 0, !.user = user, !.idle = FALSE]

\* shipChunk and flushInline: nothing is sent once the server has said stop.
Ship(p, sid, seq, inline) ==
  IF p.stopped THEN p
  ELSE [p EXCEPT !.uploads = @ \union
          {[sid |-> sid, seq |-> seq, owners |-> p.buffer.owners,
            snap |-> p.buffer.snap, inline |-> inline]}]

\* The buffer goes out under the current session and its next number.
ShipBuffer(p, inline) ==
  [Ship(p, p.current, p.seq, inline) EXCEPT
     !.seq = @ + 1, !.idle = FALSE, !.buffer = NoBuffer]

\* stopReplayCapture.
Stop(p) == Quiet @@
           [p EXCEPT !.stray = IF p.starting = "import" THEN @ + 1 ELSE @]

\* beginSessionRotation, with the tab's id and number as they were (`q`): what
\* is buffered goes out under the old session; nothing is recorded until the
\* new one is registered and a snapshot taken.
Rotate(p, q) ==
  [(IF p.buffer = NoBuffer THEN p ELSE Ship(p, q.id, q.seq, FALSE)) EXCEPT
     !.buffer = NoBuffer, !.current = p.id, !.ready = FALSE,
     !.awaiting = FALSE, !.rotating = p.id]

Pushed(p, snap) ==
  [p EXCEPT !.buffer = [owners |-> @.owners \union {p.id},
                        snap |-> IF @ = NoBuffer THEN snap ELSE @.snap]]

\* onEmit.  A snapshot is rrweb's Meta and FullSnapshot together; a checkout is
\* a snapshot that closes the chunk before it.
OnEmit(p, kind) ==
  CASE p.idle            -> Rotate(FreshState(p, p.user), p)
    [] ~p.ready          -> IF kind # "event" /\ p.awaiting
                              THEN Pushed([p EXCEPT !.awaiting = FALSE, !.ready = TRUE,
                                                    !.buffer = NoBuffer], TRUE)
                              ELSE p
    [] kind = "checkout" -> Pushed(IF p.buffer = NoBuffer THEN p ELSE ShipBuffer(p, FALSE), TRUE)
    [] OTHER             -> Pushed(p, kind = "snapshot")

\* takeFullSnapshotFn, which throws, and is ignored, without a recorder.
Snapshot(p) == IF p.recorder THEN OnEmit(p, "checkout") ELSE p

-----------------------------------------------------------------------------
(* Bookkeeping: chunk numbers handed out, room for the next step.            *)

\* A chunk that falls back from the inline path is the same chunk.
Numbered(p, q) ==
  {c \in Ids \X Numbers :
     \E u \in q.uploads \ p.uploads : c = <<u.sid, u.seq>>
       /\ ~\E v \in p.uploads : v = [u EXCEPT !.inline = TRUE]}

Becomes(p) ==
  /\ page' = p
  /\ shipped' = [c \in Ids \X Numbers |->
                   IF c \in Numbered(page, p) THEN shipped[c] + 1 ELSE shipped[c]]

Room == page.id < MaxIds /\ page.seq <= MaxSeq

-----------------------------------------------------------------------------
(* The page and the application.                                             *)

\* startReplayCapture up to the registration, from init(); an expired session
\* is replaced when it is loaded.
StartReplayCapture ==
  /\ ~page.installed
  /\ page.idle => Room
  /\ LET p == IF page.idle THEN FreshState(page, page.user) ELSE page IN
     Becomes([p EXCEPT !.installed = TRUE, !.starting = "register", !.target = p.id])
  /\ UNCHANGED known

\* registerStableSession: the identity may have changed while init was in
\* flight, and then the latest session is registered instead.
\* (Mutant: the session that was asked for is opened.)
AnyTarget == TRUE
StableTarget == page.target = page.id

StartRegistered(recording) ==
  /\ page.starting = "register"
  /\ IF ~recording
       THEN /\ Becomes([page EXCEPT !.installed = FALSE, !.starting = "no", !.target = 0])
            /\ UNCHANGED known
       ELSE /\ known' = known \union {page.target}
            /\ Becomes(
                 IF ~StableTarget THEN [page EXCEPT !.target = page.id]
                 ELSE [page EXCEPT !.current = page.target, !.ready = FALSE,
                                   !.awaiting = TRUE, !.stopped = FALSE,
                                   !.listener = TRUE, !.starting = "import", !.target = 0])

\* rrweb is loaded and record() emits its first snapshot, or one of them fails.
StartImported ==
  /\ page.starting = "import" /\ Room
  /\ LET p == OnEmit([page EXCEPT !.starting = "no"], "snapshot") IN
     \/ Becomes([p EXCEPT !.recorder = TRUE])
     \/ Becomes(Stop(p))
  /\ UNCHANGED known

ImportFails ==
  /\ page.starting = "import"
  /\ Becomes(Stop([page EXCEPT !.starting = "no"]))
  /\ UNCHANGED known

\* The import of a start that was stopped: record() emits, and is stopped.
StrayStops(p) == p

StrayImported ==
  /\ page.stray > 0 /\ Room
  /\ Becomes(StrayStops(OnEmit([page EXCEPT !.stray = @ - 1], "snapshot")))
  /\ UNCHANGED known

\* setUser, clearUser: rotateForIdentity.
SetUser(user) ==
  /\ user # page.user /\ Room
  /\ LET p == FreshState(page, user) IN
     Becomes(IF page.listener THEN Rotate(p, page) ELSE p)
  /\ UNCHANGED known

\* destroy(): the recording stops, and then the user is cleared.
Destroy ==
  /\ Room /\ page.stray < MaxStray
  /\ LET p == Stop(page) IN
     Becomes(IF p.user = "none" THEN p ELSE FreshState(p, "none"))
  /\ UNCHANGED known

\* The document goes away with everything but sessionStorage.
Reload ==
  /\ Becomes(Quiet @@ [page EXCEPT !.stray = 0, !.stopped = FALSE, !.uploads = {}])
  /\ UNCHANGED known

HalfAnHour ==
  /\ ~page.idle
  /\ Becomes([page EXCEPT !.idle = TRUE])
  /\ UNCHANGED known

-----------------------------------------------------------------------------
(* Recording.                                                                *)

\* An event, or the checkout rrweb makes every thirty seconds and the SDK asks
\* for when the buffer is too large.
Emit(kind) ==
  /\ page.recorder /\ Room
  /\ Becomes(OnEmit(page, kind))
  /\ UNCHANGED known

\* flushReplayBufferForError.
FlushForError ==
  /\ page.installed /\ page.ready /\ page.buffer # NoBuffer /\ Room
  /\ Becomes(Snapshot(ShipBuffer(page, FALSE)))
  /\ UNCHANGED known

\* onVisibilityChange, hidden.
Hidden ==
  /\ page.recorder /\ page.buffer # NoBuffer /\ Room
  /\ Becomes(Snapshot(ShipBuffer(page, TRUE)))
  /\ UNCHANGED known

\* The new session's registration is answered.
RotationRegistered(recording) ==
  /\ page.rotating # 0 /\ Room
  /\ IF recording
       THEN /\ known' = known \union {page.rotating}
            /\ Becomes(Snapshot([page EXCEPT !.rotating = 0, !.current = page.rotating,
                                             !.awaiting = TRUE]))
       ELSE page.stray < MaxStray /\ Becomes(Stop(page)) /\ UNCHANGED known

\* An upload's answer: taken; failed, and sent again if it was inline; or the
\* project does not record, which stops whatever capture is running by then.
UploadAnswered(u, answer) ==
  LET p == [page EXCEPT !.uploads = @ \ {u}] IN
  /\ u \in page.uploads
  /\ \/ answer = "ok" /\ Becomes(p)
     \/ /\ answer = "failed"
        /\ Becomes(IF u.inline /\ ~p.stopped
                     THEN [p EXCEPT !.uploads = @ \union {[u EXCEPT !.inline = FALSE]}] ELSE p)
     \/ /\ answer = "stop" /\ page.stray < MaxStray
        /\ Becomes(Stop([p EXCEPT !.stopped = TRUE]))
  /\ UNCHANGED known

-----------------------------------------------------------------------------
SdkNext ==
  \/ StartReplayCapture \/ StartImported \/ ImportFails \/ StrayImported
  \/ Destroy \/ Reload \/ HalfAnHour \/ FlushForError \/ Hidden
  \/ \E recording \in BOOLEAN : StartRegistered(recording) \/ RotationRegistered(recording)
  \/ \E user \in {"none", "user"} : SetUser(user)
  \/ \E kind \in {"event", "checkout"} : Emit(kind)
  \/ \E u \in page.uploads, answer \in {"ok", "failed", "stop"} : UploadAnswered(u, answer)

SdkSpec == SdkInit /\ [][SdkNext]_sdkVars

-----------------------------------------------------------------------------
(* Properties.                                                               *)

\* A chunk is sent only for a session the server has agreed to record: no
\* checkout, error or tab switch opens the stream of a session whose
\* registration is still in flight.
RegisteredFirst == \A u \in page.uploads : u.sid \in known

\* A chunk number is used for one chunk of its session: the server refuses a
\* second as a duplicate, and what it held is lost.
ChunkOnce == \A c \in Ids \X Numbers : shipped[c] <= 1

\* All that a chunk holds was recorded under the identity of its session: after
\* setUser, clearUser or half an hour of silence nothing is added to the old
\* session, and nothing of it reaches the new one.
OneIdentity ==
  /\ page.ready => page.current = page.id
  /\ \A u \in page.uploads : u.owners = {u.sid}

\* Every chunk opens with a full snapshot: as its upload claims, and the inline
\* tail's although it does not.
SelfContained == \A u \in page.uploads : u.snap

\* A stopped capture is quiet: nothing buffered, nothing recording, whatever
\* import, registration or upload was under way when it stopped.
StoppedIsQuiet ==
  ~page.installed => /\ page.buffer = NoBuffer /\ ~page.ready
                     /\ ~page.recorder /\ ~page.listener

(* A recording is intact: chunks of registered sessions only, numbered once, *)
(* of one identity, opening with a snapshot, and none after the capture stops. *)
CaptureIntact ==
  /\ SdkTypeOK
  /\ RegisteredFirst
  /\ ChunkOnce
  /\ OneIdentity
  /\ SelfContained
  /\ StoppedIsQuiet
=============================================================================
