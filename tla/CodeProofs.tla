----------------------------- MODULE CodeProofs -----------------------------
(***************************************************************************)
(* What is stored of a project's own code, the source maps its stacks are    *)
(* resolved with and the route map of its repository, and the fixes of the   *)
(* problems found in it.                                                     *)
(***************************************************************************)
EXTENDS StackResolution, ProductContext, FixAttempts, FiniteSetTheorems, SequenceTheorems, TLAPS

-----------------------------------------------------------------------------
(* Uploads and resolutions do not miss each other, for any number of events, *)
(* frames, maps, requests and jobs.                                          *)
(*                                                                           *)
(* What has to be known beside the property: what a job has read was in the  *)
(* catalog and is of its event, whose wait it has published (Looks); without *)
(* a failure an attempt that resolved nothing belongs to a stack that has no *)
(* position (FailedForGood); and the row comes after the object (ObjectFirst). *)

Working(j) == job[j].step # "free"

Looks ==
    \A j \in Jobs :
      /\ Working(j) => job[j].event \in Events
      /\ job[j].step = "read" => /\ job[j].seen \subseteq rows
                                 /\ job[j].seen \subseteq Frames[job[j].event]
      /\ job[j].step \in {"published", "read"} =>
           status[job[j].event] \notin {"absent", "none"}

FailedForGood ==
    failures = 0 => \A e \in Events : status[e] = "failed" => ~(Frames[e] \subseteq Mapped)

ObjectFirst == failures = 0 => \A u \in Uploads : upload[u] = "row" => UploadOf[u] \in objects

StackInv == StackTypeOK /\ Looks /\ FailedForGood /\ ObjectFirst /\ RowsAreReadable /\ NobodyWaits

Row == [event : Events \cup {"none"}, step : {"free", "queued", "claimed", "published", "read"},
        attempts : Nat, seen : SUBSET DebugIds]

LEMMA FreeIsRow == FreeRow \in Row
BY DEF FreeRow, Row

\* The type invariant holds initially and is kept by every step.
LEMMA TypeStep == StackTypeOK /\ [StackNext]_stackVars => StackTypeOK'
<1> SUFFICES ASSUME StackTypeOK, [StackNext]_stackVars PROVE StackTypeOK'
    OBVIOUS
<1> USE StackAssumption DEF StackTypeOK
<1>1. ASSUME NEW u \in Uploads, Receive(u) PROVE StackTypeOK'
    BY <1>1 DEF Receive
<1>2. ASSUME NEW u \in Uploads, PutObject(u) PROVE StackTypeOK'
    BY <1>2 DEF PutObject
<1>3. ASSUME NEW u \in Uploads, UpsertSourceMapFile(u) PROVE StackTypeOK'
    BY <1>3 DEF UpsertSourceMapFile
<1>4. ASSUME NEW u \in Uploads, Unavailable(u) PROVE StackTypeOK'
    BY <1>4 DEF Unavailable
<1>5. ASSUME NEW u \in Uploads, Wake(u) PROVE StackTypeOK'
  <2>1. job' \in [Jobs -> Row]
    <3> DEFINE waiting == {e \in Events : Waits(e, UploadOf[u])}
    <3>1. PICK into \in [waiting -> {j \in Jobs : job[j] = FreeRow}] :
            job' = [j \in Jobs |->
                      IF \E e \in waiting : into[e] = j
                      THEN [FreeRow EXCEPT !.event = CHOOSE e \in waiting : into[e] = j,
                                           !.step = "queued"]
                      ELSE job[j]]
        BY <1>5 DEF Wake
    <3>2. ASSUME NEW j \in Jobs PROVE
            (IF \E e \in waiting : into[e] = j
             THEN [FreeRow EXCEPT !.event = CHOOSE e \in waiting : into[e] = j,
                                  !.step = "queued"]
             ELSE job[j]) \in Row
      <4>1. CASE \E e \in waiting : into[e] = j
        <5>1. (CHOOSE e \in waiting : into[e] = j) \in Events
            BY <4>1
        <5>. HIDE DEF waiting
        <5>2. ASSUME NEW x \in Events PROVE [FreeRow EXCEPT !.event = x, !.step = "queued"] \in Row
            BY DEF FreeRow, Row
        <5>. QED BY <4>1, <5>1, <5>2
      <4>2. CASE ~(\E e \in waiting : into[e] = j)
          BY <4>2 DEF Row
      <4>. QED BY <4>1, <4>2
    <3>. QED BY <3>1, <3>2
  <2>. QED BY <1>5, <2>1 DEF Wake, Row
<1>6. ASSUME NEW u \in Uploads, WakeLost(u) PROVE StackTypeOK'
    BY <1>6 DEF WakeLost, Fails
<1>7. ASSUME NEW d \in DebugIds, ObjectLost(d) PROVE StackTypeOK'
    BY <1>7 DEF ObjectLost, Fails
<1>8. ASSUME NEW e \in Events, Sweep(e) PROVE StackTypeOK'
    BY <1>8 DEF Sweep
<1>9. ASSUME NEW e \in Events, NEW j \in Jobs, Capture(e, j) PROVE StackTypeOK'
    BY <1>9 DEF Capture, FreeRow
<1>10. ASSUME NEW j \in Jobs, Claim(j) PROVE StackTypeOK'
    BY <1>10 DEF Claim
<1>11. ASSUME NEW j \in Jobs, PublishWait(j) PROVE StackTypeOK'
    BY <1>11 DEF PublishWait, Recorded
<1>12. ASSUME NEW j \in Jobs, GetMapRows(j) PROVE StackTypeOK'
  <2>1. ASSUME NEW s \in SUBSET DebugIds PROVE [job[j] EXCEPT !.step = "read", !.seen = s] \in Row
      BY DEF Row
  <2>2. job' \in [Jobs -> Row]
      BY <1>12, <2>1 DEF GetMapRows, Row
  <2>. QED BY <1>12, <2>2 DEF GetMapRows, Row
<1>13. ASSUME NEW j \in Jobs PROVE Again(j) \in [Jobs -> Row]
  <2>1. ASSUME NEW e \in Events \cup {"none"}, NEW n \in Nat
        PROVE  [FreeRow EXCEPT !.event = e, !.step = "queued", !.attempts = n] \in Row
      BY DEF FreeRow, Row
  <2>2. job[j].event \in Events \cup {"none"} /\ job[j].attempts + 1 \in Nat
      BY DEF Row
  <2>. QED BY <2>1, <2>2, FreeIsRow DEF Again, Row
<1>14. ASSUME NEW j \in Jobs, Settle(j) PROVE StackTypeOK'
  <2>1. job' \in [Jobs -> Row]
      BY <1>13, <1>14, FreeIsRow DEF Settle, Row
  <2>2. ASSUME NEW e, NEW s \in {"failed", "no_map", "pending", "resolved"} PROVE
          Recorded(e, s) \in [Events -> {"absent", "none", "pending", "failed", "no_map", "resolved"}]
      BY DEF Recorded
  <2>3. ASSUME NEW read PROVE Outcome(j, read) \in {"failed", "no_map", "pending", "resolved"}
      BY DEF Outcome
  <2>4. status' \in [Events -> {"absent", "none", "pending", "failed", "no_map", "resolved"}]
      BY <1>14, <2>2, <2>3 DEF Settle
  <2>. QED BY <1>14, <2>1, <2>4 DEF Settle, Fails, Row
<1>15. ASSUME NEW j \in Jobs, Lapse(j) PROVE StackTypeOK'
    BY <1>13, <1>15 DEF Lapse, Fails, Row
<1>16. CASE UNCHANGED stackVars
    BY <1>16 DEF stackVars
<1>. QED
    BY <1>1, <1>2, <1>3, <1>4, <1>5, <1>6, <1>7, <1>8, <1>9, <1>10, <1>11, <1>12, <1>14,
       <1>15, <1>16 DEF StackNext

\* The rest of the invariant, without the type.
Rest == Looks /\ FailedForGood /\ ObjectFirst /\ RowsAreReadable /\ NobodyWaits

\* A step of an upload that leaves the jobs alone keeps the rest.
LEMMA UploadStep ==
  ASSUME StackInv, StackTypeOK', NEW u \in Uploads,
         Receive(u) \/ PutObject(u) \/ UpsertSourceMapFile(u) \/ Unavailable(u) \/ WakeLost(u)
  PROVE  Rest'
<1> USE StackAssumption DEF StackInv, StackTypeOK
<1>1. CASE Receive(u)
    BY <1>1 DEF Receive, Rest, Looks, Working, FailedForGood, ObjectFirst, RowsAreReadable,
                NobodyWaits, WillBeSeen, JobsOf
<1>2. CASE PutObject(u)
    BY <1>2 DEF PutObject, Rest, Looks, Working, FailedForGood, ObjectFirst, RowsAreReadable,
                NobodyWaits, WillBeSeen, JobsOf
<1>3. CASE UpsertSourceMapFile(u)
  <2>1. Looks' /\ FailedForGood' /\ ObjectFirst' /\ RowsAreReadable'
      BY <1>3 DEF UpsertSourceMapFile, Looks, Working, FailedForGood, ObjectFirst, RowsAreReadable
  <2>2. NobodyWaits'
    <3> SUFFICES ASSUME failures = 0, NEW e \in Events, status[e] = "pending",
                        Frames[e] # {}, Frames[e] \subseteq rows' \cap Mapped
                 PROVE  WillBeSeen(e)'
        BY <1>3 DEF NobodyWaits, UpsertSourceMapFile
    <3>1. CASE UploadOf[u] \in Frames[e]
        BY <1>3, <3>1 DEF UpsertSourceMapFile, WillBeSeen
    <3>2. CASE UploadOf[u] \notin Frames[e]
      <4>1. Frames[e] \subseteq rows \cap Mapped
          BY <1>3, <3>2 DEF UpsertSourceMapFile
      <4>2. WillBeSeen(e)
          BY <4>1 DEF NobodyWaits
      <4>. QED BY <1>3, <4>2 DEF UpsertSourceMapFile, WillBeSeen, JobsOf
    <3>. QED BY <3>1, <3>2
  <2>. QED BY <2>1, <2>2 DEF Rest
<1>4. CASE Unavailable(u)
    BY <1>4 DEF Unavailable, Rest, Looks, Working, FailedForGood, ObjectFirst, RowsAreReadable,
                NobodyWaits, WillBeSeen, JobsOf
<1>5. CASE WakeLost(u)
    BY <1>5 DEF WakeLost, Fails, Rest, Looks, Working, FailedForGood, ObjectFirst,
                RowsAreReadable, NobodyWaits
<1>. QED BY <1>1, <1>2, <1>3, <1>4, <1>5

\* A wake gives every stack that waits a job that has yet to look.
LEMMA WakeStep ==
  ASSUME StackInv, StackTypeOK', NEW u \in Uploads, Wake(u) PROVE Rest'
<1> USE StackAssumption DEF StackInv, StackTypeOK
<1> DEFINE waiting == {e \in Events : Waits(e, UploadOf[u])}
<1>1. PICK into \in [waiting -> {j \in Jobs : job[j] = FreeRow}] :
        /\ \A e1, e2 \in waiting : into[e1] = into[e2] => e1 = e2
        /\ job' = [j \in Jobs |->
                     IF \E e \in waiting : into[e] = j
                     THEN [FreeRow EXCEPT !.event = CHOOSE e \in waiting : into[e] = j,
                                          !.step = "queued"]
                     ELSE job[j]]
    BY DEF Wake
<1>2. ASSUME NEW j \in Jobs, Working(j) PROVE job'[j] = job[j]
  <2>1. job[j] # FreeRow
      BY <1>2 DEF Working, FreeRow
  <2>2. \A e \in waiting : job[into[e]] = FreeRow
      BY <1>1
  <2>3. ~(\E e \in waiting : into[e] = j)
      BY <2>1, <2>2
  <2>. QED BY <1>1, <2>3
<1>3. ASSUME NEW j \in Jobs, job'[j] # job[j]
      PROVE  job'[j].step = "queued" /\ job'[j].event \in Events
  <2>1. \E e \in waiting : into[e] = j
      BY <1>1, <1>3
  <2>2. (CHOOSE e \in waiting : into[e] = j) \in Events
      BY <2>1
  <2>3. job'[j] = [FreeRow EXCEPT !.event = CHOOSE e \in waiting : into[e] = j,
                                  !.step = "queued"]
      BY <1>1, <2>1
  <2>. HIDE DEF waiting
  <2>4. ASSUME NEW x PROVE /\ [FreeRow EXCEPT !.event = x, !.step = "queued"].step = "queued"
                           /\ [FreeRow EXCEPT !.event = x, !.step = "queued"].event = x
      BY DEF FreeRow
  <2>. QED BY <2>2, <2>3, <2>4
<1>4. ASSUME NEW e \in waiting PROVE \E j \in Jobs : job'[j].event = e /\ job'[j].step = "queued"
  <2>1. into[e] \in Jobs
      BY <1>1, <1>4
  <2>2. (CHOOSE x \in waiting : into[x] = into[e]) = e
      BY <1>1, <1>4
  <2>3. job'[into[e]] = [FreeRow EXCEPT !.event = CHOOSE x \in waiting : into[x] = into[e],
                                        !.step = "queued"]
      BY <1>1, <1>4, <2>1
  <2>4. job'[into[e]] = [FreeRow EXCEPT !.event = e, !.step = "queued"]
      BY <2>2, <2>3
  <2>. QED BY <2>1, <2>4 DEF FreeRow
<1>5. Looks'
  <2> SUFFICES ASSUME NEW j \in Jobs
               PROVE  /\ Working(j)' => job'[j].event \in Events
                      /\ job'[j].step = "read" => /\ job'[j].seen \subseteq rows'
                                                  /\ job'[j].seen \subseteq Frames[job'[j].event]
                      /\ job'[j].step \in {"published", "read"} =>
                           status'[job'[j].event] \notin {"absent", "none"}
      BY DEF Looks
  <2>1. CASE job'[j] = job[j]
      BY <2>1 DEF Looks, Working, Wake
  <2>2. CASE job'[j] # job[j]
      BY <2>2, <1>3
  <2>. QED BY <2>1, <2>2
<1>6. FailedForGood' /\ RowsAreReadable'
    BY DEF Wake, FailedForGood, RowsAreReadable
<1>7. ObjectFirst'
    BY DEF Wake, ObjectFirst
<1>8. NobodyWaits'
  <2> SUFFICES ASSUME failures = 0, NEW e \in Events, status[e] = "pending",
                      Frames[e] # {}, Frames[e] \subseteq rows \cap Mapped
               PROVE  WillBeSeen(e)'
      BY DEF NobodyWaits, Wake
  <2>1. CASE e \in waiting
      BY <1>4, <2>1 DEF WillBeSeen, JobsOf
  <2>2. CASE e \notin waiting /\ UploadOf[u] \in Frames[e]
    <3>1. PICK j \in JobsOf(e) : job[j].step = "queued"
        BY <2>2 DEF Waits
    <3>2. job'[j] = job[j]
        BY <1>2, <3>1 DEF JobsOf, Working
    <3>. QED BY <3>1, <3>2 DEF WillBeSeen, JobsOf
  <2>3. CASE UploadOf[u] \notin Frames[e]
    <3>1. WillBeSeen(e)
        BY DEF NobodyWaits
    <3>2. CASE \E j \in JobsOf(e) : job[j].step = "read" => Frames[e] \subseteq job[j].seen
      <4>1. PICK j \in JobsOf(e) : job[j].step = "read" => Frames[e] \subseteq job[j].seen
          BY <3>2
      <4>2. job'[j] = job[j]
          BY <1>2, <4>1 DEF JobsOf, Working
      <4>. QED BY <4>1, <4>2 DEF WillBeSeen, JobsOf
    <3>3. CASE \E v \in Uploads : upload[v] = "wake" /\ UploadOf[v] \in Frames[e]
        BY <2>3, <3>3 DEF WillBeSeen, Wake
    <3>. QED BY <3>1, <3>2, <3>3 DEF WillBeSeen
  <2>. QED BY <2>1, <2>2, <2>3
<1>. QED BY <1>5, <1>6, <1>7, <1>8 DEF Rest

\* A job that changes alone leaves the others, and what they will see, alone.
LEMMA OthersSee ==
  ASSUME NEW j \in Jobs, NEW e \in Events, WillBeSeen(e),
         \A k \in Jobs : k # j => job'[k] = job[k],
         upload' = upload,
         j \notin JobsOf(e) \/ ~(job[j].step = "read" => Frames[e] \subseteq job[j].seen)
  PROVE  WillBeSeen(e)'
<1>1. CASE \E k \in JobsOf(e) : job[k].step = "read" => Frames[e] \subseteq job[k].seen
  <2>1. PICK k \in JobsOf(e) : job[k].step = "read" => Frames[e] \subseteq job[k].seen
      BY <1>1
  <2>2. k # j /\ k \in Jobs
      BY <2>1 DEF JobsOf
  <2>. QED BY <2>1, <2>2 DEF WillBeSeen, JobsOf
<1>2. CASE \E u \in Uploads : upload[u] = "wake" /\ UploadOf[u] \in Frames[e]
    BY <1>2 DEF WillBeSeen
<1>. QED BY <1>1, <1>2 DEF WillBeSeen

\* A job on its way to the catalog, or away from it without a failure.
LEMMA JobStep ==
  ASSUME StackInv, StackTypeOK', NEW j \in Jobs, Claim(j) \/ PublishWait(j) \/ GetMapRows(j)
  PROVE  Rest'
<1> USE StackAssumption DEF StackInv, StackTypeOK
<1> DEFINE e == job[j].event
<1>1. e \in Events
    BY DEF Looks, Working, Claim, PublishWait, GetMapRows
<1>2. /\ \A k \in Jobs : k # j => job'[k] = job[k]
      /\ job'[j].event = e
      /\ job'[j].step \in {"claimed", "published", "read"}
      /\ job'[j].step = "read" => /\ job[j].step = "published"
                                  /\ job'[j].seen = rows \cap Frames[e]
      /\ job'[j].step = "published" => job[j].step = "claimed" /\ PublishWait(j)
  <2>1. CASE Claim(j)
      BY <2>1 DEF Claim
  <2>2. CASE PublishWait(j)
      BY <2>2 DEF PublishWait
  <2>3. CASE GetMapRows(j)
    <3>1. job' = [job EXCEPT ![j] = [job[j] EXCEPT !.step = "read", !.seen = rows \cap Frames[e]]]
        BY <2>3 DEF GetMapRows
    <3>2. job'[j] = [job[j] EXCEPT !.step = "read", !.seen = rows \cap Frames[e]]
        BY <3>1
    <3>3. ASSUME NEW s PROVE LET r == [job[j] EXCEPT !.step = "read", !.seen = s]
                             IN  r.event = e /\ r.step = "read" /\ r.seen = s
        OBVIOUS
    <3>. QED BY <2>3, <3>1, <3>2, <3>3 DEF GetMapRows
  <2>. QED BY <2>1, <2>2, <2>3
<1>3. UNCHANGED <<rows, objects, upload, failures>>
    BY DEF Claim, PublishWait, GetMapRows
<1>4. /\ \A x \in Events : x # e => status'[x] = status[x]
      /\ status'[e] # status[e] => PublishWait(j) /\ status'[e] = "pending"
      /\ PublishWait(j) => status'[e] \notin {"absent", "none"}
    BY <1>1 DEF Claim, PublishWait, GetMapRows, Recorded
<1>5. Looks'
  <2> SUFFICES ASSUME NEW k \in Jobs
               PROVE  /\ Working(k)' => job'[k].event \in Events
                      /\ job'[k].step = "read" => /\ job'[k].seen \subseteq rows'
                                                  /\ job'[k].seen \subseteq Frames[job'[k].event]
                      /\ job'[k].step \in {"published", "read"} =>
                           status'[job'[k].event] \notin {"absent", "none"}
      BY DEF Looks
  <2>1. CASE k # j
      BY <1>2, <1>3, <1>4, <2>1 DEF Looks, Working
  <2>2. CASE k = j
      BY <1>1, <1>2, <1>3, <1>4, <2>2 DEF Looks, Working
  <2>. QED BY <2>1, <2>2
<1>6. FailedForGood' /\ ObjectFirst' /\ RowsAreReadable'
    BY <1>1, <1>3, <1>4 DEF FailedForGood, ObjectFirst, RowsAreReadable
<1>7. NobodyWaits'
  <2> SUFFICES ASSUME failures = 0, NEW x \in Events, status'[x] = "pending",
                      Frames[x] # {}, Frames[x] \subseteq rows \cap Mapped
               PROVE  WillBeSeen(x)'
      BY <1>3 DEF NobodyWaits
  <2>1. CASE x = e
      BY <1>2, <2>1 DEF WillBeSeen, JobsOf
  <2>2. CASE x # e
    <3>1. WillBeSeen(x)
        BY <1>4, <2>2 DEF NobodyWaits
    <3>. QED BY <1>2, <1>3, <2>2, <3>1, OthersSee DEF JobsOf
  <2>. QED BY <2>1, <2>2
<1>. QED BY <1>5, <1>6, <1>7 DEF Rest

\* A job that is tried again is queued for its event, or gone.
LEMMA AgainIs ==
  ASSUME StackTypeOK, NEW j \in Jobs
  PROVE  /\ \A k \in Jobs : k # j => Again(j)[k] = job[k]
         /\ \/ Again(j)[j] = FreeRow
            \/ Again(j)[j].event = job[j].event /\ Again(j)[j].step = "queued"
<1> USE DEF StackTypeOK
<1>1. \A k \in Jobs : k # j => Again(j)[k] = job[k]
    BY DEF Again
<1>2. CASE job[j].attempts + 1 < MaxResolves
  <2>1. Again(j)[j] = [FreeRow EXCEPT !.event = job[j].event, !.step = "queued",
                                      !.attempts = job[j].attempts + 1]
      BY <1>2 DEF Again
  <2>2. ASSUME NEW n, NEW x PROVE
          /\ [FreeRow EXCEPT !.event = x, !.step = "queued", !.attempts = n].event = x
          /\ [FreeRow EXCEPT !.event = x, !.step = "queued", !.attempts = n].step = "queued"
      BY DEF FreeRow
  <2>. QED BY <1>1, <2>1, <2>2
<1>3. CASE ~(job[j].attempts + 1 < MaxResolves)
  <2>1. Again(j)[j] = FreeRow
      BY <1>3 DEF Again
  <2>. QED BY <1>1, <2>1
<1>. QED BY <1>2, <1>3

\* An attempt parks its stack only when it missed a map of it, and then it was
\* not the one by which the stack would be seen.
LEMMA SettleStep ==
  ASSUME StackInv, StackTypeOK', NEW j \in Jobs, Settle(j) PROVE Rest'
<1> USE StackAssumption DEF StackInv, StackTypeOK
<1> DEFINE e == job[j].event
           seen == job[j].seen
<1>1. /\ e \in Events /\ seen \subseteq rows /\ seen \subseteq Frames[e]
      /\ job[j].step = "read" /\ status[e] \notin {"absent", "none"}
    BY DEF Looks, Working, Settle
<1>2. PICK read \in SUBSET seen :
        /\ IF read \in Reads(seen) THEN UNCHANGED failures ELSE Fails
        /\ IF Outcome(j, read) = "failed"
           THEN /\ job' = Again(j)
                /\ status' = Recorded(e, IF job[j].attempts + 1 < MaxResolves
                                         THEN "failed" ELSE "no_map")
           ELSE /\ job' = [job EXCEPT ![j] = FreeRow]
                /\ status' = Recorded(e, Outcome(j, read))
    BY DEF Settle
<1>3. UNCHANGED <<rows, objects, upload>>
    BY DEF Settle
<1>4. failures' = 0 => failures = 0 /\ read = seen
  <2>1. CASE read \in Reads(seen)
    <3>1. failures' = failures
        BY <1>2, <2>1
    <3>2. seen \cap objects \subseteq read
        BY <2>1 DEF Reads
    <3>. QED BY <1>1, <1>2, <3>1, <3>2 DEF RowsAreReadable
  <2>2. CASE read \notin Reads(seen)
    <3>1. failures' = failures + 1
        BY <1>2, <2>2 DEF Fails
    <3>. QED BY <3>1
  <2>. QED BY <2>1, <2>2
<1>5. /\ \A k \in Jobs : k # j => job'[k] = job[k]
      /\ \/ job'[j] = FreeRow
         \/ /\ Outcome(j, read) = "failed"
            /\ job'[j].event = e /\ job'[j].step = "queued"
  <2>1. \A k \in Jobs : k # j => job'[k] = job[k]
      BY <1>2 DEF Again
  <2>3. CASE Outcome(j, read) = "failed"
      BY <1>2, <2>3, AgainIs
  <2>4. CASE Outcome(j, read) # "failed"
      BY <1>2, <2>4
  <2>. QED BY <2>1, <2>3, <2>4
<1>6. FreeRow.step = "free" /\ "free" \notin {"queued", "published", "read"}
    BY DEF FreeRow
<1>7. /\ Outcome(j, read) = "failed" => Resolved(read) = {} /\ Frames[e] # {} /\ seen # {}
      /\ Outcome(j, read) = "pending" /\ read = seen =>
           ~(Frames[e] \subseteq seen /\ Frames[e] \subseteq Mapped)
      /\ Outcome(j, read) \in {"failed", "no_map", "pending", "resolved"}
  <2>1. CASE Frames[e] = {}
      BY <2>1 DEF Outcome
  <2>2. CASE Frames[e] # {} /\ seen = {}
      BY <2>2 DEF Outcome
  <2>3. CASE Frames[e] # {} /\ seen # {} /\ Resolved(read) = Frames[e]
      BY <2>3 DEF Outcome
  <2>4. CASE Frames[e] # {} /\ seen # {} /\ Resolved(read) # Frames[e] /\ Resolved(read) = {}
      BY <2>4 DEF Outcome
  <2>5. CASE Frames[e] # {} /\ seen # {} /\ Resolved(read) # Frames[e] /\ Resolved(read) # {}
    <3>1. Outcome(j, read) = "pending"
        BY <2>5 DEF Outcome
    <3>2. read = seen => ~(Frames[e] \subseteq seen /\ Frames[e] \subseteq Mapped)
        BY <1>1, <2>5 DEF Resolved
    <3>. QED BY <3>1, <3>2
  <2>. QED BY <2>1, <2>2, <2>3, <2>4, <2>5
<1>8. /\ \A x \in Events : x # e => status'[x] = status[x]
      /\ status'[e] \notin {"absent", "none"}
      /\ status'[e] = "pending" =>
           status[e] \in {"pending", "failed"} /\ Outcome(j, read) = "pending"
      /\ status'[e] = "failed" => Outcome(j, read) = "failed"
  <2>1. CASE Outcome(j, read) = "failed"
    <3>1. PICK s \in {"failed", "no_map"} : status' = Recorded(e, s)
        BY <1>2, <2>1
    <3>. QED BY <1>1, <2>1, <3>1 DEF Recorded
  <2>2. CASE Outcome(j, read) # "failed"
    <3>1. PICK s \in {"no_map", "pending", "resolved"} :
            s = Outcome(j, read) /\ status' = Recorded(e, s)
        BY <1>2, <1>7, <2>2
    <3>. QED BY <1>1, <2>2, <3>1 DEF Recorded
  <2>. QED BY <2>1, <2>2
<1>9. Looks'
  <2> SUFFICES ASSUME NEW k \in Jobs
               PROVE  /\ Working(k)' => job'[k].event \in Events
                      /\ job'[k].step = "read" => /\ job'[k].seen \subseteq rows'
                                                  /\ job'[k].seen \subseteq Frames[job'[k].event]
                      /\ job'[k].step \in {"published", "read"} =>
                           status'[job'[k].event] \notin {"absent", "none"}
      BY DEF Looks
  <2>1. CASE k # j
      BY <1>3, <1>5, <1>8, <2>1 DEF Looks, Working
  <2>2. CASE k = j
      BY <1>1, <1>5, <1>6, <2>2 DEF Working
  <2>. QED BY <2>1, <2>2
<1>10. FailedForGood'
  <2> SUFFICES ASSUME failures' = 0, NEW x \in Events, status'[x] = "failed",
                      Frames[x] \subseteq Mapped
               PROVE  FALSE
      BY DEF FailedForGood
  <2>1. CASE x # e
      BY <1>4, <1>8, <2>1 DEF FailedForGood
  <2>2. CASE x = e
      BY <1>1, <1>4, <1>7, <1>8, <2>2 DEF Resolved
  <2>. QED BY <2>1, <2>2
<1>11. ObjectFirst' /\ RowsAreReadable'
    BY <1>3, <1>4 DEF ObjectFirst, RowsAreReadable
<1>12. NobodyWaits'
  <2> SUFFICES ASSUME failures' = 0, NEW x \in Events, status'[x] = "pending",
                      Frames[x] # {}, Frames[x] \subseteq rows \cap Mapped
               PROVE  WillBeSeen(x)'
      BY <1>3 DEF NobodyWaits
  <2>1. CASE x # e
    <3>1. WillBeSeen(x)
        BY <1>4, <1>8, <2>1 DEF NobodyWaits
    <3>. QED BY <1>3, <1>5, <2>1, <3>1, OthersSee DEF JobsOf
  <2>2. CASE x = e
    <3>1. status[e] = "pending"
        BY <1>4, <1>8, <2>2 DEF FailedForGood
    <3>2. WillBeSeen(e)
        BY <1>4, <2>2, <3>1 DEF NobodyWaits
    <3>3. ~(Frames[e] \subseteq seen)
        BY <1>4, <1>7, <1>8, <2>2
    <3>. QED BY <1>1, <1>3, <1>5, <2>2, <3>2, <3>3, OthersSee
  <2>. QED BY <2>1, <2>2
<1>. QED BY <1>9, <1>10, <1>11, <1>12 DEF Rest

\* The steps that end, begin or disturb an attempt from outside.
LEMMA OtherStep ==
  ASSUME StackInv, StackTypeOK',
         \/ \E j \in Jobs : Lapse(j)
         \/ \E d \in DebugIds : ObjectLost(d)
         \/ \E e \in Events : Sweep(e)
         \/ \E e \in Events, j \in Jobs : Capture(e, j)
  PROVE  Rest'
<1> USE StackAssumption DEF StackInv, StackTypeOK
<1>1. ASSUME NEW j \in Jobs, Lapse(j) PROVE Rest'
  <2>1. failures' # 0
      BY <1>1 DEF Lapse, Fails
  <2>2. /\ \A k \in Jobs : k # j => job'[k] = job[k]
        /\ job'[j] = FreeRow \/ (job'[j].event = job[j].event /\ job'[j].step = "queued")
    <3>1. job' = Again(j)
        BY <1>1 DEF Lapse
    <3>. QED BY <3>1, AgainIs
  <2>3. job[j].event \in Events /\ UNCHANGED <<rows, status>>
      BY <1>1 DEF Lapse, Looks, Working
  <2>4. FreeRow.step = "free"
      BY DEF FreeRow
  <2>5. Looks'
    <3> SUFFICES ASSUME NEW k \in Jobs
                 PROVE  /\ Working(k)' => job'[k].event \in Events
                        /\ job'[k].step = "read" => /\ job'[k].seen \subseteq rows'
                                                    /\ job'[k].seen \subseteq Frames[job'[k].event]
                        /\ job'[k].step \in {"published", "read"} =>
                             status'[job'[k].event] \notin {"absent", "none"}
        BY DEF Looks
    <3>1. CASE k # j
        BY <2>2, <2>3, <3>1 DEF Looks, Working
    <3>2. CASE k = j
        BY <2>2, <2>3, <2>4, <3>2 DEF Working
    <3>. QED BY <3>1, <3>2
  <2>. QED BY <2>1, <2>5 DEF Rest, FailedForGood, ObjectFirst, RowsAreReadable, NobodyWaits
<1>2. ASSUME NEW d \in DebugIds, ObjectLost(d) PROVE Rest'
    BY <1>2 DEF ObjectLost, Fails, Rest, Looks, Working, FailedForGood, ObjectFirst,
                RowsAreReadable, NobodyWaits
<1>3. ASSUME NEW e \in Events, Sweep(e) PROVE Rest'
  <2>1. Looks'
      BY <1>3 DEF Sweep, Looks, Working
  <2>2. FailedForGood' /\ ObjectFirst' /\ RowsAreReadable'
      BY <1>3 DEF Sweep, FailedForGood, ObjectFirst, RowsAreReadable
  <2>3. NobodyWaits'
      BY <1>3 DEF Sweep, NobodyWaits, WillBeSeen, JobsOf
  <2>. QED BY <2>1, <2>2, <2>3 DEF Rest
<1>4. ASSUME NEW e \in Events, NEW j \in Jobs, Capture(e, j) PROVE Rest'
  <2>1. /\ \A k \in Jobs : k # j => job'[k] = job[k]
        /\ job'[j].event = e /\ job'[j].step = "queued"
        /\ job[j].step = "free"
    <3>1. job' = [job EXCEPT ![j] = [FreeRow EXCEPT !.event = e, !.step = "queued"]]
        BY <1>4 DEF Capture
    <3>2. job'[j] = [FreeRow EXCEPT !.event = e, !.step = "queued"]
        BY <3>1
    <3>3. /\ [FreeRow EXCEPT !.event = e, !.step = "queued"].event = e
          /\ [FreeRow EXCEPT !.event = e, !.step = "queued"].step = "queued"
          /\ FreeRow.step = "free"
        BY DEF FreeRow
    <3>4. \A k \in Jobs : k # j => job'[k] = job[k]
        BY <3>1
    <3>. QED BY <1>4, <3>2, <3>3, <3>4 DEF Capture
  <2>2. /\ UNCHANGED <<rows, objects, upload, failures>>
        /\ status[e] = "absent" /\ status'[e] = "none"
        /\ \A x \in Events : x # e => status'[x] = status[x]
      BY <1>4, ZenonT(60) DEF Capture
  <2>3. Looks'
    <3> SUFFICES ASSUME NEW k \in Jobs
                 PROVE  /\ Working(k)' => job'[k].event \in Events
                        /\ job'[k].step = "read" => /\ job'[k].seen \subseteq rows'
                                                    /\ job'[k].seen \subseteq Frames[job'[k].event]
                        /\ job'[k].step \in {"published", "read"} =>
                             status'[job'[k].event] \notin {"absent", "none"}
        BY DEF Looks
    <3>1. CASE k # j
        BY <2>1, <2>2, <3>1 DEF Looks, Working
    <3>2. CASE k = j
        BY <2>1, <3>2 DEF Working
    <3>. QED BY <3>1, <3>2
  <2>4. FailedForGood' /\ ObjectFirst' /\ RowsAreReadable'
      BY <2>2 DEF FailedForGood, ObjectFirst, RowsAreReadable
  <2>5. NobodyWaits'
    <3> SUFFICES ASSUME failures = 0, NEW x \in Events, status'[x] = "pending",
                        Frames[x] # {}, Frames[x] \subseteq rows \cap Mapped
                 PROVE  WillBeSeen(x)'
        BY <2>2 DEF NobodyWaits
    <3>1. x # e /\ WillBeSeen(x)
        BY <2>2 DEF NobodyWaits
    <3>2. j \notin JobsOf(x)
        BY <2>1 DEF JobsOf
    <3>. QED BY <2>1, <2>2, <3>1, <3>2, OthersSee
  <2>. QED BY <2>3, <2>4, <2>5 DEF Rest
<1>. QED BY <1>1, <1>2, <1>3, <1>4

\* The invariant holds initially.
LEMMA StackInitInv == StackInit => StackInv
<1> SUFFICES ASSUME StackInit PROVE StackInv
    OBVIOUS
<1>1. StackTypeOK
    BY FreeIsRow DEF StackInit, StackTypeOK, Row
<1>2. Looks
    BY DEF StackInit, Looks, Working, FreeRow
<1>3. FailedForGood /\ ObjectFirst /\ RowsAreReadable /\ NobodyWaits
    BY DEF StackInit, FailedForGood, ObjectFirst, RowsAreReadable, NobodyWaits
<1>. QED BY <1>1, <1>2, <1>3 DEF StackInv

\* Every step keeps it.
LEMMA StackStepInv == StackInv /\ [StackNext]_stackVars => StackInv'
<1> SUFFICES ASSUME StackInv, [StackNext]_stackVars PROVE StackInv'
    OBVIOUS
<1>1. StackTypeOK'
    BY TypeStep DEF StackInv
<1>2. Rest'
  <2>1. CASE UNCHANGED stackVars
      BY <2>1 DEF stackVars, StackInv, Rest, Looks, Working, FailedForGood, ObjectFirst,
                  RowsAreReadable, NobodyWaits, WillBeSeen, JobsOf
  <2>2. CASE StackNext
      BY <1>1, <2>2, UploadStep, WakeStep, JobStep, SettleStep, OtherStep DEF StackNext
  <2>. QED BY <2>1, <2>2
<1>. QED BY <1>1, <1>2 DEF StackInv, Rest

\* Uploads and resolutions do not miss each other: UploadSourceMap stores the map
\* before it looks for stacks that wait, runStackResolve publishes the wait before
\* it looks for maps, and no stack is left waiting for maps that have arrived.
THEOREM ResolutionAgreesHolds == StackSpec => []ResolutionAgrees
<1>1. StackInit => StackInv
    BY StackInitInv
<1>2. StackInv /\ [StackNext]_stackVars => StackInv'
    BY StackStepInv
<1>3. StackInv => ResolutionAgrees
    BY DEF StackInv, ResolutionAgrees
<1>. QED BY <1>1, <1>2, <1>3, PTL DEF StackSpec

-----------------------------------------------------------------------------
(* The route map describes the connected repository, for finitely many of   *)
(* them and any routes, workers and bounds.                                  *)
(*                                                                           *)
(* Freshness at rest is not inductive.  While a refresh is queued or running  *)
(* a row that is not fresh is one the refresh will look at, or one a push    *)
(* under way will tell of (Covered); and while a worker asks the model, what *)
(* it cloned and what it left out stay right as long as its lease does       *)
(* (AskedWell), since whatever makes them wrong queues the refresh anew.     *)

(* A push to the connected repository that changed the route's file and was not  *)
(* handled; the row of a route is fresh; or it is not, and a push will tell.     *)
Announced(p) ==
  \E w \in pushes : w.repo = linked /\ <<w.repo, w.id>> \notin receipts /\ p \in w.changed
RowFresh(p) ==
  routeMap[p] # NoRepo => routeMap[p].repo = linked /\ routeMap[p].commit >= changedAt[linked][p]
Accounted(p) == RowFresh(p) \/ Announced(p)

(* The worker holds the lease of the refresh. *)
Refreshes(w) ==
  ctxRun[w] # NoRun /\ ctxRun[w].kind = "product_context" /\ HoldsJob(w)

(* Commits are numbered, a webhook is one commit's, and who may try again has an *)
(* attempt left.                                                                 *)
Numbered ==
  /\ \A r \in Repositories : \A p \in CtxRoutes : changedAt[r][p] <= head[r]
  /\ \A r \in Repositories, n \in 1..MaxPushes : <<r, n>> \in receipts => n <= head[r]
  /\ \A w \in pushes : w.id <= head[w.repo]
  /\ \A v, w \in pushes : v.repo = w.repo /\ v.id = w.id => v = w
  /\ \A k \in ContextKinds : ContextActive(k) => ctxJobs[k].attempts < MaxCtxAttempts

(* A route is accounted for, or the refresh that is queued or running will look  *)
(* at it; what its worker then found is of the connected repository, and old     *)
(* only where a push will tell; and what it was not asked about is accounted for. *)
Covered ==
  \A p \in CtxRoutes \ tainted :
    Accounted(p) \/ (ContextActive("product_context") /\ p \in ctxJobs["product_context"].changed)
AskedWell(w) ==
  /\ ctxRun[w].at = "ask" =>
       /\ ctxRun[w].repo = linked
       /\ \A p \in CtxRoutes : ctxRun[w].commit >= changedAt[linked][p] \/ Announced(p)
       /\ \A p \in CtxRoutes \ tainted : p \notin ctxRun[w].routes => Accounted(p)
  /\ ctxRun[w].at = "settle" => \A p \in CtxRoutes \ tainted : Accounted(p)
RefreshCovers ==
  linked # NoRepo => Covered /\ \A w \in CtxWorkers : Refreshes(w) => AskedWell(w)

CtxInv == ContextTypeOK /\ Numbered /\ RefreshCovers

JobRows == [status : {"none", "pending", "claimed", "completed", "dead"},
            gen : 0..MaxCtxClaims, owner : CtxWorkers \union {NoRepo},
            attempts : 0..MaxCtxAttempts, changed : SUBSET CtxRoutes]
Runs == {NoRun}
          \union [kind : ContextKinds, gen : 1..MaxCtxClaims, at : {"prepare", "settle"}]
          \union [kind : ContextKinds, gen : 1..MaxCtxClaims, at : {"ask"},
                  repo : Repositories, commit : Commits, routes : SUBSET CtxRoutes]

-----------------------------------------------------------------------------
(* Types of the rows of the job queue and of what the workers do. *)
LEMMA CtxTypes ==
  ContextTypeOK =>
    /\ linked \in Repositories \union {NoRepo} /\ switches \in 0..MaxSwitches
    /\ head \in [Repositories -> Commits] /\ changedAt \in [Repositories -> [CtxRoutes -> Commits]]
    /\ pushes \subseteq Webhooks /\ receipts \subseteq Repositories \X (1..MaxPushes)
    /\ ctxJobs \in [ContextKinds -> JobRows] /\ ctxRun \in [CtxWorkers -> Runs]
    /\ \A k \in ContextKinds : (ctxJobs[k].status = "claimed") <=> (ctxJobs[k].owner # NoRepo)
    /\ routeMap \in [CtxRoutes -> {NoRepo} \union [repo : Repositories, commit : Commits]]
    /\ tainted \subseteq CtxRoutes
    /\ NoRepo \notin Repositories /\ NoRepo \notin CtxWorkers
    /\ {MaxPushes, MaxSwitches, MaxCtxClaims} \subseteq Nat /\ MaxCtxAttempts \in Nat \ {0}
BY ContextConstants DEF ContextTypeOK, JobRows, Runs

(* Who is told to wait, to ask or to settle has a job. *)
LEMMA RunTyped ==
  ASSUME ContextTypeOK, NEW w \in CtxWorkers, ctxRun[w] # NoRun
  PROVE  /\ ctxRun[w].kind \in ContextKinds /\ ctxRun[w].gen \in 1..MaxCtxClaims
         /\ ctxRun[w].at = "ask" => /\ ctxRun[w].repo \in Repositories /\ ctxRun[w].commit \in Commits
                                    /\ ctxRun[w].routes \in SUBSET CtxRoutes
BY CtxTypes DEF Runs

(* A row is written. *)
LEMMA RowWritten ==
  ASSUME ContextTypeOK, NEW k \in ContextKinds, NEW j \in JobRows,
         ctxJobs' = [ctxJobs EXCEPT ![k] = j], (j.status = "claimed") <=> (j.owner # NoRepo),
         j.status \in {"pending", "claimed"} => j.attempts < MaxCtxAttempts,
         \A l \in ContextKinds : ContextActive(l) => ctxJobs[l].attempts < MaxCtxAttempts
  PROVE  /\ ctxJobs' \in [ContextKinds -> JobRows] /\ ctxJobs'[k] = j
         /\ \A l \in ContextKinds \ {k} : ctxJobs'[l] = ctxJobs[l]
         /\ \A l \in ContextKinds : (ctxJobs'[l].status = "claimed") <=> (ctxJobs'[l].owner # NoRepo)
         /\ \A l \in ContextKinds :
              ctxJobs'[l].status \in {"pending", "claimed"} => ctxJobs'[l].attempts < MaxCtxAttempts
<1>1. /\ ctxJobs' \in [ContextKinds -> JobRows] /\ ctxJobs'[k] = j
      /\ \A l \in ContextKinds \ {k} : ctxJobs'[l] = ctxJobs[l]
    BY CtxTypes
<1>. QED BY <1>1, CtxTypes DEF ContextActive

LEMMA FreshTyped ==
  ASSUME ContextTypeOK, NEW k \in ContextKinds, NEW changed \in SUBSET CtxRoutes
  PROVE  /\ FreshJob(k, changed) \in JobRows /\ FreshJob(k, changed).status = "pending"
         /\ FreshJob(k, changed).owner = NoRepo /\ FreshJob(k, changed).attempts = 0
         /\ FreshJob(k, changed).changed = changed
<1>1. ctxJobs[k] \in JobRows /\ 0 \in 0..MaxCtxAttempts
    BY CtxTypes
<1>. QED BY <1>1 DEF FreshJob, JobRows

(* A refresh is queued, and no worker has its lease any more. *)
LEMMA RefreshQueued ==
  ASSUME CtxInv, NEW changed \in SUBSET CtxRoutes, ctxJobs' = Refreshed(changed)
  PROVE  /\ ctxJobs' \in [ContextKinds -> JobRows]
         /\ \A l \in ContextKinds : (ctxJobs'[l].status = "claimed") <=> (ctxJobs'[l].owner # NoRepo)
         /\ \A l \in ContextKinds :
              ctxJobs'[l].status \in {"pending", "claimed"} => ctxJobs'[l].attempts < MaxCtxAttempts
         /\ ctxJobs'["product_context"].status = "pending"
         /\ ctxJobs'["product_context"].changed =
              IF ContextActive("product_context") THEN CtxRoutes ELSE changed
<1> DEFINE asked == IF ContextActive("product_context") THEN CtxRoutes ELSE changed
           j == FreshJob("product_context", asked)
<1>1. "product_context" \in ContextKinds /\ asked \in SUBSET CtxRoutes /\ ContextTypeOK
    BY DEF ContextKinds, CtxInv
<1>2. /\ j \in JobRows /\ j.status = "pending" /\ j.owner = NoRepo /\ j.attempts = 0 /\ j.changed = asked
    BY <1>1, FreshTyped
<1>3. ctxJobs' = [ctxJobs EXCEPT !["product_context"] = j]
    BY DEF Refreshed
<1>4. 0 < MaxCtxAttempts
    BY <1>1, CtxTypes
<1> HIDE DEF j
<1>. QED BY <1>1, <1>2, <1>3, <1>4, RowWritten DEF CtxInv, Numbered

(* Steps of the job rows and the workers, which touch neither the rows of the    *)
(* route map nor what is on GitHub.                                              *)
LEMMA JobsMove ==
  ASSUME CtxInv, UNCHANGED <<linked, switches, head, changedAt, pushes, receipts, routeMap>>,
         tainted \subseteq tainted', tainted' \subseteq CtxRoutes,
         ctxJobs' \in [ContextKinds -> JobRows], ctxRun' \in [CtxWorkers -> Runs],
         \A k \in ContextKinds : (ctxJobs'[k].status = "claimed") <=> (ctxJobs'[k].owner # NoRepo),
         \A k \in ContextKinds :
           ctxJobs'[k].status \in {"pending", "claimed"} => ctxJobs'[k].attempts < MaxCtxAttempts,
         linked # NoRepo => \A p \in CtxRoutes \ tainted' :
           Accounted(p) \/ (/\ ctxJobs'["product_context"].status \in {"pending", "claimed"}
                            /\ p \in ctxJobs'["product_context"].changed),
         linked # NoRepo => \A w \in CtxWorkers : Refreshes(w)' =>
           \/ Refreshes(w) /\ ctxRun'[w] = ctxRun[w]
           \/ ctxRun'[w].at = "prepare"
           \/ /\ ctxRun'[w].at = "ask" /\ ctxRun'[w].repo = linked
              /\ ctxRun'[w].commit = head[linked]
              /\ \A p \in CtxRoutes \ tainted : p \notin ctxRun'[w].routes => Accounted(p)
  PROVE  CtxInv'
<1>1. ContextTypeOK'
    BY CtxTypes DEF CtxInv, ContextTypeOK, JobRows, Runs
<1>2. Numbered'
    BY DEF CtxInv, Numbered, ContextActive
<1>3. \A p : (Announced(p)' <=> Announced(p)) /\ (Accounted(p)' <=> Accounted(p))
    BY DEF Announced, RowFresh, Accounted
<1>4. ASSUME linked # NoRepo PROVE Covered'
    BY <1>3, <1>4 DEF Covered, ContextActive
<1>5. ASSUME linked # NoRepo, NEW w \in CtxWorkers, Refreshes(w)' PROVE AskedWell(w)'
  <2>1. CASE Refreshes(w) /\ ctxRun'[w] = ctxRun[w]
      BY <1>3, <1>5, <2>1 DEF CtxInv, RefreshCovers, AskedWell
  <2>2. CASE ctxRun'[w].at = "prepare"
      BY <2>2 DEF AskedWell
  <2>3. CASE /\ ctxRun'[w].at = "ask" /\ ctxRun'[w].repo = linked
             /\ ctxRun'[w].commit = head[linked]
             /\ \A p \in CtxRoutes \ tainted : p \notin ctxRun'[w].routes => Accounted(p)
    <3>1. linked \in Repositories
        BY <1>5, CtxTypes DEF CtxInv
    <3>2. \A p \in CtxRoutes : ctxRun'[w].commit >= changedAt[linked][p]
        BY <2>3, <3>1, CtxTypes DEF CtxInv, Numbered, Commits
    <3>. QED BY <1>3, <2>3, <3>2 DEF AskedWell
  <2>. QED BY <1>5, <2>1, <2>2, <2>3
<1>. QED BY <1>1, <1>2, <1>4, <1>5 DEF CtxInv, RefreshCovers

-----------------------------------------------------------------------------
(* The steps. *)

LEMMA CtxStarts == ContextInit => CtxInv
<1> SUFFICES ASSUME ContextInit PROVE CtxInv
    OBVIOUS
<1>1. /\ {MaxPushes, MaxSwitches, MaxCtxClaims} \subseteq Nat /\ MaxCtxAttempts \in Nat \ {0}
      /\ 0 \in 0..MaxPushes /\ 0 \in 0..MaxCtxClaims /\ 0 \in 0..MaxCtxAttempts /\ 0 \in 0..MaxSwitches
    BY ContextConstants
<1>2. /\ linked = NoRepo /\ switches = 0 /\ head = [r \in Repositories |-> 0]
      /\ changedAt = [r \in Repositories |-> [p \in CtxRoutes |-> 0]]
      /\ pushes = {} /\ receipts = {} /\ tainted = {}
      /\ ctxRun = [w \in CtxWorkers |-> NoRun] /\ routeMap = [p \in CtxRoutes |-> NoRepo]
    BY DEF ContextInit
<1>3. /\ ctxJobs \in [ContextKinds -> JobRows]
      /\ \A k \in ContextKinds : ctxJobs[k].status = "none" /\ ctxJobs[k].owner = NoRepo
    BY <1>1 DEF ContextInit, JobRows
<1>4. ContextTypeOK
    BY <1>1, <1>2, <1>3 DEF ContextTypeOK, JobRows, Commits
<1>. QED BY <1>2, <1>3, <1>4 DEF CtxInv, Numbered, RefreshCovers, ContextActive

LEMMA SetKeeps ==
  ASSUME CtxInv, NEW r \in Repositories, SetProjectGitHubConfig(r)
  PROVE  CtxInv'
<1>1. /\ linked' = r /\ switches' \in 0..MaxSwitches
      /\ UNCHANGED <<head, changedAt, pushes, receipts, ctxRun, routeMap, tainted>>
    BY CtxTypes DEF SetProjectGitHubConfig, Switch, CtxInv
<1>2. CASE r = linked
  <2>1. UNCHANGED contextVars
      BY <1>1, <1>2 DEF SetProjectGitHubConfig, Switch, contextVars
  <2>. QED BY <2>1 DEF contextVars, CtxInv, ContextTypeOK, Numbered, RefreshCovers, Covered, AskedWell,
                       Accounted, Announced, RowFresh, Refreshes, HoldsJob, ContextActive
<1>3. CASE r # linked
  <2>1. ctxJobs' = Refreshed(CtxRoutes)
      BY <1>3 DEF SetProjectGitHubConfig
  <2>2. /\ ctxJobs' \in [ContextKinds -> JobRows]
        /\ \A l \in ContextKinds : (ctxJobs'[l].status = "claimed") <=> (ctxJobs'[l].owner # NoRepo)
        /\ \A l \in ContextKinds :
             ctxJobs'[l].status \in {"pending", "claimed"} => ctxJobs'[l].attempts < MaxCtxAttempts
        /\ ctxJobs'["product_context"].status = "pending"
        /\ ctxJobs'["product_context"].changed = CtxRoutes
      BY <2>1, RefreshQueued
  <2>3. ContextTypeOK'
      BY <1>1, <2>2, CtxTypes DEF CtxInv, ContextTypeOK, JobRows, Runs
  <2>4. Numbered'
      BY <1>1, <2>2 DEF CtxInv, Numbered, ContextActive
  <2>5. Covered'
      BY <2>2 DEF Covered, ContextActive
  <2>6. \A w \in CtxWorkers : ~Refreshes(w)'
      BY <1>1, <2>2 DEF Refreshes, HoldsJob
  <2>. QED BY <2>3, <2>4, <2>5, <2>6 DEF CtxInv, RefreshCovers
<1>. QED BY <1>2, <1>3

LEMMA ClearKeeps == ASSUME CtxInv, ClearProjectGitHubConfig PROVE CtxInv'
<1>1. /\ linked' = NoRepo /\ switches' \in 0..MaxSwitches
      /\ UNCHANGED <<head, changedAt, pushes, receipts, ctxJobs, ctxRun, routeMap, tainted>>
    BY CtxTypes DEF ClearProjectGitHubConfig, Switch, CtxInv
<1>2. ContextTypeOK'
    BY <1>1 DEF CtxInv, ContextTypeOK
<1>3. Numbered'
    BY <1>1 DEF CtxInv, Numbered, ContextActive
<1>. QED BY <1>1, <1>2, <1>3 DEF CtxInv, RefreshCovers

(* While fewer commits were pushed than the bound, so were to each repository. *)
LEMMA RoomToPush ==
  ASSUME ContextTypeOK, NEW r \in Repositories, Cardinality(PushesSoFar) < MaxPushes
  PROVE  head[r] < MaxPushes
<1>1. MaxPushes \in Nat /\ head[r] \in 0..MaxPushes /\ IsFiniteSet(Repositories)
    BY CtxTypes, ContextConstants DEF Commits
<1>2. IsFiniteSet(1..MaxPushes) /\ Cardinality(1..MaxPushes) = MaxPushes
  <2>1. 1 \in Int /\ MaxPushes \in Int
      BY <1>1
  <2>2. IsFiniteSet(1..MaxPushes)
        /\ Cardinality(1..MaxPushes) = IF 1 > MaxPushes THEN 0 ELSE MaxPushes - 1 + 1
      BY <2>1, FS_Interval
  <2>. QED BY <1>1, <2>2
<1>3. IsFiniteSet(Repositories \X (1..MaxPushes))
    BY <1>1, <1>2, FS_Product
<1>4. PushesSoFar \in SUBSET (Repositories \X (1..MaxPushes))
    BY DEF PushesSoFar
<1>5. IsFiniteSet(PushesSoFar) /\ Cardinality(PushesSoFar) \in Nat
    BY <1>3, <1>4, FS_Subset, FS_CardinalityType
<1>6. ASSUME head[r] = MaxPushes PROVE FALSE
  <2>1. IsFiniteSet({r}) /\ Cardinality({r}) = 1
      BY FS_Singleton
  <2>2. Cardinality({r} \X (1..MaxPushes)) = Cardinality({r}) * Cardinality(1..MaxPushes)
      BY <1>2, <2>1, FS_Product
  <2>3. Cardinality({r} \X (1..MaxPushes)) = MaxPushes
      BY <1>1, <1>2, <2>1, <2>2
  <2>4. {r} \X (1..MaxPushes) \in SUBSET PushesSoFar
      BY <1>1, <1>6 DEF PushesSoFar
  <2>5. Cardinality({r} \X (1..MaxPushes)) <= Cardinality(PushesSoFar)
      BY <1>5, <2>4, FS_Subset
  <2>. QED BY <1>1, <1>5, <2>3, <2>5
<1>. QED BY <1>1, <1>6

(* A push tells of every file that it changed. *)
LEMMA PushKeeps ==
  ASSUME CtxInv, NEW r \in Repositories, NEW files \in SUBSET CtxRoutes, NEW listed \in BOOLEAN,
         PushToDefault(r, files, listed)
  PROVE  CtxInv'
<1> DEFINE n == head[r] + 1
           hook == [repo |-> r, id |-> n, changed |-> IF listed THEN files ELSE CtxRoutes]
           dates == [p \in CtxRoutes |-> IF p \in files THEN n ELSE changedAt[r][p]]
<1>1. /\ head' = [head EXCEPT ![r] = n] /\ changedAt' = [changedAt EXCEPT ![r] = dates]
      /\ pushes' = pushes \union {hook} /\ Cardinality(PushesSoFar) < MaxPushes
      /\ UNCHANGED <<linked, switches, receipts, ctxJobs, ctxRun, routeMap, tainted>>
    BY DEF PushToDefault
<1>2. n \in 1..MaxPushes /\ n = head[r] + 1 /\ head[r] \in Nat /\ MaxPushes \in Nat
    BY <1>1, RoomToPush, CtxTypes DEF CtxInv, Commits
<1>3. /\ hook \in Webhooks /\ hook.repo = r /\ hook.id = n /\ files \subseteq hook.changed
      /\ dates \in [CtxRoutes -> Commits]
      /\ \A p \in CtxRoutes : dates[p] = IF p \in files THEN n ELSE changedAt[r][p]
    BY <1>2, CtxTypes DEF Webhooks, Commits, CtxInv
<1> HIDE DEF n, hook, dates
<1>4. /\ head' \in [Repositories -> Commits] /\ head'[r] = n
      /\ \A q \in Repositories \ {r} : head'[q] = head[q] /\ changedAt'[q] = changedAt[q]
      /\ changedAt' \in [Repositories -> [CtxRoutes -> Commits]] /\ changedAt'[r] = dates
    BY <1>1, <1>2, <1>3, CtxTypes DEF CtxInv, Commits
<1>5. ContextTypeOK'
    BY <1>1, <1>3, <1>4 DEF CtxInv, ContextTypeOK
<1>6. Numbered'
  <2>1. \A q \in Repositories : head[q] \in Nat /\ head'[q] \in Nat /\ head[q] <= head'[q]
      BY <1>2, <1>4, CtxTypes DEF CtxInv, Commits
  <2>2. \A q \in Repositories : \A p \in CtxRoutes : changedAt'[q][p] <= head'[q]
    <3> SUFFICES ASSUME NEW q \in Repositories, NEW p \in CtxRoutes PROVE changedAt'[q][p] <= head'[q]
        OBVIOUS
    <3>1. changedAt[q][p] \in Nat /\ changedAt[q][p] <= head[q]
        BY CtxTypes DEF CtxInv, Commits, Numbered
    <3>. QED BY <1>2, <1>3, <1>4, <2>1, <3>1
  <2>3. \A q \in Repositories, m \in 1..MaxPushes : <<q, m>> \in receipts' => m <= head'[q]
    <3> SUFFICES ASSUME NEW q \in Repositories, NEW m \in 1..MaxPushes, <<q, m>> \in receipts'
                 PROVE  m <= head'[q]
        OBVIOUS
    <3>1. m <= head[q] /\ m \in Nat
        BY <1>1, <1>2 DEF CtxInv, Numbered
    <3>. QED BY <2>1, <3>1
  <2>4. \A w \in pushes : w.repo \in Repositories /\ w.id \in Nat /\ w.id <= head[w.repo]
      BY <1>2, CtxTypes DEF CtxInv, Numbered, Webhooks
  <2>5. \A w \in pushes' : w.id <= head'[w.repo]
      BY <1>1, <1>2, <1>3, <1>4, <2>1, <2>4
  <2>6. \A w \in pushes : ~(w.repo = r /\ w.id = n)
      BY <1>2, <2>4
  <2>7. \A v, w \in pushes' : v.repo = w.repo /\ v.id = w.id => v = w
      BY <1>1, <1>3, <2>6 DEF CtxInv, Numbered
  <2>. QED BY <1>1, <2>2, <2>3, <2>5, <2>7 DEF CtxInv, Numbered, ContextActive
<1>7. ASSUME linked # NoRepo PROVE Covered' /\ \A w \in CtxWorkers : Refreshes(w)' => AskedWell(w)'
  <2>1. linked \in Repositories /\ linked' = linked
      BY <1>1, <1>7, CtxTypes DEF CtxInv
  <2>2. \A p : Announced(p) => Announced(p)'
      BY <1>1 DEF Announced
  <2>3. <<r, n>> \notin receipts
      BY <1>2 DEF CtxInv, Numbered
  <2>4. \A p \in CtxRoutes : changedAt'[linked][p] = changedAt[linked][p] \/ Announced(p)'
    <3> SUFFICES ASSUME NEW p \in CtxRoutes, changedAt'[linked][p] # changedAt[linked][p]
                 PROVE  Announced(p)'
        OBVIOUS
    <3>1. r = linked /\ p \in files
        BY <1>3, <1>4, <2>1
    <3>. QED BY <1>1, <1>3, <2>1, <2>3, <3>1 DEF Announced
  <2>5. \A p \in CtxRoutes : Accounted(p) => Accounted(p)'
      BY <1>1, <2>1, <2>2, <2>4 DEF Accounted, RowFresh
  <2>6. Covered'
      BY <1>1, <1>7, <2>5 DEF Covered, CtxInv, RefreshCovers, ContextActive, ContextTypeOK
  <2>7. ASSUME NEW w \in CtxWorkers, Refreshes(w)' PROVE AskedWell(w)'
    <3>1. Refreshes(w)
        BY <1>1, <2>7 DEF Refreshes, HoldsJob
    <3>2. AskedWell(w)
        BY <1>7, <3>1 DEF CtxInv, RefreshCovers
    <3>. QED BY <1>1, <2>1, <2>2, <2>4, <2>5, <3>2 DEF AskedWell
  <2>. QED BY <2>6, <2>7
<1>. QED BY <1>1, <1>5, <1>6, <1>7 DEF CtxInv, RefreshCovers

(* A handled push queues a refresh of what it told of. *)
LEMMA HandleKeeps ==
  ASSUME CtxInv, NEW v \in pushes, NEW again \in BOOLEAN, HandlePush(v, again)
  PROVE  CtxInv'
<1>1. /\ pushes' \subseteq pushes /\ pushes \ {v} \subseteq pushes'
      /\ UNCHANGED <<linked, switches, head, changedAt, ctxRun, routeMap, tainted>>
    BY DEF HandlePush
<1>2. v.repo \in Repositories /\ v.id \in 1..MaxPushes /\ v.changed \in SUBSET CtxRoutes
    BY CtxTypes DEF CtxInv, Webhooks
<1>3. CASE linked = v.repo /\ <<v.repo, v.id>> \notin receipts
  <2>1. receipts' = receipts \union {<<v.repo, v.id>>} /\ ctxJobs' = Refreshed(v.changed)
      BY <1>3 DEF HandlePush
  <2>2. /\ ctxJobs' \in [ContextKinds -> JobRows]
        /\ \A l \in ContextKinds : (ctxJobs'[l].status = "claimed") <=> (ctxJobs'[l].owner # NoRepo)
        /\ \A l \in ContextKinds :
             ctxJobs'[l].status \in {"pending", "claimed"} => ctxJobs'[l].attempts < MaxCtxAttempts
        /\ ctxJobs'["product_context"].status = "pending"
        /\ ctxJobs'["product_context"].changed =
             IF ContextActive("product_context") THEN CtxRoutes ELSE v.changed
      BY <1>2, <2>1, RefreshQueued
  <2>3. ContextTypeOK'
      BY <1>1, <1>2, <2>1, <2>2, CtxTypes DEF CtxInv, ContextTypeOK, JobRows, Runs
  <2>4. Numbered'
    <3>1. \A r \in Repositories, n \in 1..MaxPushes : <<r, n>> \in receipts' => n <= head'[r]
        BY <1>1, <2>1 DEF CtxInv, Numbered
    <3>. QED BY <1>1, <2>2, <3>1 DEF CtxInv, Numbered, ContextActive
  <2>5. Covered'
    <3> SUFFICES ASSUME NEW p \in CtxRoutes \ tainted, ~Accounted(p)', p \notin ctxJobs'["product_context"].changed
                 PROVE  FALSE
        BY <1>1, <2>2 DEF Covered, ContextActive
    <3>1. ~ContextActive("product_context") /\ p \notin v.changed
        BY <2>2
    <3>2. linked # NoRepo
        BY <1>2, <1>3, CtxTypes DEF CtxInv
    <3>3. Accounted(p)
        BY <3>1, <3>2 DEF CtxInv, RefreshCovers, Covered
    <3>4. RowFresh(p)' = RowFresh(p)
        BY <1>1 DEF RowFresh
    <3>5. PICK w \in pushes : w.repo = linked /\ <<w.repo, w.id>> \notin receipts /\ p \in w.changed
        BY <3>3, <3>4 DEF Accounted, Announced
    <3>6. w # v /\ w \in pushes' /\ <<w.repo, w.id>> # <<v.repo, v.id>>
        BY <1>1, <3>1, <3>5 DEF CtxInv, Numbered
    <3>. QED BY <1>1, <2>1, <3>5, <3>6 DEF Accounted, Announced
  <2>6. \A w \in CtxWorkers : ~Refreshes(w)'
      BY <1>1, <2>2 DEF Refreshes, HoldsJob
  <2>. QED BY <2>3, <2>4, <2>5, <2>6 DEF CtxInv, RefreshCovers
<1>4. CASE ~(linked = v.repo /\ <<v.repo, v.id>> \notin receipts)
  <2>1. UNCHANGED <<receipts, ctxJobs>>
      BY <1>4 DEF HandlePush
  <2>2. \A p : Announced(p) => Announced(p)'
      BY <1>1, <1>4, <2>1 DEF Announced
  <2>3. \A p : Accounted(p) => Accounted(p)'
      BY <1>1, <2>2 DEF Accounted, RowFresh
  <2>4. ContextTypeOK'
      BY <1>1, <2>1 DEF CtxInv, ContextTypeOK
  <2>5. Numbered'
      BY <1>1, <2>1 DEF CtxInv, Numbered, ContextActive
  <2>6. \A w \in CtxWorkers : Refreshes(w)' => Refreshes(w)
      BY <1>1, <2>1 DEF Refreshes, HoldsJob
  <2>7. ASSUME linked # NoRepo PROVE Covered' /\ \A w \in CtxWorkers : Refreshes(w)' => AskedWell(w)'
    <3>1. Covered'
        BY <1>1, <2>1, <2>3, <2>7 DEF CtxInv, RefreshCovers, Covered, ContextActive
    <3>2. ASSUME NEW w \in CtxWorkers, Refreshes(w)' PROVE AskedWell(w)'
      <4>1. AskedWell(w)
          BY <2>6, <2>7, <3>2 DEF CtxInv, RefreshCovers
      <4>. QED BY <1>1, <2>2, <2>3, <4>1 DEF AskedWell
    <3>. QED BY <3>1, <3>2
  <2>. QED BY <1>1, <2>4, <2>5, <2>7 DEF CtxInv, RefreshCovers
<1>. QED BY <1>3, <1>4

LEMMA EnqueueKeeps == ASSUME CtxInv, EnqueueRouteMapJob PROVE CtxInv'
<1> DEFINE j == FreshJob("route_map", CtxRoutes)
<1>1. /\ ctxJobs' = [ctxJobs EXCEPT !["route_map"] = j]
      /\ UNCHANGED <<linked, switches, head, changedAt, pushes, receipts, ctxRun, routeMap, tainted>>
    BY DEF EnqueueRouteMapJob
<1>2. "route_map" \in ContextKinds /\ "product_context" \in ContextKinds /\ ContextTypeOK /\ 0 < MaxCtxAttempts
    BY CtxTypes DEF ContextKinds, CtxInv
<1>3. j \in JobRows /\ j.status = "pending" /\ j.owner = NoRepo /\ j.attempts = 0
    BY <1>2, FreshTyped
<1> HIDE DEF j
<1>4. /\ ctxJobs' \in [ContextKinds -> JobRows]
      /\ \A k \in ContextKinds : (ctxJobs'[k].status = "claimed") <=> (ctxJobs'[k].owner # NoRepo)
      /\ \A k \in ContextKinds :
           ctxJobs'[k].status \in {"pending", "claimed"} => ctxJobs'[k].attempts < MaxCtxAttempts
      /\ ctxJobs'["product_context"] = ctxJobs["product_context"]
    BY <1>1, <1>2, <1>3, RowWritten DEF CtxInv, Numbered
<1>5. \A w : Refreshes(w)' => Refreshes(w)
    BY <1>1, <1>4 DEF Refreshes, HoldsJob
<1>. QED BY <1>1, <1>4, <1>5, CtxTypes, JobsMove DEF CtxInv, RefreshCovers, Covered, ContextActive

LEMMA ClaimKeeps ==
  ASSUME CtxInv, NEW w \in CtxWorkers, NEW k \in ContextKinds, ClaimsContext(w, k)
  PROVE  CtxInv'
<1> DEFINE j == [ctxJobs[k] EXCEPT !.status = "claimed", !.gen = ctxJobs[k].gen + 1, !.owner = w]
           now == [kind |-> k, gen |-> ctxJobs[k].gen + 1, at |-> "prepare"]
<1>1. /\ ctxJobs' = [ctxJobs EXCEPT ![k] = j] /\ ctxRun' = [ctxRun EXCEPT ![w] = now]
      /\ ctxJobs[k].status = "pending" /\ ctxJobs[k].gen < MaxCtxClaims
      /\ UNCHANGED <<linked, switches, head, changedAt, pushes, receipts, routeMap, tainted>>
    BY DEF ClaimsContext
<1>2. /\ ctxJobs[k] \in JobRows /\ "product_context" \in ContextKinds /\ w # NoRepo
      /\ ctxJobs[k].gen \in 0..MaxCtxClaims /\ MaxCtxClaims \in Nat /\ ContextTypeOK
      /\ ctxJobs[k].attempts < MaxCtxAttempts
    BY <1>1, CtxTypes DEF CtxInv, ContextKinds, Numbered, ContextActive, JobRows
<1>3. /\ j \in JobRows /\ j.status = "claimed" /\ j.owner = w /\ j.attempts = ctxJobs[k].attempts
      /\ j.changed = ctxJobs[k].changed /\ j.gen = ctxJobs[k].gen + 1
  <2>1. ctxJobs[k].gen + 1 \in 0..MaxCtxClaims
      BY <1>1, <1>2
  <2>. QED BY <1>2, <2>1 DEF JobRows
<1>4. now \in Runs /\ now.at = "prepare" /\ now.kind = k
    BY <1>1, <1>2 DEF Runs
<1> HIDE DEF j, now
<1>5. /\ ctxJobs' \in [ContextKinds -> JobRows] /\ ctxJobs'[k] = j
      /\ \A l \in ContextKinds \ {k} : ctxJobs'[l] = ctxJobs[l]
      /\ \A l \in ContextKinds : (ctxJobs'[l].status = "claimed") <=> (ctxJobs'[l].owner # NoRepo)
      /\ \A l \in ContextKinds :
           ctxJobs'[l].status \in {"pending", "claimed"} => ctxJobs'[l].attempts < MaxCtxAttempts
    BY <1>1, <1>2, <1>3, RowWritten DEF CtxInv, Numbered
<1>6. /\ ctxRun' \in [CtxWorkers -> Runs] /\ ctxRun'[w] = now
      /\ \A v \in CtxWorkers \ {w} : ctxRun'[v] = ctxRun[v]
    BY <1>1, <1>4, CtxTypes DEF CtxInv
<1>7. \A p \in CtxRoutes :
        ContextActive("product_context") /\ p \in ctxJobs["product_context"].changed
          => /\ ctxJobs'["product_context"].status \in {"pending", "claimed"}
             /\ p \in ctxJobs'["product_context"].changed
    BY <1>1, <1>2, <1>3, <1>5 DEF ContextActive
<1>8. ASSUME NEW v \in CtxWorkers, Refreshes(v)'
      PROVE  (Refreshes(v) /\ ctxRun'[v] = ctxRun[v]) \/ ctxRun'[v].at = "prepare"
  <2>1. CASE v = w
      BY <1>4, <1>6, <2>1
  <2>2. CASE v # w
    <3>1. k # "product_context"
        BY <1>3, <1>5, <1>8, <2>2 DEF Refreshes, HoldsJob
    <3>. QED BY <1>2, <1>5, <1>6, <1>8, <2>2, <3>1 DEF Refreshes, HoldsJob
  <2>. QED BY <2>1, <2>2
<1>. QED BY <1>1, <1>5, <1>6, <1>7, <1>8, CtxTypes, JobsMove DEF CtxInv, RefreshCovers, Covered

LEMMA PrepareKeeps == ASSUME CtxInv, NEW w \in CtxWorkers, PrepareContext(w) PROVE CtxInv'
<1> DEFINE commit == [repo |-> linked, commit |-> head[linked]]
           asked == PatternsFor(commit, ctxJobs[ctxRun[w].kind].changed)
           now == [kind |-> ctxRun[w].kind, gen |-> ctxRun[w].gen, at |-> "ask", repo |-> linked,
                   commit |-> head[linked], routes |-> asked]
<1>1. /\ ctxRun' = [ctxRun EXCEPT ![w] = now] /\ ctxRun[w] # NoRun /\ linked # NoRepo
      /\ UNCHANGED <<linked, switches, head, changedAt, pushes, receipts, ctxJobs, routeMap, tainted>>
    BY DEF PrepareContext
<1>2. /\ linked \in Repositories /\ head[linked] \in Commits /\ ctxRun[w].kind \in ContextKinds
      /\ ctxRun[w].gen \in 1..MaxCtxClaims /\ ContextTypeOK
    BY <1>1, CtxTypes, RunTyped DEF CtxInv
<1>3. asked \in SUBSET CtxRoutes
    BY DEF PatternsFor
<1>4. /\ now \in Runs /\ now.at = "ask" /\ now.repo = linked /\ now.commit = head[linked]
      /\ now.routes = asked /\ now.kind = ctxRun[w].kind /\ now.gen = ctxRun[w].gen
    BY <1>2, <1>3 DEF Runs
<1>5. ASSUME Refreshes(w), NEW p \in CtxRoutes \ tainted, p \notin asked PROVE Accounted(p)
  <2>1. routeMap[p] # NoRepo /\ (routeMap[p] = commit \/ p \notin ctxJobs["product_context"].changed)
      BY <1>5 DEF PatternsFor, Refreshes
  <2>2. CASE routeMap[p] = commit
    <3>1. changedAt[linked][p] <= head[linked] /\ changedAt[linked][p] \in Nat /\ head[linked] \in Nat
        BY <1>2, CtxTypes DEF CtxInv, Numbered, Commits
    <3>2. routeMap[p].repo = linked /\ routeMap[p].commit = head[linked]
        BY <2>2
    <3>. QED BY <3>1, <3>2 DEF Accounted, RowFresh
  <2>3. CASE p \notin ctxJobs["product_context"].changed
      BY <1>1, <2>3 DEF CtxInv, RefreshCovers, Covered
  <2>. QED BY <2>1, <2>2, <2>3
<1> HIDE DEF commit, asked, now
<1>6. /\ ctxRun' \in [CtxWorkers -> Runs] /\ ctxRun'[w] = now
      /\ \A v \in CtxWorkers \ {w} : ctxRun'[v] = ctxRun[v]
    BY <1>1, <1>4, CtxTypes DEF CtxInv
<1>7. \A v \in CtxWorkers : Refreshes(v)' => Refreshes(v)
    BY <1>1, <1>4, <1>6 DEF Refreshes, HoldsJob
<1>. QED BY <1>1, <1>4, <1>5, <1>6, <1>7, CtxTypes, JobsMove
         DEF CtxInv, RefreshCovers, Covered, Numbered, ContextActive

(* A worker that gives its job up, or ends, works on nothing. *)
LEMMA RunEnds ==
  ASSUME ContextTypeOK, NEW w \in CtxWorkers, ctxRun' = [ctxRun EXCEPT ![w] = NoRun]
  PROVE  /\ ctxRun' \in [CtxWorkers -> Runs] /\ ctxRun'[w] = NoRun
         /\ \A v \in CtxWorkers \ {w} : ctxRun'[v] = ctxRun[v]
BY CtxTypes DEF Runs

LEMMA CompleteKeeps == ASSUME CtxInv, NEW w \in CtxWorkers, CompleteContext(w) PROVE CtxInv'
<1> DEFINE k == ctxRun[w].kind
           j == [ctxJobs[k] EXCEPT !.status = "completed", !.owner = NoRepo]
<1>1. /\ ctxRun' = [ctxRun EXCEPT ![w] = NoRun] /\ ctxRun[w] # NoRun /\ ctxRun[w].at = "settle"
      /\ ctxJobs' = IF HoldsJob(w) THEN [ctxJobs EXCEPT ![k] = j] ELSE ctxJobs
      /\ UNCHANGED <<linked, switches, head, changedAt, pushes, receipts, routeMap, tainted>>
    BY DEF CompleteContext
<1>2. k \in ContextKinds /\ ctxJobs[k] \in JobRows /\ ContextTypeOK /\ "product_context" \in ContextKinds
    BY <1>1, RunTyped, CtxTypes DEF CtxInv, ContextKinds
<1>3. j \in JobRows /\ j.status = "completed" /\ j.owner = NoRepo
    BY <1>2 DEF JobRows
<1>4. /\ ctxRun' \in [CtxWorkers -> Runs] /\ ctxRun'[w] = NoRun
      /\ \A v \in CtxWorkers \ {w} : ctxRun'[v] = ctxRun[v]
    BY <1>1, <1>2, RunEnds
<1>5. CASE HoldsJob(w)
  <2>1. PICK l \in ContextKinds, row \in JobRows :
          /\ l = k /\ row = j
          /\ ctxJobs' = [ctxJobs EXCEPT ![l] = row] /\ row.status = "completed" /\ row.owner = NoRepo
      BY <1>1, <1>2, <1>3, <1>5
  <2>2. /\ ctxJobs' \in [ContextKinds -> JobRows] /\ ctxJobs'[l] = row
        /\ \A m \in ContextKinds \ {l} : ctxJobs'[m] = ctxJobs[m]
        /\ \A m \in ContextKinds : (ctxJobs'[m].status = "claimed") <=> (ctxJobs'[m].owner # NoRepo)
        /\ \A m \in ContextKinds :
             ctxJobs'[m].status \in {"pending", "claimed"} => ctxJobs'[m].attempts < MaxCtxAttempts
    <3>1. row.status = "claimed" <=> row.owner # NoRepo
        BY <2>1
    <3>2. row.status \notin {"pending", "claimed"}
        BY <2>1
    <3>. QED BY <1>2, <2>1, <3>1, <3>2, RowWritten DEF CtxInv, Numbered
  <2>3. CASE l = "product_context"
    <3>1. linked # NoRepo => \A p \in CtxRoutes \ tainted : Accounted(p)
        BY <1>1, <1>5, <2>1, <2>3 DEF CtxInv, RefreshCovers, AskedWell, Refreshes
    <3>2. \A v \in CtxWorkers : ~Refreshes(v)'
        BY <2>1, <2>2, <2>3 DEF Refreshes, HoldsJob
    <3>. QED BY <1>1, <1>4, <2>2, <3>1, <3>2, CtxTypes, JobsMove DEF CtxInv
  <2>4. CASE l # "product_context"
    <3>1. ctxJobs'["product_context"] = ctxJobs["product_context"]
        BY <1>2, <2>2, <2>4
    <3>2. \A v \in CtxWorkers : Refreshes(v)' => Refreshes(v) /\ ctxRun'[v] = ctxRun[v]
        BY <1>4, <3>1 DEF Refreshes, HoldsJob
    <3>. QED BY <1>1, <1>4, <2>2, <3>1, <3>2, CtxTypes, JobsMove
             DEF CtxInv, RefreshCovers, Covered, ContextActive
  <2>. QED BY <2>3, <2>4
<1>6. CASE ~HoldsJob(w)
  <2>1. ctxJobs' = ctxJobs
      BY <1>1, <1>6
  <2>2. \A v \in CtxWorkers : Refreshes(v)' => Refreshes(v) /\ ctxRun'[v] = ctxRun[v]
      BY <1>4, <2>1 DEF Refreshes, HoldsJob
  <2>. QED BY <1>1, <1>4, <2>1, <2>2, CtxTypes, JobsMove
           DEF CtxInv, RefreshCovers, Covered, ContextActive, Numbered
<1>. QED BY <1>5, <1>6

(* A job is given up: tried again, or dead, and then nothing is promised. *)
LEMMA GivenUpKeeps ==
  ASSUME CtxInv, NEW k \in ContextKinds, NEW final \in BOOLEAN, GivenUp(k, final),
         ctxJobs[k].status = "claimed",
         UNCHANGED <<linked, switches, head, changedAt, pushes, receipts, routeMap>>,
         ctxRun' \in [CtxWorkers -> Runs],
         \A v \in CtxWorkers : ctxRun'[v] = NoRun \/ ctxRun'[v] = ctxRun[v]
  PROVE  CtxInv'
<1> DEFINE dead == final \/ ctxJobs[k].attempts + 1 >= MaxCtxAttempts
           j == [ctxJobs[k] EXCEPT !.status = IF dead THEN "dead" ELSE "pending",
                                   !.attempts = ctxJobs[k].attempts + 1, !.owner = NoRepo]
<1>1. ctxJobs' = [ctxJobs EXCEPT ![k] = j] /\ tainted' = IF dead THEN CtxRoutes ELSE tainted
    BY DEF GivenUp
<1>2. /\ ctxJobs[k] \in JobRows /\ ContextTypeOK /\ "product_context" \in ContextKinds
      /\ ctxJobs[k].attempts \in 0..MaxCtxAttempts /\ MaxCtxAttempts \in Nat
      /\ ctxJobs[k].attempts < MaxCtxAttempts
    BY CtxTypes DEF CtxInv, ContextKinds, Numbered, ContextActive, JobRows
<1>3. /\ j \in JobRows /\ j.owner = NoRepo /\ j.attempts = ctxJobs[k].attempts + 1
      /\ j.changed = ctxJobs[k].changed /\ j.status = IF dead THEN "dead" ELSE "pending"
  <2>1. ctxJobs[k].attempts + 1 \in 0..MaxCtxAttempts
      BY <1>2
  <2> DEFINE becomes == IF dead THEN "dead" ELSE "pending"
  <2>2. becomes \in {"none", "pending", "claimed", "completed", "dead"}
      OBVIOUS
  <2>3. j = [ctxJobs[k] EXCEPT !.status = becomes, !.attempts = ctxJobs[k].attempts + 1, !.owner = NoRepo]
      OBVIOUS
  <2> HIDE DEF becomes, j
  <2>4. /\ j \in JobRows /\ j.owner = NoRepo /\ j.attempts = ctxJobs[k].attempts + 1
        /\ j.changed = ctxJobs[k].changed /\ j.status = becomes
      BY <1>2, <2>1, <2>2, <2>3 DEF JobRows
  <2>. QED BY <2>4 DEF becomes
<1>4. (j.status = "claimed" <=> j.owner # NoRepo)
      /\ (j.status \in {"pending", "claimed"} => j.attempts < MaxCtxAttempts)
    BY <1>2, <1>3
<1>5. dead \/ (~dead /\ j.status = "pending")
    BY <1>3
<1> HIDE DEF j, dead
<1>6. /\ ctxJobs' \in [ContextKinds -> JobRows] /\ ctxJobs'[k] = j
      /\ \A l \in ContextKinds \ {k} : ctxJobs'[l] = ctxJobs[l]
      /\ \A l \in ContextKinds : (ctxJobs'[l].status = "claimed") <=> (ctxJobs'[l].owner # NoRepo)
      /\ \A l \in ContextKinds :
           ctxJobs'[l].status \in {"pending", "claimed"} => ctxJobs'[l].attempts < MaxCtxAttempts
    BY <1>1, <1>2, <1>3, <1>4, RowWritten DEF CtxInv, Numbered
<1>7. tainted \subseteq tainted' /\ tainted' \subseteq CtxRoutes
    BY <1>1, CtxTypes DEF CtxInv
<1>8. ASSUME linked # NoRepo, NEW p \in CtxRoutes \ tainted'
      PROVE  \/ Accounted(p)
             \/ /\ ctxJobs'["product_context"].status \in {"pending", "claimed"}
                /\ p \in ctxJobs'["product_context"].changed
  <2>1. p \notin tainted /\ j.status = "pending"
      BY <1>1, <1>5, <1>7, <1>8
  <2>. QED BY <1>2, <1>3, <1>6, <1>8, <2>1 DEF CtxInv, RefreshCovers, Covered, ContextActive
<1>9. \A v \in CtxWorkers : Refreshes(v)' => Refreshes(v) /\ ctxRun'[v] = ctxRun[v]
    BY <1>2, <1>3, <1>4, <1>6 DEF Refreshes, HoldsJob
<1>. QED BY <1>6, <1>7, <1>8, <1>9, JobsMove

LEMMA FailKeeps ==
  ASSUME CtxInv, NEW w \in CtxWorkers, NEW final \in BOOLEAN, FailContext(w, final)
  PROVE  CtxInv'
<1>1. /\ ctxRun' = [ctxRun EXCEPT ![w] = NoRun] /\ ctxRun[w] # NoRun
      /\ UNCHANGED <<linked, switches, head, changedAt, pushes, receipts, routeMap>>
      /\ IF HoldsJob(w) THEN GivenUp(ctxRun[w].kind, final) ELSE UNCHANGED <<ctxJobs, tainted>>
    BY DEF FailContext
<1>2. /\ ctxRun' \in [CtxWorkers -> Runs] /\ ctxRun'[w] = NoRun
      /\ \A v \in CtxWorkers \ {w} : ctxRun'[v] = ctxRun[v]
    BY <1>1, RunEnds DEF CtxInv
<1>3. CASE HoldsJob(w)
  <2>1. PICK k \in ContextKinds : ctxRun[w].kind = k
      BY <1>1, RunTyped DEF CtxInv
  <2>2. GivenUp(k, final) /\ ctxJobs[k].status = "claimed"
      BY <1>1, <1>3, <2>1 DEF HoldsJob
  <2>. QED BY <1>1, <1>2, <2>2, GivenUpKeeps
<1>4. CASE ~HoldsJob(w)
  <2>1. UNCHANGED <<ctxJobs, tainted>>
      BY <1>1, <1>4
  <2>2. \A v \in CtxWorkers : Refreshes(v)' => Refreshes(v) /\ ctxRun'[v] = ctxRun[v]
      BY <1>2, <2>1 DEF Refreshes, HoldsJob
  <2>. QED BY <1>1, <1>2, <2>1, <2>2, CtxTypes, JobsMove
           DEF CtxInv, RefreshCovers, Covered, ContextActive, Numbered
<1>. QED BY <1>3, <1>4

LEMMA LapseKeeps == ASSUME CtxInv, NEW k \in ContextKinds, LeaseLapses(k) PROVE CtxInv'
<1>1. /\ ctxJobs[k].status = "claimed" /\ GivenUp(k, FALSE)
      /\ UNCHANGED <<linked, switches, head, changedAt, pushes, receipts, ctxRun, routeMap>>
    BY DEF LeaseLapses
<1>2. ctxRun' \in [CtxWorkers -> Runs]
    BY <1>1, CtxTypes DEF CtxInv
<1>. QED BY <1>1, <1>2, GivenUpKeeps

(* What a worker writes, it found at a commit no older than the file, or a push   *)
(* will tell.                                                                     *)
LEMMA PersistKeeps ==
  ASSUME CtxInv, NEW w \in CtxWorkers, NEW found \in Answers, PersistClaims(w, found)
  PROVE  CtxInv'
<1>1. ctxRun[w] # NoRun /\ ctxRun[w].at = "ask"
      /\ UNCHANGED <<linked, switches, head, changedAt, pushes, receipts, ctxJobs>>
    BY DEF PersistClaims
<1>2. /\ ctxRun[w].kind \in ContextKinds /\ ctxRun[w].gen \in 1..MaxCtxClaims
      /\ ctxRun[w].repo \in Repositories /\ ctxRun[w].commit \in Commits
      /\ ctxRun[w].routes \in SUBSET CtxRoutes /\ ContextTypeOK
    BY <1>1, RunTyped DEF CtxInv
<1>3. CASE ~HoldsJob(w)
  <2>1. ctxRun' = [ctxRun EXCEPT ![w] = NoRun] /\ UNCHANGED <<routeMap, tainted>>
      BY <1>3 DEF PersistClaims
  <2>2. /\ ctxRun' \in [CtxWorkers -> Runs] /\ ctxRun'[w] = NoRun
        /\ \A v \in CtxWorkers \ {w} : ctxRun'[v] = ctxRun[v]
      BY <1>2, <2>1, RunEnds
  <2>3. \A v \in CtxWorkers : Refreshes(v)' => Refreshes(v) /\ ctxRun'[v] = ctxRun[v]
      BY <1>1, <2>2 DEF Refreshes, HoldsJob
  <2>. QED BY <1>1, <2>1, <2>2, <2>3, CtxTypes, JobsMove
           DEF CtxInv, RefreshCovers, Covered, ContextActive, Numbered
<1>4. CASE HoldsJob(w)
  <2> DEFINE wrote == ctxRun[w].routes \union found
             row == [repo |-> ctxRun[w].repo, commit |-> ctxRun[w].commit]
             now == [kind |-> ctxRun[w].kind, gen |-> ctxRun[w].gen, at |-> "settle"]
  <2>1. /\ routeMap' = [p \in CtxRoutes |-> IF p \in wrote THEN row ELSE routeMap[p]]
        /\ tainted' = IF ctxRun[w].kind = "route_map" THEN tainted \union wrote
                      ELSE tainted \ {p \in wrote : ctxRun[w].commit >= changedAt[ctxRun[w].repo][p]}
        /\ ctxRun' = [ctxRun EXCEPT ![w] = now]
      BY <1>4 DEF PersistClaims, Wrote, StillTainted
  <2>2. wrote \subseteq CtxRoutes /\ ctxRun[w].routes \subseteq wrote
      BY <1>2 DEF Answers
  <2>3. /\ row \in [repo : Repositories, commit : Commits]
        /\ row.repo = ctxRun[w].repo /\ row.commit = ctxRun[w].commit
        /\ now \in Runs /\ now.at = "settle" /\ now.kind = ctxRun[w].kind /\ now.gen = ctxRun[w].gen
        /\ now # NoRun
    <3>1. now # NoRun
        BY <1>2, ContextConstants DEF NoRun
    <3>. QED BY <1>2, <3>1 DEF Runs
  <2> HIDE DEF wrote, row, now
  <2>4. /\ ctxRun' \in [CtxWorkers -> Runs] /\ ctxRun'[w] = now
        /\ \A v \in CtxWorkers \ {w} : ctxRun'[v] = ctxRun[v]
      BY <2>1, <2>3, CtxTypes DEF CtxInv
  <2>5. routeMap' \in [CtxRoutes -> {NoRepo} \union [repo : Repositories, commit : Commits]]
      BY <2>1, <2>3, CtxTypes DEF CtxInv
  <2>6. tainted' \subseteq CtxRoutes
      BY <2>1, <2>2, CtxTypes DEF CtxInv
  <2>7. ContextTypeOK'
      BY <1>1, <2>4, <2>5, <2>6 DEF CtxInv, ContextTypeOK, Runs
  <2>8. Numbered'
      BY <1>1 DEF CtxInv, Numbered, ContextActive
  <2>9. \A p : Announced(p)' <=> Announced(p)
      BY <1>1 DEF Announced
  <2>10. \A p \in CtxRoutes : p \notin wrote => routeMap'[p] = routeMap[p] /\ (Accounted(p) => Accounted(p)')
    <3> SUFFICES ASSUME NEW p \in CtxRoutes, p \notin wrote
                 PROVE  routeMap'[p] = routeMap[p] /\ (Accounted(p) => Accounted(p)')
        OBVIOUS
    <3>1. routeMap'[p] = routeMap[p]
        BY <2>1
    <3>. QED BY <1>1, <2>9, <3>1 DEF Accounted, RowFresh
  <2>11. CASE ctxRun[w].kind = "route_map"
    <3>1. tainted' = tainted \union wrote
        BY <2>1, <2>11
    <3>2. \A v \in CtxWorkers : Refreshes(v)' => Refreshes(v) /\ ctxRun'[v] = ctxRun[v]
        BY <1>1, <2>3, <2>4, <2>11 DEF Refreshes, HoldsJob
    <3>3. ASSUME linked # NoRepo PROVE Covered' /\ \A v \in CtxWorkers : Refreshes(v)' => AskedWell(v)'
      <4>1. Covered'
          BY <1>1, <2>10, <3>1, <3>3 DEF CtxInv, RefreshCovers, Covered, ContextActive
      <4>2. ASSUME NEW v \in CtxWorkers, Refreshes(v)' PROVE AskedWell(v)'
        <5>1. AskedWell(v) /\ ctxRun'[v] = ctxRun[v]
            BY <3>2, <3>3, <4>2 DEF CtxInv, RefreshCovers
        <5>. QED BY <1>1, <2>9, <2>10, <3>1, <5>1 DEF AskedWell
      <4>. QED BY <4>1, <4>2
    <3>. QED BY <1>1, <2>7, <2>8, <3>3 DEF CtxInv, RefreshCovers
  <2>12. CASE ctxRun[w].kind = "product_context"
    <3>1. tainted' = tainted \ {p \in wrote : ctxRun[w].commit >= changedAt[ctxRun[w].repo][p]}
        BY <2>1, <2>12
    <3>2. Refreshes(w)
        BY <1>1, <1>4, <2>12 DEF Refreshes
    <3>3. ASSUME linked # NoRepo PROVE \A p \in CtxRoutes \ tainted' : Accounted(p)'
      <4>1. /\ ctxRun[w].repo = linked
            /\ \A p \in CtxRoutes : ctxRun[w].commit >= changedAt[linked][p] \/ Announced(p)
            /\ \A p \in CtxRoutes \ tainted : p \notin ctxRun[w].routes => Accounted(p)
          BY <1>1, <3>2, <3>3 DEF CtxInv, RefreshCovers, AskedWell
      <4>2. ASSUME NEW p \in CtxRoutes \ tainted', p \notin wrote PROVE Accounted(p)'
          BY <2>2, <2>10, <3>1, <4>1, <4>2
      <4>3. ASSUME NEW p \in CtxRoutes \ tainted', p \in wrote PROVE Accounted(p)'
        <5>1. routeMap'[p] = row
            BY <2>1, <4>3
        <5>. QED BY <1>1, <2>3, <2>9, <4>1, <5>1 DEF Accounted, RowFresh
      <4>. QED BY <4>2, <4>3
    <3>4. Covered' \/ linked = NoRepo
        BY <1>1, <3>3 DEF Covered
    <3>5. ASSUME linked # NoRepo, NEW v \in CtxWorkers, Refreshes(v)' PROVE AskedWell(v)'
      <4>1. v = w
          BY <1>1, <2>4, <3>2, <3>5 DEF Refreshes, HoldsJob
      <4>2. ctxRun'[v].at = "settle"
          BY <2>3, <2>4, <4>1
      <4>. QED BY <3>3, <3>5, <4>2 DEF AskedWell
    <3>. QED BY <1>1, <2>7, <2>8, <3>4, <3>5 DEF CtxInv, RefreshCovers
  <2>. QED BY <1>2, <2>11, <2>12 DEF ContextKinds
<1>. QED BY <1>3, <1>4

LEMMA CtxSteps == CtxInv /\ [ContextNext]_contextVars => CtxInv'
<1> SUFFICES ASSUME CtxInv, [ContextNext]_contextVars PROVE CtxInv'
    OBVIOUS
<1>1. CASE UNCHANGED contextVars
    BY <1>1, ZenonT(60) DEF contextVars, CtxInv, ContextTypeOK, Numbered, RefreshCovers, Covered, AskedWell,
                Accounted, Announced, RowFresh, Refreshes, HoldsJob, ContextActive
<1>. QED BY <1>1, SetKeeps, ClearKeeps, PushKeeps, HandleKeeps, EnqueueKeeps, ClaimKeeps, PrepareKeeps,
         CompleteKeeps, PersistKeeps, FailKeeps, LapseKeeps DEF ContextNext

LEMMA CtxInvAgrees == CtxInv => ContextAgrees
<1> SUFFICES ASSUME CtxInv PROVE ContextFresh
    BY DEF CtxInv, ContextAgrees
<1> DEFINE handled == \A w \in pushes : w.repo = linked => <<w.repo, w.id>> \in receipts
<1> SUFFICES ASSUME linked # NoRepo, ~ContextActive("product_context"), handled,
                    NEW p \in CtxRoutes \ tainted, routeMap[p] # NoRepo
             PROVE  routeMap[p].repo = linked /\ routeMap[p].commit >= changedAt[linked][p]
    BY DEF ContextFresh
<1>1. Accounted(p)
    BY DEF CtxInv, RefreshCovers, Covered
<1>2. ~Announced(p)
    BY DEF Announced
<1>. QED BY <1>1, <1>2 DEF Accounted, RowFresh

(* Once no refresh is queued or running and every push was handled, each row of    *)
(* the route map describes the connected repository as it is, whatever was pushed, *)
(* switched or retried while a refresh ran.                                        *)
THEOREM ContextAgreesHolds == ContextSpec => []ContextAgrees
<1>1. ContextSpec => []CtxInv
    BY CtxStarts, CtxSteps, PTL DEF ContextSpec
<1>. QED BY <1>1, CtxInvAgrees, PTL

-----------------------------------------------------------------------------
(* The fixes of a problem, for any number of problems, generations, attempts,  *)
(* executions and pull requests.                                               *)
(*                                                                             *)
(* AttemptsAgree is not inductive.  What has to be known beside it: an         *)
(* outstanding attempt is of the generation that is published, and no second   *)
(* one is (OneFix); the pull request an execution or an event carries exists,  *)
(* and what an event says of it is what happened (Delivers); and only the last *)
(* investigation is queued, executions are numbered in the order they began,   *)
(* the newest knows no less than what was adopted, and of those of one job     *)
(* only the newest owns it (Investigates).                                     *)

Ticket == [live : {"no", "yes", "archived"}, gen : 0..MaxGen, ev : 0..MaxEvidence, again : BOOLEAN]
Issue == [sub : {"none", "fixing", "pr_open", "resolved"}, inv : {"pending", "done", "failed"},
          exec : Nat, result : Nat, used : 0..MaxEvidence, cause : {"none", "short", "covers"}]
Attempt == [t : Problems, gen : 1..MaxGen, by : {"human", "auto"},
            status : Outstanding \cup {"failed", "merged", "closed", "superseded"},
            pr : 0..MaxPrs, reserved : BOOLEAN, job : Queued \cup {"ended"}]
Probe == [status : Queued \cup {"ended"}, claim : Nat, exec : Nat, ev : 0..MaxEvidence]
Mind == [job : Nat, claim : Nat, exec : Nat, ev : 0..MaxEvidence]
Execution == [at : {"begun", "cleared", "created", "recorded", "gone"}, pr : 0..MaxPrs]
Event == [i : Ids, pr : 1..MaxPrs, what : {"merged", "closed"}]

FixTypes ==
    /\ ticket \in [Problems -> Ticket] /\ group \in [Problems -> Issue]
    /\ probe \in [Problems -> Seq(Probe)]
    /\ \A t \in Problems : Len(probe[t]) <= MaxInvestigations
    /\ mind \in [Problems -> SUBSET Mind]
    /\ ask \in [Problems -> 0..MaxGen]
    /\ att \in Seq(Attempt) /\ Len(att) <= MaxAttempts
    /\ run \in [Ids -> Seq(Execution)]
    /\ prs \in [Ids -> Seq({"open", "closed", "merged"})]
    /\ \A i \in Ids : Len(prs[i]) <= MaxPrs
    /\ mail \subseteq Event /\ events \subseteq Event
    /\ faults \in 0..MaxFaults

\* One attempt of a problem at most is on its way, for the generation that is
\* published, and the incident says how far it is.
OneFix ==
    /\ \A i \in DOMAIN att :
         /\ att[i].gen <= ticket[att[i].t].gen
         /\ att[i].status \in Outstanding =>
              /\ CurrentLineage(i)
              /\ \A k \in DOMAIN att :
                   att[k].status \in Outstanding /\ att[k].t = att[i].t => k = i
         /\ att[i].status = "active" => group[att[i].t].sub = "fixing"
         /\ att[i].status = "pr_open" => group[att[i].t].sub = "pr_open"
    /\ \A t \in Problems : Live(t) =>
         /\ ticket[t].gen > 0
         /\ group[t].sub = "fixing" =>
              \E i \in DOMAIN att : att[i].t = t /\ att[i].status = "active"
         /\ group[t].sub = "pr_open" =>
              \E i \in DOMAIN att : att[i].t = t /\ att[i].status = "pr_open"
         /\ group[t].sub = "resolved" => \E i \in AttemptsOf(t) : att[i].status = "merged"

\* What executions and events carry is of a pull request of their attempt; an
\* automatic attempt that delivers has its slot.
AttemptDelivers(i) ==
    /\ \A k \in DOMAIN run[i] :
         /\ run[i][k].at = "created" => run[i][k].pr \in DOMAIN prs[i]
         /\ run[i][k].at = "recorded" /\ Owns(i, k) => att[i].status # "active"
         /\ run[i][k].at \in {"cleared", "created"} /\ att[i].by = "auto" => att[i].reserved
    /\ prs[i] # <<>> /\ att[i].by = "auto" => att[i].reserved
    /\ att[i].status = "active" => att[i].job \in Queued
    /\ att[i].status \in {"merged", "closed"} =>
         /\ \E p \in DOMAIN prs[i] : prs[i][p] = att[i].status
         /\ CurrentLineage(i) => att[i].pr \in DOMAIN prs[i] /\ prs[i][att[i].pr] = att[i].status

EventDelivers(e) ==
    e.i \in DOMAIN att /\ e.pr \in DOMAIN prs[e.i] /\ prs[e.i][e.pr] = e.what

Delivers ==
    /\ \A i \in Ids : i > Len(att) => run[i] = <<>> /\ prs[i] = <<>>
    /\ \A i \in DOMAIN att : AttemptDelivers(i)
    /\ \A e \in mail \cup events : EventDelivers(e)

\* The jobs of a generation's investigations and the executions that still think.
Investigating(t) ==
    /\ Live(t) <=> probe[t] # <<>>
    /\ group[t].used <= ticket[t].ev
    /\ \A j \in DOMAIN probe[t] :
         /\ probe[t][j].status \in Queued => j = Len(probe[t])
         /\ probe[t][j].exec <= group[t].exec
         /\ j = Len(probe[t]) => probe[t][j].exec \in {0, group[t].exec}
         /\ probe[t][j].ev <= ticket[t].ev
    /\ \A h \in mind[t] :
         /\ h.job \in DOMAIN probe[t]
         /\ 0 < h.exec /\ h.exec <= group[t].exec
         /\ h.ev <= ticket[t].ev
         /\ \A g \in mind[t] : g.exec = h.exec => g = h
         /\ \A j \in DOMAIN probe[t] :
              probe[t][j].exec = h.exec => j = h.job /\ probe[t][j].ev = h.ev
         /\ h.exec = group[t].exec /\ h.exec > group[t].result => group[t].used <= h.ev
    /\ Live(t) /\ group[t].inv = "pending" /\ group[t].sub # "resolved" =>
         \/ probe[t][Len(probe[t])].status \in Queued
         \/ probe[t][Len(probe[t])].exec = 0 /\ group[t].exec > 0

\* What the lease keeps apart: no execution has a claim that is still to come,
\* and the one that owns its job is the newest that began and has not answered.
Fenced(t) ==
    /\ group[t].result <= group[t].exec
    /\ \A h \in mind[t] :
         /\ h.claim <= probe[t][h.job].claim
         /\ OwnsProbe(t, h) => probe[t][h.job].exec = h.exec /\ h.exec > group[t].result

Investigates == \A t \in Problems : Investigating(t) /\ Fenced(t)

FixInv == FixTypes /\ OneFix /\ Delivers /\ Investigates /\ AutoCap
\* What NeverBackwards says of one step.
Forward == OutcomeIsFinal /\ NewestResult

LEMMA IdsOfAttempts == ASSUME FixTypes PROVE DOMAIN att = 1..Len(att) /\ DOMAIN att \subseteq Ids
BY FixAssumption DEF FixTypes, Ids

LEMMA IsSequence ==
    ASSUME NEW S, NEW n \in Nat, NEW f \in [1..n -> S]
    PROVE  f \in Seq(S) /\ Len(f) = n
OBVIOUS

LEMMA SeqUpdate ==
    ASSUME NEW S, NEW s \in Seq(S), NEW i \in DOMAIN s, NEW x \in S
    PROVE  /\ [s EXCEPT ![i] = x] \in Seq(S)
           /\ Len([s EXCEPT ![i] = x]) = Len(s)
           /\ DOMAIN [s EXCEPT ![i] = x] = DOMAIN s
OBVIOUS

LEMMA SeqAppend ==
    ASSUME NEW S, NEW s \in Seq(S), NEW x \in S
    PROVE  /\ Append(s, x) \in Seq(S)
           /\ Len(Append(s, x)) = Len(s) + 1
           /\ \A i \in DOMAIN s : Append(s, x)[i] = s[i]
           /\ Append(s, x)[Len(s) + 1] = x
           /\ DOMAIN Append(s, x) = 1..(Len(s) + 1)
OBVIOUS

LEMMA FixTypesInit == Init => FixTypes
<1> SUFFICES ASSUME Init PROVE FixTypes
    OBVIOUS
<1> USE FixAssumption DEF Init
<1>1. ticket \in [Problems -> Ticket]
    BY DEF Ticket
<1>2. NewGroup \in Issue
    BY DEF NewGroup, Issue
<1>3. group \in [Problems -> Issue]
    BY <1>2 DEF Issue
<1>4. \A t \in Problems : probe[t] \in Seq(Probe) /\ Len(probe[t]) <= MaxInvestigations
  <2>1. TAKE t \in Problems
  <2>2. [status |-> "ended", claim |-> 1, exec |-> 1, ev |-> 0] \in Probe
      BY DEF Probe
  <2>3. <<[status |-> "ended", claim |-> 1, exec |-> 1, ev |-> 0]>> \in Seq(Probe)
        /\ Len(<<[status |-> "ended", claim |-> 1, exec |-> 1, ev |-> 0]>>) = 1
      BY <2>2
  <2>4. probe[t] = IF t \in Settled THEN <<[status |-> "ended", claim |-> 1, exec |-> 1, ev |-> 0]>> ELSE <<>>
      OBVIOUS
  <2> QED
      BY <2>3, <2>4
<1>5. probe \in [Problems -> Seq(Probe)]
    BY <1>4
<1>6. att \in Seq(Attempt) /\ Len(att) <= MaxAttempts
    OBVIOUS
<1>7. run \in [Ids -> Seq(Execution)] /\ prs \in [Ids -> Seq({"open", "closed", "merged"})]
      /\ \A i \in Ids : Len(prs[i]) <= MaxPrs
    OBVIOUS
<1> QED
    BY <1>1, <1>3, <1>4, <1>5, <1>6, <1>7 DEF FixTypes

LEMMA RetiredTypes ==
    ASSUME FixTypes, NEW t \in Problems
    PROVE  /\ Retired(t) \in Seq(Attempt) /\ Len(Retired(t)) = Len(att)
           /\ DOMAIN Retired(t) = DOMAIN att
           /\ \A i \in DOMAIN att :
                /\ Retired(t)[i].t = att[i].t /\ Retired(t)[i].gen = att[i].gen
                /\ Retired(t)[i].by = att[i].by /\ Retired(t)[i].pr = att[i].pr
                /\ Retired(t)[i].reserved = att[i].reserved
                /\ att[i].t # t => Retired(t)[i] = att[i]
                /\ att[i].t = t =>
                     /\ Retired(t)[i].job = "ended"
                     /\ Retired(t)[i].status =
                          IF att[i].status \in Outstanding THEN "superseded" ELSE att[i].status
<1>0. att \in Seq(Attempt)
    BY DEF FixTypes
<1>1. \A i \in DOMAIN att : att[i] \in Attempt
    BY <1>0
<1>2. Retired(t) \in [DOMAIN att -> Attempt]
    BY <1>1 DEF Retired, Attempt, Outstanding, Queued
<1>4. Retired(t) \in Seq(Attempt) /\ Len(Retired(t)) = Len(att)
  <2>1. PICK n \in Nat : n = Len(att)
      BY <1>0
  <2> DOMAIN att = 1..n
      BY <1>0, <2>1
  <2> Retired(t) \in [1..n -> Attempt]
      BY <1>2
  <2>2. PICK r \in [1..n -> Attempt] : r = Retired(t)
      OBVIOUS
  <2>3. r \in Seq(Attempt) /\ Len(r) = n
      BY IsSequence
  <2> QED
      BY <2>1, <2>2, <2>3, Zenon
<1> QED
    BY <1>0, <1>1, <1>4 DEF Retired, Attempt

LEMMA FailedTypes ==
    ASSUME FixTypes, NEW i \in DOMAIN att, NEW t \in Problems
    PROVE  /\ Failed(att[i], t) \in Attempt
           /\ Failed(att[i], t).t = att[i].t /\ Failed(att[i], t).gen = att[i].gen
           /\ Failed(att[i], t).by = att[i].by /\ Failed(att[i], t).pr = att[i].pr
           /\ Failed(att[i], t).reserved = att[i].reserved
           /\ Failed(att[i], t).job = "ended"
           /\ att[i].status # "active" => Failed(att[i], t).status = att[i].status
           /\ att[i].status = "active" => Failed(att[i], t).status \in {"failed", "superseded"}
<1>1. att[i] \in Attempt
    BY DEF FixTypes
<1> QED
    BY <1>1 DEF Failed, Attempt, Outstanding, Queued

LEMMA ProbeTypes ==
    ASSUME FixTypes, NEW t \in Problems, NEW j \in DOMAIN probe[t]
    PROVE  /\ probe[t] \in Seq(Probe) /\ DOMAIN probe[t] = 1..Len(probe[t])
           /\ probe[t][j] \in Probe /\ j \in 1..Len(probe[t])
BY DEF FixTypes

LEMMA Bounds ==
    /\ MaxGen \in Nat /\ MaxGen > 0 /\ MaxEvidence \in Nat
    /\ MaxInvestigations \in Nat /\ MaxInvestigations > 0 /\ MaxAttempts \in Nat
    /\ MaxRuns \in Nat /\ MaxPrs \in Nat /\ MaxOpenPrs \in Nat /\ MaxFaults \in Nat
BY FixAssumption

LEMMA ProblemTypes ==
    ASSUME FixTypes, NEW t \in Problems
    PROVE  /\ ticket \in [Problems -> Ticket] /\ ticket[t] \in Ticket
           /\ group \in [Problems -> Issue] /\ group[t] \in Issue
           /\ probe \in [Problems -> Seq(Probe)] /\ probe[t] \in Seq(Probe)
           /\ Len(probe[t]) <= MaxInvestigations
           /\ mind \in [Problems -> SUBSET Mind] /\ mind[t] \subseteq Mind
           /\ ticket[t].gen \in 0..MaxGen /\ ticket[t].ev \in 0..MaxEvidence
           /\ ticket[t].again \in BOOLEAN /\ ticket[t].live \in {"no", "yes", "archived"}
           /\ group[t].exec \in Nat /\ group[t].result \in Nat /\ group[t].used \in 0..MaxEvidence
           /\ \A r \in Ticket : [ticket EXCEPT ![t] = r] \in [Problems -> Ticket]
           /\ \A g \in Issue : [group EXCEPT ![t] = g] \in [Problems -> Issue]
<1>1. ticket \in [Problems -> Ticket] /\ group \in [Problems -> Issue]
    BY DEF FixTypes
<1>2. /\ \A r \in Ticket : [ticket EXCEPT ![t] = r] \in [Problems -> Ticket]
      /\ \A g \in Issue : [group EXCEPT ![t] = g] \in [Problems -> Issue]
    BY <1>1
<1>3. ticket[t] \in Ticket /\ group[t] \in Issue
    BY <1>1
<1>4. /\ ticket[t].gen \in 0..MaxGen /\ ticket[t].ev \in 0..MaxEvidence
      /\ ticket[t].again \in BOOLEAN /\ ticket[t].live \in {"no", "yes", "archived"}
      /\ group[t].exec \in Nat /\ group[t].result \in Nat /\ group[t].used \in 0..MaxEvidence
    BY <1>3 DEF Ticket, Issue
<1> QED
    BY <1>1, <1>2, <1>3, <1>4 DEF FixTypes

LEMMA ProbeUpdate ==
    ASSUME FixTypes, NEW t \in Problems, NEW s \in Seq(Probe), Len(s) <= MaxInvestigations,
           probe' = [probe EXCEPT ![t] = s]
    PROVE  /\ probe' \in [Problems -> Seq(Probe)]
           /\ \A u \in Problems : Len(probe'[u]) <= MaxInvestigations
<1>1. probe \in [Problems -> Seq(Probe)] /\ \A u \in Problems : Len(probe[u]) <= MaxInvestigations
    BY DEF FixTypes
<1>2. probe' \in [Problems -> Seq(Probe)]
    BY <1>1
<1>3. \A u \in Problems : probe'[u] = IF u = t THEN s ELSE probe[u]
    BY <1>1
<1> QED
    BY <1>1, <1>2, <1>3

\* Every step keeps the variables in their types.
LEMMA PublicationTypes ==
    ASSUME FixTypes, NEW t \in Problems, Publish(t) \/ TakeBack(t) \/ NewEvidence(t)
    PROVE  FixTypes'
<1> USE Bounds
<1>t. /\ ticket[t] \in Ticket /\ ticket[t].gen \in 0..MaxGen /\ ticket[t].ev \in 0..MaxEvidence
      /\ ticket[t].again \in BOOLEAN
    BY ProblemTypes
<1>1. ASSUME Publish(t) PROVE FixTypes'
  <2>1. ticket' \in [Problems -> Ticket]
    <3> DEFINE r == [ticket[t] EXCEPT !.live = "yes", !.gen = ticket[t].gen + 1]
    <3>1. r \in Ticket
      <4>1. ticket[t].gen < MaxGen
          BY <1>1 DEF Publish
      <4>2. ticket[t].gen + 1 \in 0..MaxGen
          BY <4>1, <1>t
      <4> QED
          BY <4>2, <1>t DEF Ticket
    <3>2. ticket' = [ticket EXCEPT ![t] = r]
        BY <1>1 DEF Publish
    <3> HIDE DEF r
    <3> QED
        BY <3>1, <3>2, ProblemTypes
  <2>2. [NewGroup EXCEPT !.used = ticket[t].ev] \in Issue
      BY DEF NewGroup, Issue, FixTypes, Ticket
  <2>3. group' \in [Problems -> Issue]
      BY <1>1, <2>2 DEF Publish, FixTypes
  <2>4. NewProbe \in Probe
      BY DEF NewProbe, Probe, Queued
  <2>5. <<NewProbe>> \in Seq(Probe) /\ Len(<<NewProbe>>) = 1
      BY <2>4
  <2>6. /\ probe' \in [Problems -> Seq(Probe)]
        /\ \A u \in Problems : Len(probe'[u]) <= MaxInvestigations
    <3>1. PICK s : s = <<NewProbe>>
        OBVIOUS
    <3>2. s \in Seq(Probe) /\ Len(s) <= MaxInvestigations /\ probe' = [probe EXCEPT ![t] = s]
        BY <1>1, <2>5, <3>1 DEF Publish
    <3> QED
        BY <3>2, ProbeUpdate
  <2>7. mind' \in [Problems -> SUBSET Mind]
      BY <1>1 DEF Publish, FixTypes
  <2> QED
      BY <1>1, <2>1, <2>3, <2>6, <2>7, RetiredTypes DEF Publish, FixTypes, outside, Ids, Event
<1>2. ASSUME TakeBack(t) PROVE FixTypes'
  <2>1. ticket' \in [Problems -> Ticket]
    <3>1. PICK r \in {[ticket[t] EXCEPT !.live = "no"],
                      [ticket[t] EXCEPT !.live = "archived", !.again = FALSE]} :
            ticket' = [ticket EXCEPT ![t] = r]
        BY <1>2 DEF TakeBack
    <3>2. r \in Ticket
        BY <1>t DEF Ticket
    <3> QED
        BY <3>1, <3>2, ProblemTypes
  <2>2. /\ probe' \in [Problems -> Seq(Probe)]
        /\ \A u \in Problems : Len(probe'[u]) <= MaxInvestigations
      BY <1>2 DEF TakeBack, FixTypes
  <2>3. mind' \in [Problems -> SUBSET Mind]
      BY <1>2 DEF TakeBack, FixTypes
  <2>4. events' \subseteq Event
      BY <1>2 DEF TakeBack, FixTypes
  <2>5. faults' \in 0..MaxFaults
      BY <1>2 DEF TakeBack, FixTypes
  <2> QED
      BY <1>2, <2>1, <2>2, <2>3, <2>4, <2>5, RetiredTypes DEF TakeBack, FixTypes, outside, Ids, Event
<1>3. ASSUME NewEvidence(t) PROVE FixTypes'
  <2> DEFINE k == [ticket[t] EXCEPT !.ev = @ + 1]
  <2>1. k \in Ticket /\ [k EXCEPT !.again = FALSE] \in Ticket
    <3>1. ticket[t].ev < MaxEvidence
        BY <1>3 DEF NewEvidence
    <3>2. ticket[t].ev + 1 \in 0..MaxEvidence
        BY <3>1, <1>t
    <3> QED
        BY <3>2, <1>t DEF Ticket
  <2>2. ticket' \in [Problems -> Ticket]
    <3>1. \/ ticket' = [ticket EXCEPT ![t] = k]
          \/ ticket' = [ticket EXCEPT ![t] = [k EXCEPT !.again = FALSE]]
        BY <1>3 DEF NewEvidence
    <3> HIDE DEF k
    <3> QED
        BY <2>1, <3>1, ProblemTypes
  <2>3. group' \in [Problems -> Issue]
    <3>1. group' = group \/ \E c \in Causes(group[t].cause) : group' = [group EXCEPT ![t].cause = c]
        BY <1>3 DEF NewEvidence
    <3> QED
      <4>1. group[t] \in Issue
          BY ProblemTypes
      <4>2. \A c \in Causes(group[t].cause) : [group[t] EXCEPT !.cause = c] \in Issue
          BY <4>1 DEF Issue, Causes
      <4>3. \A g \in Issue : [group EXCEPT ![t] = g] \in [Problems -> Issue]
          BY ProblemTypes
      <4>4. \A c : [group EXCEPT ![t].cause = c] = [group EXCEPT ![t] = [group[t] EXCEPT !.cause = c]]
          OBVIOUS
      <4>5. CASE group' = group
          BY <4>5, ProblemTypes
      <4>6. ASSUME NEW c \in Causes(group[t].cause), group' = [group EXCEPT ![t].cause = c]
            PROVE  group' \in [Problems -> Issue]
          BY <4>2, <4>3, <4>4, <4>6
      <4> QED
          BY <3>1, <4>5, <4>6
  <2>4. NewProbe \in Probe
      BY DEF NewProbe, Probe, Queued
  <2>5. Append(probe[t], NewProbe) \in Seq(Probe)
        /\ Len(Append(probe[t], NewProbe)) = Len(probe[t]) + 1
      BY <2>4 DEF FixTypes
  <2>6. probe' = probe \/ (CanInvestigate(t, 0) /\ probe' = [probe EXCEPT ![t] = Append(@, NewProbe)])
      BY <1>3 DEF NewEvidence, FixTypes
  <2>7. /\ probe' \in [Problems -> Seq(Probe)]
        /\ \A u \in Problems : Len(probe'[u]) <= MaxInvestigations
    <3>1. CASE probe' = probe
        BY <3>1, ProblemTypes
    <3>2. CASE CanInvestigate(t, 0) /\ probe' = [probe EXCEPT ![t] = Append(@, NewProbe)]
      <4>1. PICK s : s = Append(probe[t], NewProbe)
          OBVIOUS
      <4>2. s \in Seq(Probe) /\ Len(s) <= MaxInvestigations /\ probe' = [probe EXCEPT ![t] = s]
          BY <2>5, <3>2, <4>1, ProblemTypes DEF CanInvestigate
      <4> QED
          BY <4>2, ProbeUpdate
    <3> QED
        BY <2>6, <3>1, <3>2
  <2> QED
      BY <1>3, <2>2, <2>3, <2>7 DEF NewEvidence, FixTypes, outside, fixing, Ids, Event
<1> QED
    BY <1>1, <1>2, <1>3

LEMMA InvestigationTypes ==
    ASSUME FixTypes, NEW t \in Problems,
           \/ \E j \in DOMAIN probe[t] : ProbeStarts(t, j) \/ ProbeBegins(t, j) \/ ProbeStops(t, j)
           \/ \E h \in mind[t] : h.job \in DOMAIN probe[t] /\ ProbeFinishes(t, h)
    PROVE  FixTypes'
<1> USE Bounds
<1>0. ASSUME NEW j \in DOMAIN probe[t], NEW p \in Probe, probe' = [probe EXCEPT ![t] = [probe[t] EXCEPT ![j] = p]]
      PROVE  /\ probe' \in [Problems -> Seq(Probe)]
             /\ \A u \in Problems : Len(probe'[u]) <= MaxInvestigations
  <2>1. [probe[t] EXCEPT ![j] = p] \in Seq(Probe) /\ Len([probe[t] EXCEPT ![j] = p]) = Len(probe[t])
      BY ProbeTypes, SeqUpdate
  <2> QED
      BY <1>0, <2>1, ProblemTypes, ProbeUpdate
<1>1. ASSUME NEW j \in DOMAIN probe[t], ProbeStarts(t, j) PROVE FixTypes'
  <2> DEFINE p == [probe[t][j] EXCEPT !.status = "claimed", !.claim = probe[t][j].claim + 1]
  <2>1. probe[t][j] \in Probe
      BY ProbeTypes
  <2>2. p \in Probe
    <3>1. probe[t][j].claim + 1 \in Nat
        BY <2>1 DEF Probe
    <3> QED
        BY <2>1, <3>1 DEF Probe, Queued
  <2>3. probe' = [probe EXCEPT ![t] = [probe[t] EXCEPT ![j] = p]]
      BY <1>1 DEF ProbeStarts
  <2> HIDE DEF p
  <2> QED
      BY <1>0, <1>1, <2>2, <2>3 DEF ProbeStarts, FixTypes, outside, fixing, Ids, Event
<1>2. ASSUME NEW j \in DOMAIN probe[t], ProbeBegins(t, j) PROVE FixTypes'
  <2> DEFINE x == group[t].exec + 1
             p == [probe[t][j] EXCEPT !.exec = x, !.ev = ticket[t].ev]
             e == [probe[t][j] EXCEPT !.status = "ended"]
  <2>1. p \in Probe /\ e \in Probe
    <3>1. x \in Nat /\ ticket[t].ev \in 0..MaxEvidence /\ probe[t][j] \in Probe
        BY ProbeTypes, ProblemTypes DEF Ticket, Issue
    <3> QED
        BY <3>1 DEF Probe, Queued
  <2>2. CASE group[t].sub = "resolved"
    <3>1. probe' = [probe EXCEPT ![t] = [probe[t] EXCEPT ![j] = e]]
        BY <1>2, <2>2 DEF ProbeBegins, FixTypes
    <3> HIDE DEF e
    <3> QED
        BY <1>0, <1>2, <2>1, <2>2, <3>1 DEF ProbeBegins, FixTypes, outside, fixing, Ids, Event
  <2>3. CASE group[t].sub # "resolved"
    <3>1. probe' = [probe EXCEPT ![t] = [probe[t] EXCEPT ![j] = p]]
        BY <1>2, <2>3 DEF ProbeBegins
    <3>2. group' \in [Problems -> Issue]
      <4>1. group' = [group EXCEPT ![t] = [group[t] EXCEPT !.exec = x, !.inv = "pending"]]
          BY <1>2, <2>3 DEF ProbeBegins
      <4>2. [group[t] EXCEPT !.exec = x, !.inv = "pending"] \in Issue
        <5>1. group[t] \in Issue /\ x \in Nat
            BY ProblemTypes
        <5> QED
            BY <5>1 DEF Issue
      <4> QED
          BY <4>1, <4>2, ProblemTypes
    <3>3. [job |-> j, claim |-> probe[t][j].claim, exec |-> x, ev |-> ticket[t].ev] \in Mind
      <4>1. j \in Nat /\ x \in Nat /\ ticket[t].ev \in 0..MaxEvidence /\ probe[t][j] \in Probe
          BY ProbeTypes, ProblemTypes DEF Ticket, Issue
      <4> QED
          BY <4>1 DEF Mind, Probe
    <3>4. mind' = [mind EXCEPT ![t] = @ \cup
            {[job |-> j, claim |-> probe[t][j].claim, exec |-> x, ev |-> ticket[t].ev]}]
        BY <1>2, <2>3 DEF ProbeBegins
    <3> HIDE DEF p, x
    <3>5. mind' \in [Problems -> SUBSET Mind]
        BY <3>3, <3>4, ProblemTypes
    <3> QED
        BY <1>0, <1>2, <2>1, <2>3, <3>1, <3>2, <3>5
           DEF ProbeBegins, FixTypes, outside, fixing, Ids, Event
  <2> QED
      BY <2>2, <2>3
<1>3. ASSUME NEW j \in DOMAIN probe[t], ProbeStops(t, j) PROVE FixTypes'
  <2>1. PICK s \in {"pending", "ended"} :
          probe' = [probe EXCEPT ![t] = [probe[t] EXCEPT ![j] = [probe[t][j] EXCEPT !.status = s]]]
      BY <1>3 DEF ProbeStops, FixTypes
  <2>2. [probe[t][j] EXCEPT !.status = s] \in Probe
      BY ProbeTypes DEF Probe, Queued
  <2>3. ProbeFailed(t, j, group[t]) \in Issue
    <3>1. probe[t][j].ev \in 0..MaxEvidence /\ group[t] \in Issue
        BY ProbeTypes, ProblemTypes DEF Probe
    <3> QED
        BY <3>1 DEF ProbeFailed, Issue
  <2>4. group' \in [Problems -> Issue]
      BY <1>3, <2>3 DEF ProbeStops, FixTypes
  <2>5. ticket' \in [Problems -> Ticket]
    <3>1. ticket' = ticket \/ \E b \in BOOLEAN : ticket' = [ticket EXCEPT ![t].again = b]
        BY <1>3, ProblemTypes DEF ProbeStops, Ticket
    <3> QED
      <4>1. \A b \in BOOLEAN : [ticket[t] EXCEPT !.again = b] \in Ticket
        <5>1. ticket[t] \in Ticket
            BY ProblemTypes
        <5> QED
            BY <5>1 DEF Ticket
      <4> QED
          BY <3>1, <4>1, ProblemTypes, ZenonT(60)
  <2>6. mind' \in [Problems -> SUBSET Mind]
      BY <1>3 DEF ProbeStops, FixTypes
  <2>7. faults' \in 0..MaxFaults
      BY <1>3 DEF ProbeStops, FixTypes
  <2> QED
      BY <1>0, <1>3, <2>1, <2>2, <2>4, <2>5, <2>6, <2>7
         DEF ProbeStops, FixTypes, outside, fixing, Ids, Event
<1>4. ASSUME NEW h \in mind[t], h.job \in DOMAIN probe[t], ProbeFinishes(t, h) PROVE FixTypes'
  <2> DEFINE j == h.job
             e == [probe[t] EXCEPT ![j] = [@ EXCEPT !.status = "ended"]]
  <2>0. h \in Mind
      BY DEF FixTypes
  <2>1. mind' \in [Problems -> SUBSET Mind]
      BY <1>4 DEF ProbeFinishes, FixTypes
  <2>2. CASE ~AppliesResult(t, h)
    <3>1. CASE OwnsProbe(t, h)
      <4>1. [probe[t][j] EXCEPT !.status = "ended"] \in Probe
          BY <1>4, ProbeTypes, ZenonT(60) DEF Probe, Queued
      <4>2. probe' = [probe EXCEPT ![t] = [probe[t] EXCEPT ![j] = [probe[t][j] EXCEPT !.status = "ended"]]]
          BY <1>4, <2>2, <3>1 DEF ProbeFinishes, Adopts
      <4>3. /\ probe' \in [Problems -> Seq(Probe)]
            /\ \A u \in Problems : Len(probe'[u]) <= MaxInvestigations
          BY <1>0, <1>4, <4>1, <4>2
      <4> QED
          BY <1>4, <2>1, <2>2, <4>3 DEF ProbeFinishes, FixTypes, outside, fixing, Ids, Event
    <3>2. CASE ~OwnsProbe(t, h)
        BY <1>4, <2>1, <2>2, <3>2 DEF ProbeFinishes, FixTypes, outside, fixing, Ids, Event
    <3> QED
        BY <3>1, <3>2
  <2>3. CASE AppliesResult(t, h)
    <3>0. PICK d \in BOOLEAN, c \in {"none", "short", "covers"} : Adopts(t, h, d, c)
        BY <1>4, <2>3 DEF ProbeFinishes
    <3>1. group' \in [Problems -> Issue]
      <4> DEFINE i == IF d /\ ~(d /\ c = "covers") /\ group[t].sub = "none" /\ ticket[t].ev > h.ev
                         /\ CanInvestigate(t, h.job)
                      THEN "pending" ELSE IF d THEN "done" ELSE "failed"
      <4>1. group' = [group EXCEPT ![t].inv = i, ![t].result = h.exec, ![t].used = h.ev, ![t].cause = c]
          BY <3>0 DEF Adopts
      <4>2. i \in {"pending", "done", "failed"}
          OBVIOUS
      <4> HIDE DEF i
      <4>3. group' = [group EXCEPT ![t] = [group[t] EXCEPT !.inv = i, !.result = h.exec, !.used = h.ev, !.cause = c]]
          BY <4>1
      <4>4. group[t] \in Issue /\ h.exec \in Nat /\ h.ev \in 0..MaxEvidence
          BY <2>0, ProblemTypes DEF Mind
      <4>5. [group[t] EXCEPT !.inv = i, !.result = h.exec, !.used = h.ev, !.cause = c] \in Issue
          BY <4>2, <4>4 DEF Issue
      <4> QED
          BY <4>3, <4>5, ProblemTypes
    <3>2. ticket' \in [Problems -> Ticket] /\ ask' \in [Problems -> 0..MaxGen]
      <4>1. PICK b \in BOOLEAN : ticket' = [ticket EXCEPT ![t].again = b]
          BY <3>0 DEF Adopts
      <4>2. ask' = [ask EXCEPT ![t] = ticket[t].gen] \/ ask' = [ask EXCEPT ![t] = ask[t]]
          BY <3>0 DEF Adopts
      <4>3. ask \in [Problems -> 0..MaxGen]
          BY DEF FixTypes
      <4>4. ticket' = [ticket EXCEPT ![t] = [ticket[t] EXCEPT !.again = b]]
          BY <4>1
      <4>5. ticket[t] \in Ticket /\ ticket[t].gen \in 0..MaxGen
          BY ProblemTypes
      <4>6. [ticket[t] EXCEPT !.again = b] \in Ticket
          BY <4>5 DEF Ticket
      <4>7. ask' \in [Problems -> 0..MaxGen]
          BY <4>2, <4>3, <4>5
      <4> QED
          BY <4>4, <4>6, <4>7, ProblemTypes
    <3>3. [probe[t][j] EXCEPT !.status = "ended"] \in Probe
        BY <1>4, ProbeTypes DEF Probe, Queued
    <3>4. e \in Seq(Probe) /\ Len(e) = Len(probe[t])
        BY <1>4, <3>3, ProbeTypes, SeqUpdate
    <3>5. NewProbe \in Probe
        BY DEF NewProbe, Probe, Queued
    <3>6. Append(e, NewProbe) \in Seq(Probe) /\ Len(Append(e, NewProbe)) = Len(probe[t]) + 1
        BY <3>4, <3>5
    <3>7. \/ probe' = [probe EXCEPT ![t] = e]
          \/ CanInvestigate(t, j) /\ probe' = [probe EXCEPT ![t] = Append(e, NewProbe)]
        BY <3>0 DEF Adopts
    <3> HIDE DEF e
    <3>8. /\ probe' \in [Problems -> Seq(Probe)]
          /\ \A u \in Problems : Len(probe'[u]) <= MaxInvestigations
      <4>1. CASE probe' = [probe EXCEPT ![t] = e]
          BY <3>4, <4>1, ProblemTypes, ProbeUpdate
      <4>2. CASE CanInvestigate(t, j) /\ probe' = [probe EXCEPT ![t] = Append(e, NewProbe)]
        <5>1. PICK s : s = Append(e, NewProbe)
            OBVIOUS
        <5>2. s \in Seq(Probe) /\ Len(s) <= MaxInvestigations /\ probe' = [probe EXCEPT ![t] = s]
            BY <3>6, <4>2, <5>1, ProblemTypes DEF CanInvestigate
        <5> QED
            BY <5>2, ProbeUpdate
      <4> QED
          BY <3>7, <4>1, <4>2
    <3> QED
        BY <1>4, <2>1, <3>1, <3>2, <3>8 DEF ProbeFinishes, FixTypes, outside, fixing, Ids, Event
  <2> QED
      BY <2>2, <2>3
<1> QED
    BY <1>1, <1>2, <1>3, <1>4

LEMMA AttemptTypes ==
    ASSUME FixTypes, NEW i \in DOMAIN att
    PROVE  /\ att \in Seq(Attempt) /\ Len(att) <= MaxAttempts /\ DOMAIN att = 1..Len(att)
           /\ i \in Ids /\ i \in 1..Len(att)
           /\ att[i] \in Attempt /\ att[i].t \in Problems
           /\ run \in [Ids -> Seq(Execution)] /\ run[i] \in Seq(Execution)
           /\ prs \in [Ids -> Seq({"open", "closed", "merged"})] /\ Len(prs[i]) <= MaxPrs
           /\ prs[i] \in Seq({"open", "closed", "merged"})
           /\ \A a \in Attempt :
                /\ [att EXCEPT ![i] = a] \in Seq(Attempt)
                /\ Len([att EXCEPT ![i] = a]) = Len(att)
                /\ DOMAIN [att EXCEPT ![i] = a] = DOMAIN att
                /\ [att EXCEPT ![i] = a][i] = a
                /\ \A k \in DOMAIN att : k # i => [att EXCEPT ![i] = a][k] = att[k]
           /\ \A s \in Seq(Execution) : [run EXCEPT ![i] = s] \in [Ids -> Seq(Execution)]
<1>1. /\ att \in Seq(Attempt) /\ Len(att) <= MaxAttempts
      /\ run \in [Ids -> Seq(Execution)]
      /\ prs \in [Ids -> Seq({"open", "closed", "merged"})]
      /\ \A k \in Ids : Len(prs[k]) <= MaxPrs
    BY DEF FixTypes
<1>2. DOMAIN att = 1..Len(att) /\ i \in 1..Len(att) /\ att[i] \in Attempt
    BY <1>1
<1>3. i \in Ids
    BY <1>1, <1>2, Bounds DEF Ids
<1>4. att[i].t \in Problems
    BY <1>2 DEF Attempt
<1>5. /\ run[i] \in Seq(Execution) /\ prs[i] \in Seq({"open", "closed", "merged"})
      /\ Len(prs[i]) <= MaxPrs
    BY <1>1, <1>3
<1>6. \A s \in Seq(Execution) : [run EXCEPT ![i] = s] \in [Ids -> Seq(Execution)]
    BY <1>1
<1>7. ASSUME NEW a \in Attempt
      PROVE  /\ [att EXCEPT ![i] = a] \in Seq(Attempt)
             /\ Len([att EXCEPT ![i] = a]) = Len(att)
             /\ DOMAIN [att EXCEPT ![i] = a] = DOMAIN att
             /\ [att EXCEPT ![i] = a][i] = a
             /\ \A k \in DOMAIN att : k # i => [att EXCEPT ![i] = a][k] = att[k]
  <2>1. /\ [att EXCEPT ![i] = a] \in Seq(Attempt)
        /\ Len([att EXCEPT ![i] = a]) = Len(att)
        /\ DOMAIN [att EXCEPT ![i] = a] = DOMAIN att
      BY <1>1, SeqUpdate
  <2> QED
      BY <2>1
<1> QED
    BY <1>1, <1>2, <1>3, <1>4, <1>5, <1>6, <1>7

LEMMA ExecutionTypes ==
    ASSUME FixTypes, NEW i \in DOMAIN att, NEW k \in DOMAIN run[i]
    PROVE  /\ run[i][k] \in Execution /\ DOMAIN run[i] = 1..Len(run[i]) /\ k \in 1..Len(run[i])
           /\ run[i][k].pr \in 0..MaxPrs
           /\ \A x \in Execution :
                /\ [run[i] EXCEPT ![k] = x] \in Seq(Execution)
                /\ Len([run[i] EXCEPT ![k] = x]) = Len(run[i])
                /\ [run EXCEPT ![i] = [run[i] EXCEPT ![k] = x]] \in [Ids -> Seq(Execution)]
<1>1. run[i] \in Seq(Execution)
    BY AttemptTypes
<1>2. run[i][k] \in Execution /\ DOMAIN run[i] = 1..Len(run[i]) /\ k \in 1..Len(run[i])
    BY <1>1
<1>3. \A x \in Execution : /\ [run[i] EXCEPT ![k] = x] \in Seq(Execution)
                           /\ Len([run[i] EXCEPT ![k] = x]) = Len(run[i])
    BY <1>1, SeqUpdate
<1>4. \A s \in Seq(Execution) : [run EXCEPT ![i] = s] \in [Ids -> Seq(Execution)]
    BY AttemptTypes
<1> QED
    BY <1>2, <1>3, <1>4 DEF Execution

DeliveryTypes ==
    /\ group \in [Problems -> Issue]
    /\ att \in Seq(Attempt) /\ Len(att) <= MaxAttempts
    /\ run \in [Ids -> Seq(Execution)]
    /\ prs \in [Ids -> Seq({"open", "closed", "merged"})]
    /\ \A i \in Ids : Len(prs[i]) <= MaxPrs
    /\ mail \subseteq Event /\ events \subseteq Event
    /\ faults \in 0..MaxFaults

LEMMA ProbingUntouched ==
    ASSUME FixTypes, DeliveryTypes', UNCHANGED <<ticket, probe, mind>>, ask' \in [Problems -> 0..MaxGen]
    PROVE  FixTypes'
BY DEF FixTypes, DeliveryTypes, Ids, Event, Mind

LEMMA HaveDeliveryTypes == FixTypes => DeliveryTypes
BY DEF FixTypes, DeliveryTypes

\* What a pull request's event does to an attempt and its incident.
LEMMA ApplyPrEventEffect ==
    ASSUME FixTypes, NEW i \in DOMAIN att, NEW p \in 0..MaxPrs,
           NEW w \in {"opened", "merged", "closed"}, ApplyPrEvent(i, p, w)
    PROVE  \/ att' = att /\ group' = group /\ ~EventCurrent(i)
           \/ /\ EventCurrent(i)
              /\ \E a \in Attempt :
                   /\ att' = [att EXCEPT ![i] = a]
                   /\ a.t = att[i].t /\ a.gen = att[i].gen /\ a.by = att[i].by
                   /\ a.job = att[i].job /\ a.reserved = att[i].reserved
                   /\ a.pr = p /\ a.status = StatusAfter(w)
              /\ group' = [group EXCEPT ![att[i].t].sub = SubAfter(w)]
<1>1. CASE ~EventCurrent(i)
    BY <1>1 DEF ApplyPrEvent
<1>2. CASE EventCurrent(i)
  <2> DEFINE a == [att[i] EXCEPT !.status = StatusAfter(w), !.pr = p]
  <2>1. att' = [att EXCEPT ![i] = a] /\ group' = [group EXCEPT ![att[i].t].sub = SubAfter(w)]
      BY <1>2 DEF ApplyPrEvent
  <2>2. att[i] \in Attempt
      BY AttemptTypes
  <2>3. StatusAfter(w) \in Outstanding \cup {"failed", "merged", "closed", "superseded"}
      BY DEF StatusAfter, Outstanding
  <2>4. /\ a \in Attempt
        /\ a.t = att[i].t /\ a.gen = att[i].gen /\ a.by = att[i].by
        /\ a.job = att[i].job /\ a.reserved = att[i].reserved
        /\ a.pr = p /\ a.status = StatusAfter(w)
      BY <2>2, <2>3 DEF Attempt
  <2> HIDE DEF a
  <2> QED
      BY <1>2, <2>1, <2>4
<1> QED
    BY <1>1, <1>2

LEMMA OrphanEffect ==
    ASSUME FixTypes, NEW i \in DOMAIN att, NEW p \in 0..MaxPrs, ApplyOrphan(i, p)
    PROVE  /\ group' = group
           /\ \/ att' = att
              \/ /\ ~CurrentLineage(i)
                 /\ \E a \in Attempt :
                      /\ att' = [att EXCEPT ![i] = a]
                      /\ a.t = att[i].t /\ a.gen = att[i].gen /\ a.by = att[i].by
                      /\ a.job = att[i].job /\ a.reserved = att[i].reserved
                      /\ a.status = IF att[i].status \in Outstanding THEN "superseded" ELSE att[i].status
<1>1. CASE CurrentLineage(i)
    BY <1>1 DEF ApplyOrphan
<1>2. CASE ~CurrentLineage(i)
  <2> DEFINE a == [att[i] EXCEPT !.pr = p,
                      !.status = IF @ \in Outstanding THEN "superseded" ELSE @]
  <2>1. att' = [att EXCEPT ![i] = a]
      BY <1>2 DEF ApplyOrphan
  <2>2. att[i] \in Attempt
      BY AttemptTypes
  <2>3. /\ a \in Attempt
        /\ a.t = att[i].t /\ a.gen = att[i].gen /\ a.by = att[i].by
        /\ a.job = att[i].job /\ a.reserved = att[i].reserved
        /\ a.status = IF att[i].status \in Outstanding THEN "superseded" ELSE att[i].status
      BY <2>2 DEF Attempt, Outstanding
  <2> HIDE DEF a
  <2> QED
      BY <1>2, <2>1, <2>3 DEF ApplyOrphan
<1> QED
    BY <1>1, <1>2

LEMMA FixFailedEffect ==
    ASSUME FixTypes, NEW i \in DOMAIN att, FixFailed(i)
    PROVE  /\ \E a \in Attempt :
                /\ att' = [att EXCEPT ![i] = a]
                /\ a.t = att[i].t /\ a.gen = att[i].gen /\ a.by = att[i].by
                /\ a.pr = att[i].pr /\ a.reserved = att[i].reserved /\ a.job = "ended"
                /\ att[i].status # "active" => a.status = att[i].status
                /\ att[i].status = "active" => a.status \in {"failed", "superseded"}
           /\ group' = IF att[i].status = "active" /\ CurrentLineage(i) /\ group[att[i].t].sub = "fixing"
                       THEN [group EXCEPT ![att[i].t].sub = "none"] ELSE group
<1>1. att' = [att EXCEPT ![i] = Failed(att[i], att[i].t)]
    BY DEF FixFailed
<1>2. att[i].t \in Problems
    BY AttemptTypes
<1> QED
    BY <1>1, <1>2, FailedTypes DEF FixFailed

Substates == {"none", "fixing", "pr_open", "resolved"}

Goes(st, s) ==
    /\ st = "active" <=> s = "fixing"
    /\ st = "pr_open" <=> s = "pr_open"
    /\ st = "merged" <=> s = "resolved"

\* A step of the delivery of attempt i: the attempt becomes a and its incident
\* shows s; neither changes, or the attempt was outstanding and they agree.
Moves(i, a, s) ==
    /\ a \in Attempt /\ a.t = att[i].t /\ a.gen = att[i].gen /\ a.by = att[i].by
    /\ att' = [att EXCEPT ![i] = a]
    /\ s \in Substates
    /\ group' = [group EXCEPT ![att[i].t].sub = s]
    /\ \/ a.status = att[i].status /\ s = group[att[i].t].sub
       \/ att[i].status \in Outstanding /\ Goes(a.status, s)
    /\ ticket' = ticket

LEMMA MovesEffect ==
    ASSUME FixTypes, NEW i \in DOMAIN att, NEW a, NEW s, Moves(i, a, s)
    PROVE  /\ att' \in Seq(Attempt) /\ Len(att') = Len(att) /\ DOMAIN att' = DOMAIN att
           /\ att'[i] = a
           /\ \A k \in DOMAIN att :
                /\ k # i => att'[k] = att[k]
                /\ att'[k].t = att[k].t /\ att'[k].gen = att[k].gen /\ att'[k].by = att[k].by
                /\ CurrentLineage(k)' <=> CurrentLineage(k)
           /\ group' \in [Problems -> Issue]
           /\ \A t \in Problems :
                /\ group'[t].sub = IF t = att[i].t THEN s ELSE group[t].sub
                /\ group'[t].inv = group[t].inv /\ group'[t].exec = group[t].exec
                /\ group'[t].result = group[t].result /\ group'[t].used = group[t].used
<1>1. a \in Attempt /\ a.t = att[i].t /\ a.gen = att[i].gen /\ a.by = att[i].by
      /\ att' = [att EXCEPT ![i] = a]
    BY DEF Moves
<1>2. /\ att' \in Seq(Attempt) /\ Len(att') = Len(att) /\ DOMAIN att' = DOMAIN att
      /\ att'[i] = a /\ \A k \in DOMAIN att : k # i => att'[k] = att[k]
    BY <1>1, AttemptTypes
<1>3. \A k \in DOMAIN att : att'[k].t = att[k].t /\ att'[k].gen = att[k].gen /\ att'[k].by = att[k].by
    BY <1>1, <1>2
<1>4. PICK t \in Problems : t = att[i].t
    BY AttemptTypes
<1>5. group[t] \in Issue /\ group \in [Problems -> Issue]
    BY ProblemTypes
<1>6. PICK g : g = [group[t] EXCEPT !.sub = s]
    OBVIOUS
<1>7. g \in Issue /\ g.sub = s /\ g.inv = group[t].inv /\ g.exec = group[t].exec
      /\ g.result = group[t].result /\ g.used = group[t].used
    BY <1>5, <1>6 DEF Issue, Moves, Substates
<1>8. group' = [group EXCEPT ![t] = g]
    BY <1>4, <1>6 DEF Moves
<1>9. /\ group' \in [Problems -> Issue] /\ group'[t] = g
      /\ \A u \in Problems : u # t => group'[u] = group[u]
    BY <1>5, <1>7, <1>8
<1>10. \A u \in Problems :
                /\ group'[u].sub = IF u = att[i].t THEN s ELSE group[u].sub
                /\ group'[u].inv = group[u].inv /\ group'[u].exec = group[u].exec
                /\ group'[u].result = group[u].result /\ group'[u].used = group[u].used
    BY <1>4, <1>7, <1>9
<1>11. \A k \in DOMAIN att : CurrentLineage(k)' <=> CurrentLineage(k)
    BY <1>3 DEF CurrentLineage, Live, Moves
<1> QED
    BY <1>2, <1>3, <1>9, <1>10, <1>11

LEMMA MovesOneFix ==
    ASSUME FixTypes, OneFix, NEW i \in DOMAIN att, NEW a, NEW s, Moves(i, a, s)
    PROVE  OneFix'
<1> DEFINE t == att[i].t
<1>0. t \in Problems /\ ticket' = ticket
    BY AttemptTypes DEF Moves
<1>1. /\ DOMAIN att' = DOMAIN att /\ att'[i] = a
      /\ \A k \in DOMAIN att :
                /\ k # i => att'[k] = att[k]
                /\ att'[k].t = att[k].t /\ att'[k].gen = att[k].gen
                /\ CurrentLineage(k)' <=> CurrentLineage(k)
      /\ \A u \in Problems : group'[u].sub = IF u = t THEN s ELSE group[u].sub
    BY MovesEffect
<1>2. \A k \in DOMAIN att : att[k].t \in Problems
    BY AttemptTypes
<1>3. CASE a.status = att[i].status /\ s = group[t].sub
  <2>1. \A k \in DOMAIN att : att'[k].status = att[k].status
      BY <1>1, <1>3
  <2>2. \A u \in Problems : group'[u].sub = group[u].sub
      BY <1>1, <1>3
  <2>3. \A k \in DOMAIN att' :
         /\ att'[k].gen <= ticket'[att'[k].t].gen
         /\ att'[k].status \in Outstanding =>
              /\ CurrentLineage(k)'
              /\ \A m \in DOMAIN att' :
                   att'[m].status \in Outstanding /\ att'[m].t = att'[k].t => m = k
         /\ att'[k].status = "active" => group'[att'[k].t].sub = "fixing"
         /\ att'[k].status = "pr_open" => group'[att'[k].t].sub = "pr_open"
      BY <1>0, <1>1, <1>2, <2>1, <2>2 DEF OneFix
  <2>4. ASSUME NEW u \in Problems, Live(u)'
        PROVE  /\ ticket'[u].gen > 0
               /\ group'[u].sub = "fixing" =>
                    \E k \in DOMAIN att' : att'[k].t = u /\ att'[k].status = "active"
               /\ group'[u].sub = "pr_open" =>
                    \E k \in DOMAIN att' : att'[k].t = u /\ att'[k].status = "pr_open"
               /\ group'[u].sub = "resolved" => \E k \in AttemptsOf(u)' : att'[k].status = "merged"
      BY <1>0, <1>1, <2>1, <2>2, <2>4 DEF OneFix, Live, AttemptsOf
  <2> QED
      BY <2>3, <2>4 DEF OneFix
<1>4. CASE att[i].status \in Outstanding /\ Goes(a.status, s)
  <2>1. /\ CurrentLineage(i)
        /\ \A k \in DOMAIN att : att[k].status \in Outstanding /\ att[k].t = t => k = i
      BY <1>4 DEF OneFix
  <2>2. \A k \in DOMAIN att :
          /\ att'[k].status \in Outstanding => att[k].status \in Outstanding
          /\ k # i => att'[k].status = att[k].status
      BY <1>1, <1>4
  <2>3. \A k \in DOMAIN att' :
         /\ att'[k].gen <= ticket'[att'[k].t].gen
         /\ att'[k].status \in Outstanding =>
              /\ CurrentLineage(k)'
              /\ \A m \in DOMAIN att' :
                   att'[m].status \in Outstanding /\ att'[m].t = att'[k].t => m = k
         /\ att'[k].status = "active" => group'[att'[k].t].sub = "fixing"
         /\ att'[k].status = "pr_open" => group'[att'[k].t].sub = "pr_open"
    <3>1. TAKE k \in DOMAIN att'
    <3>2. att'[k].gen <= ticket'[att'[k].t].gen
        BY <1>0, <1>1 DEF OneFix
    <3>3. ASSUME att'[k].status \in Outstanding
          PROVE  /\ CurrentLineage(k)'
                 /\ \A m \in DOMAIN att' :
                      att'[m].status \in Outstanding /\ att'[m].t = att'[k].t => m = k
        BY <1>1, <2>2, <3>3 DEF OneFix
    <3>4. ASSUME k = i
          PROVE  /\ att'[k].status = "active" => group'[att'[k].t].sub = "fixing"
                 /\ att'[k].status = "pr_open" => group'[att'[k].t].sub = "pr_open"
        BY <1>0, <1>1, <1>4, <3>4 DEF Goes
    <3>5. ASSUME k # i, att'[k].status \in Outstanding
          PROVE  /\ att'[k].status = "active" => group'[att'[k].t].sub = "fixing"
                 /\ att'[k].status = "pr_open" => group'[att'[k].t].sub = "pr_open"
      <4>1. att[k].t # t
          BY <1>1, <2>1, <2>2, <3>5
      <4> QED
          BY <1>1, <1>2, <2>2, <3>5, <4>1 DEF OneFix
    <3> QED
        BY <3>2, <3>3, <3>4, <3>5 DEF Outstanding
  <2>4. ASSUME NEW u \in Problems, Live(u)'
        PROVE  /\ ticket'[u].gen > 0
               /\ group'[u].sub = "fixing" =>
                    \E k \in DOMAIN att' : att'[k].t = u /\ att'[k].status = "active"
               /\ group'[u].sub = "pr_open" =>
                    \E k \in DOMAIN att' : att'[k].t = u /\ att'[k].status = "pr_open"
               /\ group'[u].sub = "resolved" => \E k \in AttemptsOf(u)' : att'[k].status = "merged"
    <3>0. ticket'[u].gen > 0 /\ Live(u)
        BY <1>0, <2>4 DEF OneFix, Live
    <3>1. CASE u = t
      <4>1. i \in AttemptsOf(u)'
          BY <1>0, <1>1, <2>1, <3>1 DEF AttemptsOf, CurrentLineage
      <4> QED
          BY <1>0, <1>1, <1>4, <3>0, <3>1, <4>1 DEF Goes
    <3>2. CASE u # t
      <4>1. group'[u].sub = group[u].sub
          BY <1>1, <3>2
      <4>2. \A k \in DOMAIN att : att[k].t = u => k # i /\ att'[k].status = att[k].status /\ att'[k].t = u
          BY <1>1, <2>2, <3>2
      <4>3. group[u].sub = "resolved" => \E k \in AttemptsOf(u)' : att'[k].status = "merged"
        <5>1. SUFFICES ASSUME group[u].sub = "resolved"
                       PROVE  \E k \in AttemptsOf(u)' : att'[k].status = "merged"
            OBVIOUS
        <5>2. PICK k \in AttemptsOf(u) : att[k].status = "merged"
            BY <3>0, <5>1 DEF OneFix
        <5>3. k \in AttemptsOf(u)' /\ att'[k].status = "merged"
            BY <1>0, <1>1, <4>2, <5>2 DEF AttemptsOf
        <5> QED
            BY <5>3
      <4>4. /\ group[u].sub = "fixing" =>
                    \E k \in DOMAIN att' : att'[k].t = u /\ att'[k].status = "active"
            /\ group[u].sub = "pr_open" =>
                    \E k \in DOMAIN att' : att'[k].t = u /\ att'[k].status = "pr_open"
          BY <1>1, <3>0, <4>2 DEF OneFix
      <4> QED
          BY <3>0, <4>1, <4>3, <4>4
    <3> QED
        BY <3>1, <3>2
  <2> QED
      BY <2>3, <2>4 DEF OneFix
<1> QED
    BY <1>3, <1>4 DEF Moves

LEMMA MovesInvestigates ==
    ASSUME FixTypes, Investigates, NEW i \in DOMAIN att, NEW a, NEW s, Moves(i, a, s),
           group[att[i].t].sub = "resolved" => s = "resolved", UNCHANGED <<probe, mind>>
    PROVE  Investigates'
<1>1. \A t \in Problems :
        /\ group'[t].sub = IF t = att[i].t THEN s ELSE group[t].sub
        /\ group'[t].inv = group[t].inv /\ group'[t].exec = group[t].exec
        /\ group'[t].result = group[t].result /\ group'[t].used = group[t].used
    BY MovesEffect
<1>2. \A t \in Problems : group'[t].sub # "resolved" => group[t].sub # "resolved"
    BY <1>1
<1>3. ticket' = ticket /\ probe' = probe /\ mind' = mind
    BY DEF Moves
<1> QED
    BY <1>1, <1>2, <1>3 DEF Investigates, Investigating, Fenced, OwnsProbe, Live

LEMMA MovesDelivers ==
    ASSUME FixTypes, Delivers, NEW i \in DOMAIN att, NEW a, NEW s, Moves(i, a, s),
           AttemptDelivers(i)', DOMAIN prs' = Ids, DOMAIN run' = Ids,
           \A k \in Ids \ {i} : run'[k] = run[k] /\ prs'[k] = prs[k],
           \A e \in (mail \cup events)' : EventDelivers(e)'
    PROVE  Delivers'
<1>1. /\ DOMAIN att' = DOMAIN att /\ Len(att') = Len(att)
      /\ \A k \in DOMAIN att : /\ k # i => att'[k] = att[k]
                               /\ CurrentLineage(k)' <=> CurrentLineage(k)
    BY MovesEffect
<1>2. DOMAIN att = 1..Len(att) /\ Len(att) \in Nat /\ DOMAIN att \subseteq Ids /\ Ids \subseteq Nat
    BY AttemptTypes, IdsOfAttempts DEF Ids
<1>3. \A k \in Ids : k > Len(att') => run'[k] = <<>> /\ prs'[k] = <<>>
  <2>1. \A k \in Ids : k > Len(att) => k # i
      BY <1>2
  <2> QED
      BY <1>1, <2>1 DEF Delivers
<1>4. ASSUME NEW k \in DOMAIN att', k # i PROVE AttemptDelivers(k)'
  <2>1. AttemptDelivers(k) /\ att'[k] = att[k] /\ run'[k] = run[k] /\ prs'[k] = prs[k]
        /\ (CurrentLineage(k)' <=> CurrentLineage(k))
      BY <1>1, <1>2, <1>4 DEF Delivers
  <2> QED
      BY <2>1 DEF AttemptDelivers, Owns
<1> QED
    BY <1>3, <1>4 DEF Delivers

\* The automatic attempts that hold a slot, as AutoCap counts them.
Slots == {i \in DOMAIN att :
            /\ att[i].by = "auto"
            /\ att[i].status = "pr_open" \/ (att[i].status = "active" /\ att[i].reserved)}

LEMMA SlotsFinite == ASSUME FixTypes PROVE IsFiniteSet(Slots) /\ IsFiniteSet(DOMAIN att)
<1>1. DOMAIN att = 1..Len(att) /\ Len(att) \in Nat
    BY DEF FixTypes
<1>2. IsFiniteSet(1..Len(att))
    BY <1>1, FS_Interval
<1>3. Slots \subseteq DOMAIN att
    BY DEF Slots
<1> QED
    BY <1>1, <1>2, <1>3, FS_Subset

LEMMA FewerSlots == ASSUME FixTypes, AutoCap, Slots' \subseteq Slots PROVE AutoCap'
<1>1. Cardinality(Slots) <= MaxOpenPrs
    BY DEF AutoCap, Slots
<1>2. IsFiniteSet(Slots)
    BY SlotsFinite
<1>3. IsFiniteSet(Slots') /\ Cardinality(Slots') <= Cardinality(Slots)
    BY <1>2, FS_Subset
<1>4. Cardinality(Slots) \in Nat /\ Cardinality(Slots') \in Nat
    BY <1>2, <1>3, FS_CardinalityType
<1>5. Cardinality(Slots') <= MaxOpenPrs
    BY <1>1, <1>3, <1>4, Bounds
<1> QED
    BY <1>5 DEF AutoCap, Slots

LEMMA MovesCap ==
    ASSUME FixTypes, AutoCap, NEW i \in DOMAIN att, NEW a, NEW s, Moves(i, a, s),
           att[i].by = "auto" /\ (a.status = "pr_open" \/ (a.status = "active" /\ a.reserved)) => i \in Slots
    PROVE  AutoCap'
<1>1. /\ DOMAIN att' = DOMAIN att /\ att'[i] = a /\ a.by = att[i].by
      /\ \A k \in DOMAIN att : k # i => att'[k] = att[k]
    BY MovesEffect DEF Moves
<1>2. Slots' \subseteq Slots
  <2>1. \A k \in Slots' : k \in Slots
    <3>1. TAKE k \in Slots'
    <3>2. CASE k = i
      <4>1. att'[k].by = "auto" /\ (att'[k].status = "pr_open" \/ (att'[k].status = "active" /\ att'[k].reserved))
          BY DEF Slots
      <4> QED
          BY <1>1, <3>2, <4>1, Zenon
    <3>3. CASE k # i
        BY <1>1, <3>3 DEF Slots
    <3> QED
        BY <3>2, <3>3
  <2> QED
      BY <2>1
<1> QED
    BY <1>2, FewerSlots

\* Nothing changes for the attempt: a is the attempt as it is.
LEMMA StandsStill ==
    ASSUME FixTypes, NEW i \in DOMAIN att, att' = att, group' = group, ticket' = ticket
    PROVE  Moves(i, att[i], group[att[i].t].sub)
<1>1. att[i] \in Attempt /\ att[i].t \in Problems /\ att \in Seq(Attempt)
    BY AttemptTypes
<1>2. att' = [att EXCEPT ![i] = att[i]]
    BY <1>1
<1>3. PICK t \in Problems : t = att[i].t
    BY <1>1
<1>4. group[t] \in Issue /\ group \in [Problems -> Issue]
    BY ProblemTypes
<1>5. [group[t] EXCEPT !.sub = group[t].sub] = group[t]
    BY <1>4 DEF Issue
<1>6. group' = [group EXCEPT ![t].sub = group[t].sub]
    BY <1>4, <1>5
<1>7. group[t].sub \in Substates
    BY <1>4 DEF Issue, Substates
<1> QED
    BY <1>1, <1>2, <1>3, <1>6, <1>7 DEF Moves

LEMMA GroupStands ==
    ASSUME FixTypes, NEW t \in Problems
    PROVE  /\ group = [group EXCEPT ![t].sub = group[t].sub]
           /\ group[t].sub \in Substates
<1>1. group[t] \in Issue /\ group \in [Problems -> Issue]
    BY ProblemTypes
<1>2. [group[t] EXCEPT !.sub = group[t].sub] = group[t] /\ group[t].sub \in Substates
    BY <1>1 DEF Issue, Substates
<1> QED
    BY <1>1, <1>2

LEMMA MovesForward ==
    ASSUME FixTypes, OneFix, NEW i \in DOMAIN att, NEW a, NEW s, Moves(i, a, s)
    PROVE  Forward
<1>1. /\ att'[i] = a /\ \A k \in DOMAIN att : k # i => att'[k] = att[k]
      /\ \A t \in Problems : /\ group'[t].sub = IF t = att[i].t THEN s ELSE group[t].sub
                             /\ group'[t].result = group[t].result
    BY MovesEffect
<1>2. att[i].status \notin Outstanding => a.status = att[i].status
    BY DEF Moves
<1>3. group[att[i].t].sub = "resolved" => s = "resolved"
    BY DEF Moves, OneFix, Outstanding
<1> QED
    BY <1>1, <1>2, <1>3 DEF Forward, OutcomeIsFinal, NewestResult

LEMMA StandsForward ==
    ASSUME UNCHANGED <<att, group>> PROVE Forward
BY DEF Forward, OutcomeIsFinal, NewestResult

\* Attempt a with the executions r, as the lemmas below need it.
Delivering(i, a, r) ==
    /\ \A k \in DOMAIN r :
         /\ r[k].at = "created" => r[k].pr \in DOMAIN prs[i]
         /\ r[k].at = "recorded" /\ a.job = "claimed" /\ k = Len(r) => a.status # "active"
         /\ r[k].at \in {"cleared", "created"} /\ att[i].by = "auto" => a.reserved
    /\ att[i].reserved => a.reserved
    /\ a.status = "active" => a.job \in Queued
    /\ a.status \in {"merged", "closed"} =>
         /\ \E p \in DOMAIN prs[i] : prs[i][p] = a.status
         /\ CurrentLineage(i) => a.pr \in DOMAIN prs[i] /\ prs[i][a.pr] = a.status

\* A step of one execution, or of one event, of attempt i.
LEMMA DeliveryStepWithin ==
    ASSUME FixInv, NEW i \in DOMAIN att, NEW a, NEW s, Moves(i, a, s),
           NEW r \in Seq(Execution), run' = [run EXCEPT ![i] = r], prs' = prs,
           mail' \subseteq mail, events' \subseteq events \cup mail, faults' \in 0..MaxFaults,
           UNCHANGED <<probe, mind, ask>>,
           Delivering(i, a, r), AutoCap'
    PROVE  FixInv' /\ Forward
<1> USE DEF FixInv
<1>0. ticket' = ticket
    BY DEF Moves
<1>1. /\ att' \in Seq(Attempt) /\ Len(att') = Len(att) /\ DOMAIN att' = DOMAIN att
      /\ att'[i] = a /\ a.by = att[i].by /\ group' \in [Problems -> Issue]
      /\ CurrentLineage(i)' <=> CurrentLineage(i)
    BY MovesEffect DEF Moves
<1>2. /\ run \in [Ids -> Seq(Execution)] /\ run' \in [Ids -> Seq(Execution)] /\ i \in Ids
      /\ run'[i] = r /\ \A k \in Ids \ {i} : run'[k] = run[k]
      /\ prs \in [Ids -> Seq({"open", "closed", "merged"})]
  <2>1. run \in [Ids -> Seq(Execution)] /\ i \in Ids /\ prs \in [Ids -> Seq({"open", "closed", "merged"})]
      BY AttemptTypes
  <2> QED
      BY <2>1
<1>3. FixTypes'
  <2>1. DeliveryTypes'
      BY <1>1, <1>2, HaveDeliveryTypes DEF DeliveryTypes, Ids, Event
  <2>2. ask' \in [Problems -> 0..MaxGen]
      BY DEF FixTypes
  <2> QED
      BY <1>0, <2>1, <2>2, ProbingUntouched
<1>4. OneFix'
    BY MovesOneFix
<1>5. AttemptDelivers(i)'
  <2>0. AttemptDelivers(i)
      BY DEF Delivers
  <2>1. \A k \in DOMAIN run'[i] :
         /\ run'[i][k].at = "created" => run'[i][k].pr \in DOMAIN prs'[i]
         /\ run'[i][k].at = "recorded" /\ Owns(i, k)' => att'[i].status # "active"
         /\ run'[i][k].at \in {"cleared", "created"} /\ att'[i].by = "auto" => att'[i].reserved
      BY <1>1, <1>2 DEF Owns, Delivering
  <2>2. prs'[i] # <<>> /\ att'[i].by = "auto" => att'[i].reserved
      BY <1>1, <2>0 DEF AttemptDelivers, Delivering
  <2>3. att'[i].status = "active" => att'[i].job \in Queued
      BY <1>1 DEF Delivering
  <2>4. att'[i].status \in {"merged", "closed"} =>
         /\ \E p \in DOMAIN prs'[i] : prs'[i][p] = att'[i].status
         /\ CurrentLineage(i)' => att'[i].pr \in DOMAIN prs'[i] /\ prs'[i][att'[i].pr] = att'[i].status
      BY <1>1 DEF Delivering
  <2> QED
      BY <2>1, <2>2, <2>3, <2>4, Zenon DEF AttemptDelivers
<1>6. \A e \in (mail \cup events)' : EventDelivers(e)'
    BY <1>1 DEF Delivers, EventDelivers
<1>7. Delivers'
    BY <1>2, <1>5, <1>6, MovesDelivers
<1>8. Investigates'
  <2>1. group[att[i].t].sub = "resolved" => s = "resolved"
      BY DEF Moves, OneFix, Outstanding
  <2> QED
      BY <2>1, MovesInvestigates
<1>9. Forward
    BY MovesForward
<1> QED
    BY <1>3, <1>4, <1>7, <1>8, <1>9

LEMMA DeliveryStep ==
    ASSUME FixInv, NEW i \in DOMAIN att, NEW a, NEW s, Moves(i, a, s),
           NEW r \in Seq(Execution), run' = [run EXCEPT ![i] = r], prs' = prs,
           mail' \subseteq mail, events' \subseteq events \cup mail, faults' \in 0..MaxFaults,
           UNCHANGED <<probe, mind, ask>>,
           Delivering(i, a, r),
           a.status \in Outstanding => a.status = att[i].status,
           a.reserved = att[i].reserved
    PROVE  FixInv' /\ Forward
<1>1. AutoCap'
    BY MovesCap DEF FixInv, Moves, Slots, Outstanding
<1> QED
    BY <1>1, DeliveryStepWithin

\* The executions r of an attempt with one of them gone, or begun.
LEMMA DeliveringNow ==
    ASSUME FixInv, NEW i \in DOMAIN att
    PROVE  /\ Delivering(i, att[i], run[i])
           /\ \A k \in DOMAIN run[i] :
                run[i][k].at \in {"cleared", "created"} /\ att[i].by = "auto" => att[i].reserved
<1>1. AttemptDelivers(i)
    BY DEF FixInv, Delivers
<1> QED
    BY <1>1 DEF AttemptDelivers, Delivering, Owns

LEMMA FailMoves ==
    ASSUME FixInv, NEW i \in DOMAIN att, FixFailed(i), ticket' = ticket
    PROVE  \E a, s : /\ Moves(i, a, s)
                     /\ a.job = "ended" /\ a.status # "active"
                     /\ a.reserved = att[i].reserved /\ a.pr = att[i].pr
                     /\ a.status \in {"merged", "closed", "pr_open"} => a.status = att[i].status
<1> USE DEF FixInv
<1>1. PICK a \in Attempt :
                /\ att' = [att EXCEPT ![i] = a]
                /\ a.t = att[i].t /\ a.gen = att[i].gen /\ a.by = att[i].by
                /\ a.pr = att[i].pr /\ a.reserved = att[i].reserved /\ a.job = "ended"
                /\ att[i].status # "active" => a.status = att[i].status
                /\ att[i].status = "active" => a.status \in {"failed", "superseded"}
    BY FixFailedEffect
<1>2. group' = IF att[i].status = "active" /\ CurrentLineage(i) /\ group[att[i].t].sub = "fixing"
                       THEN [group EXCEPT ![att[i].t].sub = "none"] ELSE group
    BY FixFailedEffect
<1>3. CASE att[i].status = "active"
  <2>1. CurrentLineage(i) /\ group[att[i].t].sub = "fixing"
      BY <1>3 DEF OneFix, Outstanding
  <2>2. group' = [group EXCEPT ![att[i].t].sub = "none"]
      BY <1>2, <1>3, <2>1
  <2>3. Moves(i, a, "none")
      BY <1>1, <1>3, <2>2 DEF Moves, Goes, Substates, Outstanding
  <2> QED
      BY <1>1, <1>3, <2>3
<1>4. CASE att[i].status # "active"
  <2>1. group' = [group EXCEPT ![att[i].t].sub = group[att[i].t].sub]
        /\ group[att[i].t].sub \in Substates
      BY <1>2, <1>4, AttemptTypes, GroupStands
  <2>2. Moves(i, a, group[att[i].t].sub)
      BY <1>1, <1>4, <2>1 DEF Moves
  <2> QED
      BY <1>1, <1>4, <2>2
<1> QED
    BY <1>3, <1>4

\* The attempt becomes a of the same status, and its incident stays.
LEMMA KeepsStatus ==
    ASSUME FixInv, NEW i \in DOMAIN att, NEW a \in Attempt,
           a.t = att[i].t, a.gen = att[i].gen, a.by = att[i].by, a.status = att[i].status,
           att' = [att EXCEPT ![i] = a], UNCHANGED <<group, ticket>>
    PROVE  Moves(i, a, group[att[i].t].sub)
<1>1. group' = [group EXCEPT ![att[i].t].sub = group[att[i].t].sub]
      /\ group[att[i].t].sub \in Substates
    BY AttemptTypes, GroupStands DEF FixInv
<1> QED
    BY <1>1 DEF Moves

LEMMA OutcomeKept ==
    ASSUME FixInv, NEW i \in DOMAIN att, NEW a,
           a.status \in {"merged", "closed"} => a.status = att[i].status /\ a.pr = att[i].pr
    PROVE  a.status \in {"merged", "closed"} =>
             /\ \E p \in DOMAIN prs[i] : prs[i][p] = a.status
             /\ CurrentLineage(i) => a.pr \in DOMAIN prs[i] /\ prs[i][a.pr] = a.status
<1>1. AttemptDelivers(i)
    BY DEF FixInv, Delivers
<1> QED
    BY <1>1 DEF AttemptDelivers

\* A new execution that has not delivered.
LEMMA DeliveringAppend ==
    ASSUME FixInv, NEW i \in DOMAIN att, NEW a, NEW x \in Execution, x.at \in {"gone", "begun"},
           a.reserved = att[i].reserved, a.status = "active" => a.job \in Queued,
           a.status \in {"merged", "closed"} => a.status = att[i].status /\ a.pr = att[i].pr
    PROVE  Append(run[i], x) \in Seq(Execution) /\ Delivering(i, a, Append(run[i], x))
<1> DEFINE r == Append(run[i], x)
<1>1. /\ r \in Seq(Execution) /\ Len(r) = Len(run[i]) + 1 /\ DOMAIN r = 1..Len(run[i]) + 1
      /\ r[Len(run[i]) + 1] = x /\ \A k \in DOMAIN run[i] : r[k] = run[i][k]
      /\ DOMAIN run[i] = 1..Len(run[i]) /\ Len(run[i]) \in Nat
  <2>1. run[i] \in Seq(Execution)
      BY AttemptTypes DEF FixInv
  <2> QED
      BY <2>1, SeqAppend
<1>2. AttemptDelivers(i)
    BY DEF FixInv, Delivers
<1>3. ASSUME NEW k \in DOMAIN r
      PROVE  /\ r[k].at = "created" => r[k].pr \in DOMAIN prs[i]
             /\ r[k].at = "recorded" /\ a.job = "claimed" /\ k = Len(r) => a.status # "active"
             /\ r[k].at \in {"cleared", "created"} /\ att[i].by = "auto" => a.reserved
  <2>1. CASE k = Len(run[i]) + 1
      BY <1>1, <2>1
  <2>2. CASE k # Len(run[i]) + 1
    <3>1. k \in DOMAIN run[i] /\ r[k] = run[i][k] /\ k # Len(r)
        BY <1>1, <2>2
    <3> HIDE DEF r
    <3> QED
        BY <1>2, <3>1 DEF AttemptDelivers
  <2> QED
      BY <2>1, <2>2
<1> HIDE DEF r
<1>4. Delivering(i, a, r)
    BY <1>3, OutcomeKept DEF Delivering
<1> QED
    BY <1>1, <1>4 DEF r

\* Execution k of the attempt becomes x.
LEMMA DeliveringUpdate ==
    ASSUME FixInv, NEW i \in DOMAIN att, NEW a, NEW k \in DOMAIN run[i], NEW x \in Execution,
           /\ x.at = "created" => x.pr \in DOMAIN prs[i]
           /\ x.at = "recorded" /\ a.job = "claimed" /\ k = Len(run[i]) => a.status # "active"
           /\ x.at \in {"cleared", "created"} /\ att[i].by = "auto" => a.reserved,
           att[i].reserved => a.reserved, a.status = "active" => a.job \in Queued,
           a.status = "active" /\ a.job = "claimed" => Owns(i, Len(run[i])) /\ att[i].status = "active",
           a.status \in {"merged", "closed"} => a.status = att[i].status /\ a.pr = att[i].pr
    PROVE  /\ [run[i] EXCEPT ![k] = x] \in Seq(Execution)
           /\ Delivering(i, a, [run[i] EXCEPT ![k] = x])
<1> DEFINE r == [run[i] EXCEPT ![k] = x]
<1>1. /\ r \in Seq(Execution) /\ Len(r) = Len(run[i]) /\ DOMAIN r = DOMAIN run[i]
      /\ r[k] = x /\ \A m \in DOMAIN run[i] : m # k => r[m] = run[i][m]
  <2>1. run[i] \in Seq(Execution)
      BY AttemptTypes DEF FixInv
  <2> QED
      BY <2>1, SeqUpdate
<1>2. AttemptDelivers(i)
    BY DEF FixInv, Delivers
<1>3. ASSUME NEW m \in DOMAIN r
      PROVE  /\ r[m].at = "created" => r[m].pr \in DOMAIN prs[i]
             /\ r[m].at = "recorded" /\ a.job = "claimed" /\ m = Len(r) => a.status # "active"
             /\ r[m].at \in {"cleared", "created"} /\ att[i].by = "auto" => a.reserved
  <2>1. CASE m = k
      BY <1>1, <2>1
  <2>2. CASE m # k
    <3>1. m \in DOMAIN run[i] /\ r[m] = run[i][m] /\ Len(r) = Len(run[i])
        BY <1>1, <2>2
    <3> HIDE DEF r
    <3> QED
        BY <1>2, <3>1 DEF AttemptDelivers, Owns
  <2> QED
      BY <2>1, <2>2
<1> HIDE DEF r
<1>4. Delivering(i, a, r)
    BY <1>3, OutcomeKept DEF Delivering
<1> QED
    BY <1>1, <1>4 DEF r

LEMMA FaultsTyped == FixInv => faults \in 0..MaxFaults
BY DEF FixInv, FixTypes

LEMMA StartsKeeps == ASSUME FixInv, NEW i \in DOMAIN att, FixStarts(i) PROVE FixInv' /\ Forward
<1> USE DEF FixInv
<1>0. /\ UNCHANGED <<ticket, probe, mind, ask>> /\ prs' = prs /\ mail' = mail /\ events' = events
      /\ faults' = faults /\ faults \in 0..MaxFaults
    BY FaultsTyped DEF FixStarts, probing, outside
<1>1. att[i] \in Attempt /\ run[i] \in Seq(Execution) /\ run \in [Ids -> Seq(Execution)]
    BY AttemptTypes
<1>2. run = [run EXCEPT ![i] = run[i]]
    BY <1>1
<1>3. AttemptCurrent(i) <=> att[i].status = "active"
    BY DEF AttemptCurrent, OneFix, Outstanding
<1>4. Gone \in Execution /\ Gone.at = "gone" /\ [at |-> "begun", pr |-> 0] \in Execution
    BY Bounds DEF Gone, Execution
<1>5. CASE /\ CurrentLineage(i) /\ group[att[i].t].sub = "pr_open"
           /\ att' = [att EXCEPT ![i].job = "ended"]
           /\ UNCHANGED <<group, run>>
  <2> DEFINE a == [att[i] EXCEPT !.job = "ended"]
  <2>1. /\ a \in Attempt /\ a.t = att[i].t /\ a.gen = att[i].gen /\ a.by = att[i].by
        /\ a.status = att[i].status /\ a.reserved = att[i].reserved /\ a.pr = att[i].pr /\ a.job = "ended"
        /\ att' = [att EXCEPT ![i] = a]
      BY <1>1, <1>5 DEF Attempt, Queued
  <2> HIDE DEF a
  <2>2. Moves(i, a, group[att[i].t].sub)
      BY <1>0, <1>5, <2>1, KeepsStatus
  <2>3. a.status # "active"
      BY <1>5, <2>1 DEF OneFix
  <2>4. Delivering(i, a, run[i])
      BY <2>1, <2>3, DeliveringNow DEF Delivering
  <2> QED
      BY <1>0, <1>1, <1>2, <1>5, <2>1, <2>2, <2>4, DeliveryStep
<1>6. CASE /\ ~AttemptCurrent(i)
           /\ run' = [run EXCEPT ![i] = Append(@, Gone)]
           /\ UNCHANGED <<att, group>> \/ FixFailed(i)
  <2>1. \E a, s : /\ Moves(i, a, s) /\ a.reserved = att[i].reserved /\ a.pr = att[i].pr
                  /\ a.status \in {"merged", "closed", "pr_open"} => a.status = att[i].status
                  /\ a.status # "active"
    <3>1. CASE UNCHANGED <<att, group>>
        BY <1>0, <1>3, <1>6, <3>1, StandsStill
    <3>2. CASE FixFailed(i)
        BY <1>0, <3>2, FailMoves
    <3> QED
        BY <1>6, <3>1, <3>2
  <2>2. PICK a, s : /\ Moves(i, a, s) /\ a.reserved = att[i].reserved /\ a.pr = att[i].pr
                    /\ a.status \in {"merged", "closed", "pr_open"} => a.status = att[i].status
                    /\ a.status # "active"
      BY <2>1
  <2>3. Append(run[i], Gone) \in Seq(Execution) /\ Delivering(i, a, Append(run[i], Gone))
      BY <1>4, <2>2, DeliveringAppend
  <2>4. a.status \in Outstanding => a.status = att[i].status
      BY <2>2 DEF Outstanding
  <2>5. PICK r \in Seq(Execution) : r = Append(run[i], Gone)
      BY <2>3
  <2>6. run' = [run EXCEPT ![i] = r] /\ Delivering(i, a, r)
      BY <1>6, <2>3, <2>5
  <2> QED
      BY <1>0, <2>2, <2>4, <2>6, DeliveryStep
<1>7. CASE FixFailed(i) /\ UNCHANGED run
  <2>1. PICK a, s : /\ Moves(i, a, s)
                    /\ a.job = "ended" /\ a.status # "active"
                    /\ a.reserved = att[i].reserved /\ a.pr = att[i].pr
                    /\ a.status \in {"merged", "closed", "pr_open"} => a.status = att[i].status
      BY <1>0, <1>7, FailMoves
  <2>2. a.status \in Outstanding => a.status = att[i].status
      BY <2>1 DEF Outstanding
  <2>3. Delivering(i, a, run[i])
      BY <2>1, DeliveringNow, OutcomeKept DEF Delivering
  <2> QED
      BY <1>0, <1>1, <1>2, <1>7, <2>1, <2>2, <2>3, DeliveryStep
<1>8. CASE /\ att' = [att EXCEPT ![i].job = "claimed"]
           /\ run' = [run EXCEPT ![i] = Append(@, [at |-> "begun", pr |-> 0])]
           /\ UNCHANGED group
  <2> DEFINE a == [att[i] EXCEPT !.job = "claimed"]
             x == [at |-> "begun", pr |-> 0]
  <2>1. /\ a \in Attempt /\ a.t = att[i].t /\ a.gen = att[i].gen /\ a.by = att[i].by
        /\ a.status = att[i].status /\ a.reserved = att[i].reserved /\ a.pr = att[i].pr /\ a.job \in Queued
        /\ att' = [att EXCEPT ![i] = a]
      BY <1>1, <1>8 DEF Attempt, Queued
  <2>2. x \in Execution /\ x.at = "begun"
      BY <1>4
  <2>3. run' = [run EXCEPT ![i] = Append(run[i], x)]
      BY <1>8
  <2> HIDE DEF a, x
  <2>4. Moves(i, a, group[att[i].t].sub)
      BY <1>0, <1>8, <2>1, KeepsStatus
  <2>5. Append(run[i], x) \in Seq(Execution) /\ Delivering(i, a, Append(run[i], x))
      BY <2>1, <2>2, DeliveringAppend
  <2>6. PICK r \in Seq(Execution) : r = Append(run[i], x)
      BY <2>5
  <2>7. run' = [run EXCEPT ![i] = r] /\ Delivering(i, a, r)
      BY <2>3, <2>5, <2>6
  <2> QED
      BY <1>0, <2>1, <2>4, <2>7, DeliveryStep
<1> QED
    BY <1>5, <1>6, <1>7, <1>8 DEF FixStarts

\* What an execution of the attempt knows of it.
LEMMA ExecutionFacts ==
    ASSUME FixInv, NEW i \in DOMAIN att, NEW k \in DOMAIN run[i]
    PROVE  /\ att[i] \in Attempt /\ run[i] \in Seq(Execution) /\ run \in [Ids -> Seq(Execution)]
           /\ run[i][k] \in Execution
           /\ run[i][k].at = "created" => run[i][k].pr \in DOMAIN prs[i]
           /\ run[i][k].at = "recorded" /\ Owns(i, k) => att[i].status # "active"
           /\ run[i][k].at \in {"cleared", "created"} /\ att[i].by = "auto" => att[i].reserved
           /\ prs[i] # <<>> /\ att[i].by = "auto" => att[i].reserved
           /\ att[i].status = "active" => att[i].job \in Queued
           /\ DOMAIN prs[i] = 1..Len(prs[i]) /\ Len(prs[i]) \in 0..MaxPrs
           /\ Gone \in Execution
           /\ \A p \in 1..MaxPrs : [at |-> "created", pr |-> p] \in Execution
<1>1. /\ att[i] \in Attempt /\ run[i] \in Seq(Execution) /\ run \in [Ids -> Seq(Execution)]
      /\ prs[i] \in Seq({"open", "closed", "merged"}) /\ Len(prs[i]) <= MaxPrs
    BY AttemptTypes DEF FixInv
<1>2. AttemptDelivers(i)
    BY DEF FixInv, Delivers
<1>3. run[i][k] \in Execution
    BY ExecutionTypes DEF FixInv
<1>4. DOMAIN prs[i] = 1..Len(prs[i]) /\ Len(prs[i]) \in 0..MaxPrs
    BY <1>1, Bounds
<1>5. Gone \in Execution /\ \A p \in 1..MaxPrs : [at |-> "created", pr |-> p] \in Execution
    BY Bounds DEF Gone, Execution
<1> QED
    BY <1>1, <1>2, <1>3, <1>4, <1>5 DEF AttemptDelivers

\* An execution goes a step further and its attempt stays as it is.
LEMMA ExecutionAdvances ==
    ASSUME FixInv, NEW i \in DOMAIN att, NEW k \in DOMAIN run[i], NEW x \in Execution,
           x.at = "created" => x.pr \in DOMAIN prs[i],
           x.at = "recorded" => ~Owns(i, k) \/ att[i].status # "active",
           x.at \in {"cleared", "created"} /\ att[i].by = "auto" => att[i].reserved,
           run' = [run EXCEPT ![i][k] = x],
           UNCHANGED <<ticket, group, probe, mind, ask, att, prs, mail, events, faults>>
    PROVE  FixInv' /\ Forward
<1>1. Moves(i, att[i], group[att[i].t].sub)
    BY StandsStill DEF FixInv
<1>2. /\ [run[i] EXCEPT ![k] = x] \in Seq(Execution)
      /\ Delivering(i, att[i], [run[i] EXCEPT ![k] = x])
    BY ExecutionFacts, DeliveringUpdate DEF Owns
<1>3. PICK r \in Seq(Execution) : r = [run[i] EXCEPT ![k] = x]
    BY <1>2
<1>4. run' = [run EXCEPT ![i] = r] /\ Delivering(i, att[i], r)
    BY <1>2, <1>3
<1> QED
    BY <1>1, <1>4, FaultsTyped, DeliveryStep

LEMMA ClearsKeeps ==
    ASSUME FixInv, NEW i \in DOMAIN att, NEW k \in DOMAIN run[i], FixClears(i, k) PROVE FixInv' /\ Forward
<1> USE DEF FixInv
<1>0. /\ UNCHANGED <<ticket, group, probe, mind, ask>> /\ prs' = prs /\ mail' = mail
      /\ events' = events /\ faults' = faults /\ faults \in 0..MaxFaults
      /\ run[i][k].at = "begun" /\ Owns(i, k)
    BY FaultsTyped DEF FixClears, probing, outside
<1>1. ASSUME NEW p \in OpenPr(i), UNCHANGED att,
             run' = [run EXCEPT ![i][k] = [at |-> "created", pr |-> p]]
      PROVE  FixInv' /\ Forward
  <2> DEFINE x == [at |-> "created", pr |-> p]
  <2>1. p \in DOMAIN prs[i] /\ prs[i] # <<>> /\ p \in 1..MaxPrs
    <3>1. p \in DOMAIN prs[i]
        BY DEF OpenPr
    <3>2. DOMAIN prs[i] = 1..Len(prs[i]) /\ Len(prs[i]) \in 0..MaxPrs
        BY ExecutionFacts
    <3>3. p \in 1..MaxPrs /\ Len(prs[i]) # 0
        BY <3>1, <3>2, Bounds
    <3> QED
        BY <3>1, <3>3
  <2>2. x \in Execution /\ x.at = "created" /\ x.pr = p
      BY <2>1, ExecutionFacts
  <2>3. att[i].by = "auto" => att[i].reserved
      BY <2>1, ExecutionFacts
  <2> HIDE DEF x
  <2>4. run' = [run EXCEPT ![i][k] = x]
      BY <1>1 DEF x
  <2>5. UNCHANGED <<ticket, group, probe, mind, ask, att, prs, mail, events, faults>>
      BY <1>0, <1>1
  <2>6. /\ x.at = "created" => x.pr \in DOMAIN prs[i]
        /\ x.at = "recorded" => ~Owns(i, k) \/ att[i].status # "active"
        /\ x.at \in {"cleared", "created"} /\ att[i].by = "auto" => att[i].reserved
      BY <2>1, <2>2, <2>3
  <2> QED
      BY <2>2, <2>4, <2>5, <2>6, ExecutionAdvances
<1>2. ASSUME AttemptCurrent(i),
             att[i].by = "auto" => autonomy /\ (att[i].reserved \/ Counted < MaxOpenPrs),
             att' = [att EXCEPT ![i].reserved = @ \/ att[i].by = "auto"],
             run' = [run EXCEPT ![i][k].at = "cleared"]
      PROVE  FixInv' /\ Forward
  <2> DEFINE a == [att[i] EXCEPT !.reserved = att[i].reserved \/ att[i].by = "auto"]
             x == [run[i][k] EXCEPT !.at = "cleared"]
  <2>1. /\ a \in Attempt /\ a.t = att[i].t /\ a.gen = att[i].gen /\ a.by = att[i].by
        /\ a.status = att[i].status /\ a.pr = att[i].pr /\ a.job = att[i].job
        /\ att[i].reserved => a.reserved
        /\ att[i].by = "auto" => a.reserved
        /\ a.reserved /\ att[i].by # "auto" => att[i].reserved
        /\ att' = [att EXCEPT ![i] = a]
    <3>1. att[i] \in Attempt
        BY ExecutionFacts
    <3>2. (att[i].reserved \/ att[i].by = "auto") \in BOOLEAN
        OBVIOUS
    <3> QED
        BY <1>2, <3>1, <3>2 DEF Attempt
  <2>2. x \in Execution /\ x.at = "cleared"
      BY ExecutionFacts DEF Execution
  <2>3. run' = [run EXCEPT ![i][k] = x]
      BY <1>2
  <2> HIDE DEF a, x
  <2>4. Moves(i, a, group[att[i].t].sub)
      BY <1>0, <2>1, KeepsStatus
  <2>5. a.status = "active" /\ att[i].status = "active" /\ a.job \in Queued
      BY <1>2, <2>1, ExecutionFacts DEF AttemptCurrent
  <2>6. /\ [run[i] EXCEPT ![k] = x] \in Seq(Execution)
        /\ Delivering(i, a, [run[i] EXCEPT ![k] = x])
      BY <2>1, <2>2, <2>5, DeliveringUpdate DEF Owns
  <2>7. PICK r \in Seq(Execution) : r = [run[i] EXCEPT ![k] = x]
      BY <2>6
  <2>8. run' = [run EXCEPT ![i] = r] /\ Delivering(i, a, r)
      BY <2>3, <2>6, <2>7
  <2>9. AutoCap'
    <3>1. CASE att[i].by = "auto" /\ ~att[i].reserved
      <4> DEFINE C == {m \in DOMAIN att : \/ att[m].status = "pr_open"
                                          \/ att[m].status = "active" /\ att[m].reserved}
      <4>1. IsFiniteSet(DOMAIN att)
          BY SlotsFinite
      <4>2. IsFiniteSet(C)
          BY <4>1, FS_Subset
      <4>3. Cardinality(C) < MaxOpenPrs
          BY <1>2, <3>1 DEF Counted
      <4>4. \A m \in Slots' : m \in C \cup {i}
        <5>1. TAKE m \in Slots'
        <5>2. CASE m = i
            BY <5>2
        <5>3. CASE m # i
          <6>1. m \in DOMAIN att /\ att'[m] = att[m]
              BY <2>4, <5>3, MovesEffect DEF Slots
          <6>2. att'[m].status = "pr_open" \/ (att'[m].status = "active" /\ att'[m].reserved)
              BY DEF Slots
          <6> QED
              BY <6>1, <6>2
        <5> QED
            BY <5>2, <5>3
      <4> HIDE DEF C
      <4>5. IsFiniteSet(C \cup {i}) /\ Cardinality(C \cup {i}) <= Cardinality(C) + 1
            /\ Cardinality(C) \in Nat
        <5>1. Cardinality(C) \in Nat
            BY <4>2, FS_CardinalityType
        <5>2. /\ IsFiniteSet(C \cup {i})
              /\ Cardinality(C \cup {i}) = IF i \in C THEN Cardinality(C) ELSE Cardinality(C) + 1
            BY <4>2, FS_AddElement
        <5> QED
            BY <5>1, <5>2
      <4>6. Slots' \subseteq C \cup {i}
          BY <4>4
      <4>7. IsFiniteSet(Slots') /\ Cardinality(Slots') <= Cardinality(C \cup {i})
          BY <4>5, <4>6, FS_Subset
      <4>8. Cardinality(Slots') \in Nat /\ Cardinality(C \cup {i}) \in Nat
          BY <4>5, <4>7, FS_CardinalityType
      <4>9. Cardinality(Slots') <= MaxOpenPrs
          BY <4>3, <4>5, <4>7, <4>8, Bounds
      <4> QED
          BY <4>9 DEF AutoCap, Slots
    <3>2. CASE att[i].by # "auto" \/ att[i].reserved
      <4>1. att[i].by = "auto" /\ (a.status = "pr_open" \/ (a.status = "active" /\ a.reserved)) => i \in Slots
          BY <2>5, <3>2 DEF Slots
      <4> QED
          BY <2>4, <4>1, MovesCap
    <3> QED
        BY <3>1, <3>2
  <2> QED
      BY <1>0, <2>1, <2>4, <2>8, <2>9, DeliveryStepWithin
<1> QED
    BY <1>1, <1>2 DEF FixClears

LEMMA RecordsKeeps ==
    ASSUME FixInv, NEW i \in DOMAIN att, NEW k \in DOMAIN run[i], FixRecords(i, k) PROVE FixInv' /\ Forward
<1> USE DEF FixInv
<1>0. /\ UNCHANGED <<ticket, probe, mind, ask>> /\ prs' = prs /\ mail' = mail
      /\ events' = events /\ faults' = faults /\ faults \in 0..MaxFaults
      /\ run[i][k].at = "created" /\ run' = [run EXCEPT ![i][k].at = "recorded"]
    BY FaultsTyped DEF FixRecords, probing, outside
<1> DEFINE p == run[i][k].pr
           x == [run[i][k] EXCEPT !.at = "recorded"]
<1>1. x \in Execution /\ x.at = "recorded" /\ run' = [run EXCEPT ![i][k] = x] /\ p \in 0..MaxPrs
  <2>1. run[i][k] \in Execution
      BY ExecutionFacts
  <2>2. x \in Execution /\ x.at = "recorded" /\ p \in 0..MaxPrs
      BY <2>1 DEF Execution
  <2>3. run' = [run EXCEPT ![i][k] = x]
      BY <1>0
  <2> QED
      BY <2>2, <2>3
<1> HIDE DEF x
<1>2. ASSUME NEW a, NEW s, Moves(i, a, s), a.status # "active" \/ ~Owns(i, k),
             a.reserved = att[i].reserved, a.job = att[i].job,
             a.status \in {"merged", "closed"} => a.status = att[i].status /\ a.pr = att[i].pr,
             a.status = "active" => att[i].status = "active", AutoCap'
      PROVE  FixInv' /\ Forward
  <2>1. a.status = "active" => a.job \in Queued
      BY <1>2, ExecutionFacts
  <2>2. /\ [run[i] EXCEPT ![k] = x] \in Seq(Execution)
        /\ Delivering(i, a, [run[i] EXCEPT ![k] = x])
      BY <1>1, <1>2, <2>1, DeliveringUpdate DEF Owns
  <2>3. PICK r \in Seq(Execution) : r = [run[i] EXCEPT ![k] = x]
      BY <2>2
  <2>4. run' = [run EXCEPT ![i] = r] /\ Delivering(i, a, r)
      BY <1>1, <2>2, <2>3
  <2> QED
      BY <1>0, <1>2, <2>4, DeliveryStepWithin
<1>3. CASE RecordsCurrent(i, k)
  <2>1. EventCurrent(i)
      BY <1>3 DEF RecordsCurrent, EventCurrent
  <2>2. ApplyPrEvent(i, p, "opened")
      BY <1>3 DEF FixRecords
  <2>3. PICK a \in Attempt :
                   /\ att' = [att EXCEPT ![i] = a]
                   /\ a.t = att[i].t /\ a.gen = att[i].gen /\ a.by = att[i].by
                   /\ a.job = att[i].job /\ a.reserved = att[i].reserved
                   /\ a.pr = p /\ a.status = StatusAfter("opened")
      BY <1>1, <2>1, <2>2, ApplyPrEventEffect
  <2>4. group' = [group EXCEPT ![att[i].t].sub = SubAfter("opened")]
      BY <1>1, <2>1, <2>2, ApplyPrEventEffect
  <2>5. StatusAfter("opened") = "pr_open" /\ SubAfter("opened") = "pr_open"
      BY DEF StatusAfter, SubAfter
  <2>6. Moves(i, a, "pr_open")
      BY <1>0, <2>1, <2>3, <2>4, <2>5 DEF Moves, Goes, Substates, EventCurrent
  <2>7. AutoCap'
    <3>1. att[i].by = "auto" => att[i].reserved
        BY <1>0, ExecutionFacts
    <3>2. att[i].status \in {"active", "pr_open"}
        BY <2>1 DEF EventCurrent, Outstanding
    <3>3. att[i].by = "auto" /\ (a.status = "pr_open" \/ (a.status = "active" /\ a.reserved)) => i \in Slots
        BY <3>1, <3>2 DEF Slots
    <3> QED
        BY <2>6, <3>3, MovesCap
  <2> QED
      BY <1>2, <2>3, <2>5, <2>6, <2>7
<1>4. CASE ~RecordsCurrent(i, k)
  <2>1. ApplyOrphan(i, p)
      BY <1>4 DEF FixRecords
  <2>2. group' = group
      BY <1>1, <2>1, OrphanEffect
  <2>3. CASE att' = att
    <3>1. Moves(i, att[i], group[att[i].t].sub)
        BY <1>0, <2>2, <2>3, StandsStill
    <3>2. att[i].status = "active" => ~Owns(i, k)
        BY <1>4 DEF RecordsCurrent, OneFix, Outstanding
    <3>3. AutoCap'
        BY <2>3 DEF AutoCap
    <3> QED
        BY <1>2, <3>1, <3>2, <3>3
  <2>4. CASE att' # att
    <3>1. PICK a \in Attempt :
                      /\ att' = [att EXCEPT ![i] = a]
                      /\ a.t = att[i].t /\ a.gen = att[i].gen /\ a.by = att[i].by
                      /\ a.job = att[i].job /\ a.reserved = att[i].reserved
                      /\ a.status = IF att[i].status \in Outstanding THEN "superseded" ELSE att[i].status
        BY <1>1, <2>1, <2>4, OrphanEffect
    <3>2. ~CurrentLineage(i)
        BY <1>1, <2>1, <2>4, OrphanEffect
    <3>3. att[i].status \notin Outstanding
        BY <3>2 DEF OneFix
    <3>4. Moves(i, a, group[att[i].t].sub)
        BY <1>0, <2>2, <3>1, <3>3, KeepsStatus
    <3>5. att[i].by = "auto" /\ (a.status = "pr_open" \/ (a.status = "active" /\ a.reserved)) => i \in Slots
        BY <3>1, <3>3 DEF Outstanding
    <3>6. AutoCap'
        BY <3>4, <3>5, MovesCap
    <3>7. /\ [run[i] EXCEPT ![k] = x] \in Seq(Execution)
          /\ \A m \in DOMAIN run[i] : [run[i] EXCEPT ![k] = x][m] = IF m = k THEN x ELSE run[i][m]
          /\ DOMAIN [run[i] EXCEPT ![k] = x] = DOMAIN run[i]
      <4>1. run[i] \in Seq(Execution)
          BY ExecutionFacts
      <4> QED
          BY <1>1, <4>1, SeqUpdate
    <3>8. PICK r \in Seq(Execution) : r = [run[i] EXCEPT ![k] = x]
        BY <3>7
    <3>9. Delivering(i, a, r)
      <4>1. AttemptDelivers(i)
          BY DEF Delivers
      <4>2. a.status # "active" /\ a.status = att[i].status
          BY <3>1, <3>3 DEF Outstanding
      <4>3. \A m \in DOMAIN r :
              /\ r[m].at = "created" => r[m].pr \in DOMAIN prs[i]
              /\ r[m].at \in {"cleared", "created"} /\ att[i].by = "auto" => a.reserved
          BY <1>1, <3>1, <3>7, <3>8, <4>1 DEF AttemptDelivers
      <4>4. a.status \in {"merged", "closed"} =>
             /\ \E q \in DOMAIN prs[i] : prs[i][q] = a.status
             /\ CurrentLineage(i) => a.pr \in DOMAIN prs[i] /\ prs[i][a.pr] = a.status
          BY <3>2, <4>1, <4>2 DEF AttemptDelivers
      <4> QED
          BY <3>1, <4>2, <4>3, <4>4 DEF Delivering
    <3>10. run' = [run EXCEPT ![i] = r]
        BY <1>1, <3>8
    <3> QED
        BY <1>0, <3>4, <3>6, <3>9, <3>10, DeliveryStepWithin
  <2> QED
      BY <2>3, <2>4
<1> QED
    BY <1>3, <1>4

LEMMA EndsKeeps ==
    ASSUME FixInv, NEW i \in DOMAIN att, NEW k \in DOMAIN run[i], FixEnds(i, k) PROVE FixInv' /\ Forward
<1> USE DEF FixInv
<1>0. /\ UNCHANGED <<ticket, group, probe, mind, ask>> /\ prs' = prs /\ mail' = mail
      /\ events' = events /\ faults' = faults /\ faults \in 0..MaxFaults
      /\ run[i][k].at = "recorded" /\ run' = [run EXCEPT ![i][k] = Gone]
      /\ Gone \in Execution /\ Gone.at = "gone"
    BY FaultsTyped, ExecutionFacts DEF FixEnds, probing, outside, Gone
<1>1. CASE ~Owns(i, k)
  <2>1. UNCHANGED <<ticket, group, probe, mind, ask, att, prs, mail, events, faults>>
      BY <1>0, <1>1 DEF FixEnds
  <2> QED
      BY <1>0, <2>1, ExecutionAdvances
<1>2. CASE Owns(i, k)
  <2> DEFINE a == [att[i] EXCEPT !.job = "ended"]
  <2>1. att[i] \in Attempt /\ att[i].status # "active"
      BY <1>0, <1>2, ExecutionFacts
  <2>2. /\ a \in Attempt /\ a.t = att[i].t /\ a.gen = att[i].gen /\ a.by = att[i].by
        /\ a.status = att[i].status /\ a.reserved = att[i].reserved /\ a.pr = att[i].pr /\ a.job = "ended"
      BY <2>1 DEF Attempt, Queued
  <2>3. att' = [att EXCEPT ![i] = a]
      BY <1>2 DEF FixEnds
  <2> HIDE DEF a
  <2>4. Moves(i, a, group[att[i].t].sub)
      BY <1>0, <2>2, <2>3, KeepsStatus
  <2>5. /\ [run[i] EXCEPT ![k] = Gone] \in Seq(Execution)
        /\ Delivering(i, a, [run[i] EXCEPT ![k] = Gone])
      BY <1>0, <2>1, <2>2, DeliveringUpdate
  <2>6. PICK r \in Seq(Execution) : r = [run[i] EXCEPT ![k] = Gone]
      BY <2>5
  <2>7. run' = [run EXCEPT ![i] = r] /\ Delivering(i, a, r)
      BY <1>0, <2>5, <2>6
  <2> QED
      BY <1>0, <2>2, <2>4, <2>7, DeliveryStep
<1> QED
    BY <1>1, <1>2

LEMMA StopsKeeps ==
    ASSUME FixInv, NEW i \in DOMAIN att, NEW k \in DOMAIN run[i], FixStops(i, k) PROVE FixInv' /\ Forward
<1> USE DEF FixInv
<1>0. /\ UNCHANGED <<ticket, probe, mind, ask>> /\ prs' = prs /\ mail' = mail
      /\ events' = events /\ Gone \in Execution /\ Gone.at = "gone"
    BY ExecutionFacts DEF FixStops, probing, outside, Gone
<1>1. run' = run \/ run' = [run EXCEPT ![i][k] = Gone]
    BY DEF FixStops
<1>2. faults' \in 0..MaxFaults
  <2>1. faults \in 0..MaxFaults
      BY FaultsTyped
  <2>2. faults' = faults \/ (faults < MaxFaults /\ faults' = faults + 1)
      BY DEF FixStops
  <2> QED
      BY <2>1, <2>2, Bounds
<1>3. att[i] \in Attempt /\ run[i] \in Seq(Execution) /\ run = [run EXCEPT ![i] = run[i]]
    BY ExecutionFacts
<1>4. \E a, s : /\ Moves(i, a, s) /\ a.reserved = att[i].reserved /\ a.pr = att[i].pr
                /\ a.job # "claimed" /\ (a.status = "active" => a.job \in Queued)
                /\ a.status \in {"active", "merged", "closed", "pr_open"} => a.status = att[i].status
  <2>1. CASE att' = [att EXCEPT ![i].job = "pending"] /\ UNCHANGED group
    <3> DEFINE a == [att[i] EXCEPT !.job = "pending"]
    <3>1. /\ a \in Attempt /\ a.t = att[i].t /\ a.gen = att[i].gen /\ a.by = att[i].by
          /\ a.status = att[i].status /\ a.reserved = att[i].reserved /\ a.pr = att[i].pr
          /\ a.job = "pending" /\ a.job \in Queued
          /\ att' = [att EXCEPT ![i] = a]
        BY <1>3, <2>1 DEF Attempt, Queued
    <3> HIDE DEF a
    <3>2. Moves(i, a, group[att[i].t].sub)
        BY <1>0, <2>1, <3>1, KeepsStatus
    <3> QED
        BY <3>1, <3>2
  <2>2. CASE FixFailed(i)
    <3>1. PICK a, s : /\ Moves(i, a, s)
                      /\ a.job = "ended" /\ a.status # "active"
                      /\ a.reserved = att[i].reserved /\ a.pr = att[i].pr
                      /\ a.status \in {"merged", "closed", "pr_open"} => a.status = att[i].status
        BY <1>0, <2>2, FailMoves
    <3> QED
        BY <3>1
  <2> QED
      BY <2>1, <2>2 DEF FixStops
<1>5. PICK a, s : /\ Moves(i, a, s) /\ a.reserved = att[i].reserved /\ a.pr = att[i].pr
                  /\ a.job # "claimed" /\ (a.status = "active" => a.job \in Queued)
                  /\ a.status \in {"active", "merged", "closed", "pr_open"} => a.status = att[i].status
    BY <1>4
<1>6. a.status \in Outstanding => a.status = att[i].status
    BY <1>5 DEF Outstanding
<1>7. CASE run' = run
  <2>1. Delivering(i, a, run[i])
      BY <1>5, DeliveringNow, OutcomeKept DEF Delivering
  <2> QED
      BY <1>0, <1>2, <1>3, <1>5, <1>6, <1>7, <2>1, DeliveryStep
<1>8. CASE run' = [run EXCEPT ![i][k] = Gone]
  <2>5. /\ [run[i] EXCEPT ![k] = Gone] \in Seq(Execution)
        /\ Delivering(i, a, [run[i] EXCEPT ![k] = Gone])
      BY <1>0, <1>5, DeliveringUpdate
  <2>6. PICK r \in Seq(Execution) : r = [run[i] EXCEPT ![k] = Gone]
      BY <2>5
  <2>7. run' = [run EXCEPT ![i] = r] /\ Delivering(i, a, r)
      BY <1>8, <2>5, <2>6
  <2> QED
      BY <1>0, <1>2, <1>5, <1>6, <2>7, DeliveryStep
<1> QED
    BY <1>1, <1>7, <1>8

LEMMA GivesUpKeeps ==
    ASSUME FixInv, NEW i \in DOMAIN att, NEW k \in DOMAIN run[i], FixGivesUp(i, k) PROVE FixInv' /\ Forward
<1>1. /\ UNCHANGED <<ticket, group, probe, mind, ask, att, prs, mail, events, faults>>
      /\ run' = [run EXCEPT ![i][k] = Gone] /\ Gone.at = "gone" /\ Gone \in Execution
    BY ExecutionFacts DEF FixGivesUp, probing, outside, Gone
<1> QED
    BY <1>1, ExecutionAdvances

LEMMA EventKeeps ==
    ASSUME FixInv, NEW e \in events, EventApplied(e) PROVE FixInv' /\ Forward
<1> USE DEF FixInv
<1>i. PICK i \in DOMAIN att : i = e.i
    BY DEF Delivers, EventDelivers
<1>1. /\ i \in DOMAIN att /\ e.pr \in DOMAIN prs[i] /\ prs[i][e.pr] = e.what
      /\ e.what \in {"merged", "closed"} /\ e.what \in {"opened", "merged", "closed"}
      /\ e.pr \in 1..MaxPrs /\ e.pr \in 0..MaxPrs /\ e.pr > 0
  <2>1. EventDelivers(e) /\ e \in Event
      BY DEF Delivers, FixTypes
  <2> QED
      BY <1>i, <2>1, Bounds DEF EventDelivers, Event
<1>0. /\ UNCHANGED <<ticket, probe, mind, ask>> /\ prs' = prs /\ mail' = mail /\ run' = run
      /\ events' \subseteq events /\ faults' = faults /\ faults \in 0..MaxFaults
      /\ ApplyPrEvent(i, e.pr, e.what)
    BY <1>i, FaultsTyped DEF EventApplied, probing, outside
<1>2. run[i] \in Seq(Execution) /\ run = [run EXCEPT ![i] = run[i]]
  <2>1. run[i] \in Seq(Execution) /\ run \in [Ids -> Seq(Execution)]
      BY <1>1, AttemptTypes
  <2> QED
      BY <2>1
<1>e. ~EventCurrent(i) => att' = att /\ group' = group
    BY <1>0 DEF ApplyPrEvent
<1>3. CASE att' = att /\ group' = group
  <2>1. Moves(i, att[i], group[att[i].t].sub)
      BY <1>0, <1>1, <1>3, StandsStill
  <2> QED
      BY <1>0, <1>1, <1>2, <2>1, DeliveringNow, DeliveryStep
<1>4. CASE EventCurrent(i) /\ ~(att' = att /\ group' = group)
  <2>1. PICK a \in Attempt :
                   /\ att' = [att EXCEPT ![i] = a]
                   /\ a.t = att[i].t /\ a.gen = att[i].gen /\ a.by = att[i].by
                   /\ a.job = att[i].job /\ a.reserved = att[i].reserved
                   /\ a.pr = e.pr /\ a.status = StatusAfter(e.what)
    <3> DEFINE b == [att[i] EXCEPT !.status = StatusAfter(e.what), !.pr = e.pr]
    <3>1. att[i] \in Attempt
        BY AttemptTypes
    <3>2. StatusAfter(e.what) \in {"merged", "closed"}
        BY <1>1 DEF StatusAfter
    <3>3. /\ b \in Attempt /\ b.t = att[i].t /\ b.gen = att[i].gen /\ b.by = att[i].by
          /\ b.job = att[i].job /\ b.reserved = att[i].reserved
          /\ b.pr = e.pr /\ b.status = StatusAfter(e.what)
        BY <1>1, <3>1, <3>2 DEF Attempt
    <3>4. att' = [att EXCEPT ![i] = b]
        BY <1>0, <1>4 DEF ApplyPrEvent
    <3> HIDE DEF b
    <3> QED
        BY <3>3, <3>4
  <2>2. group' = [group EXCEPT ![att[i].t].sub = SubAfter(e.what)]
      BY <1>0, <1>4 DEF ApplyPrEvent
  <2>3. /\ StatusAfter(e.what) = e.what
        /\ Goes(e.what, SubAfter(e.what)) /\ SubAfter(e.what) \in Substates
      BY <1>1 DEF StatusAfter, SubAfter, Goes, Substates
  <2>4. Moves(i, a, SubAfter(e.what))
      BY <1>0, <1>4, <2>1, <2>2, <2>3 DEF Moves, EventCurrent
  <2>5. a.status \notin Outstanding
      BY <1>1, <2>1, <2>3 DEF Outstanding
  <2>6. Delivering(i, a, run[i])
    <3>1. a.status = e.what /\ a.status # "active"
        BY <1>1, <2>1, <2>3
    <3>2. /\ \E p \in DOMAIN prs[i] : prs[i][p] = a.status
          /\ a.pr \in DOMAIN prs[i] /\ prs[i][a.pr] = a.status
        BY <1>1, <2>1, <3>1
    <3> QED
        BY <1>1, <2>1, <3>1, <3>2, DeliveringNow DEF Delivering
  <2> QED
      BY <1>0, <1>1, <1>2, <2>1, <2>4, <2>5, <2>6, DeliveryStep
<1> QED
    BY <1>3, <1>4, <1>e

LEMMA WebhookKeeps ==
    ASSUME FixInv, NEW e \in mail, Webhook(e) PROVE FixInv' /\ Forward
<1> USE DEF FixInv
<1> DEFINE i == e.i
<1>1. i \in DOMAIN att
    BY DEF Delivers, EventDelivers
<1>0. /\ UNCHANGED <<ticket, group, probe, mind, ask>> /\ prs' = prs /\ att' = att /\ run' = run
      /\ mail' \subseteq mail /\ events' \subseteq events \cup mail
      /\ faults' = faults /\ faults \in 0..MaxFaults
    BY FaultsTyped DEF Webhook, probing, fixing
<1>2. run[i] \in Seq(Execution) /\ run = [run EXCEPT ![i] = run[i]]
  <2>1. run[i] \in Seq(Execution) /\ run \in [Ids -> Seq(Execution)]
      BY <1>1, AttemptTypes
  <2> QED
      BY <2>1
<1>3. Moves(i, att[i], group[att[i].t].sub)
    BY <1>0, <1>1, StandsStill
<1> QED
    BY <1>0, <1>1, <1>2, <1>3, DeliveringNow, DeliveryStep

LEMMA NothingMoves ==
    ASSUME FixInv, UNCHANGED <<ticket, group, probing, fixing, outside, events>>,
           faults' \in 0..MaxFaults
    PROVE  FixInv' /\ Forward
<1> USE DEF probing, fixing, outside, FixInv
<1>1. FixTypes'
    BY DEF FixTypes, Ids, Event, Mind
<1>2. OneFix'
    BY DEF OneFix, CurrentLineage, Live, AttemptsOf
<1>3. Delivers'
    BY DEF Delivers, AttemptDelivers, EventDelivers, Owns, CurrentLineage, Live, Ids
<1>4. Investigates'
    BY DEF Investigates, Investigating, Fenced, OwnsProbe, Live
<1>5. AutoCap'
    BY DEF AutoCap
<1>6. Forward
    BY StandsForward DEF fixing
<1> QED
    BY <1>1, <1>2, <1>3, <1>4, <1>5, <1>6

\* A step of the provider, that knows the pull requests and nothing else: those
\* that were decided stay so.
LEMMA ProviderStep ==
    ASSUME FixInv, NEW i \in DOMAIN att, NEW q \in Seq({"open", "closed", "merged"}),
           prs' = [prs EXCEPT ![i] = q], Len(q) <= MaxPrs, Len(prs[i]) <= Len(q),
           \A p \in DOMAIN prs[i] : prs[i][p] # "open" => q[p] = prs[i][p],
           prs[i] = <<>> /\ q # <<>> /\ att[i].by = "auto" => att[i].reserved,
           NEW r \in Seq(Execution), run' = [run EXCEPT ![i] = r],
           \A k \in DOMAIN r :
             /\ r[k].at = "created" => r[k].pr \in DOMAIN q
             /\ r[k].at = "recorded" /\ Owns(i, k) /\ k = Len(r) => att[i].status # "active"
             /\ r[k].at \in {"cleared", "created"} /\ att[i].by = "auto" => att[i].reserved,
           Len(r) = Len(run[i]),
           mail' \subseteq Event, \A e \in mail' \ mail : e.i = i /\ e.pr \in DOMAIN q /\ q[e.pr] = e.what,
           UNCHANGED <<ticket, group, probe, mind, ask, att, events, faults>>
    PROVE  FixInv' /\ Forward
<1> USE DEF FixInv
<1>1. /\ prs \in [Ids -> Seq({"open", "closed", "merged"})] /\ run \in [Ids -> Seq(Execution)]
      /\ i \in Ids /\ prs[i] \in Seq({"open", "closed", "merged"})
      /\ DOMAIN prs[i] = 1..Len(prs[i]) /\ DOMAIN q = 1..Len(q)
      /\ Len(q) \in Nat /\ Len(prs[i]) \in Nat
  <2>1. /\ prs \in [Ids -> Seq({"open", "closed", "merged"})] /\ run \in [Ids -> Seq(Execution)]
        /\ i \in Ids /\ prs[i] \in Seq({"open", "closed", "merged"})
      BY AttemptTypes
  <2> QED
      BY <2>1
<1>2. /\ prs'[i] = q /\ run'[i] = r /\ \A k \in Ids \ {i} : prs'[k] = prs[k] /\ run'[k] = run[k]
      /\ prs' \in [Ids -> Seq({"open", "closed", "merged"})] /\ run' \in [Ids -> Seq(Execution)]
    BY <1>1
<1>3. DOMAIN prs[i] \subseteq DOMAIN q
    BY <1>1
<1>4. Moves(i, att[i], group[att[i].t].sub)
    BY StandsStill
<1>5. \A k \in Ids : Len(prs'[k]) <= MaxPrs
    BY <1>2 DEF FixTypes
<1>6. FixTypes'
  <2>1. DeliveryTypes'
      BY <1>2, <1>5, HaveDeliveryTypes DEF DeliveryTypes, Ids, Event
  <2>2. ask' \in [Problems -> 0..MaxGen]
      BY DEF FixTypes
  <2> QED
      BY <2>1, <2>2, ProbingUntouched
<1>7. OneFix'
    BY <1>4, MovesOneFix
<1>8. AttemptDelivers(i)'
  <2>0. AttemptDelivers(i)
      BY DEF Delivers
  <2>1. \A k \in DOMAIN run'[i] :
         /\ run'[i][k].at = "created" => run'[i][k].pr \in DOMAIN prs'[i]
         /\ run'[i][k].at = "recorded" /\ Owns(i, k)' => att'[i].status # "active"
         /\ run'[i][k].at \in {"cleared", "created"} /\ att'[i].by = "auto" => att'[i].reserved
      BY <1>2 DEF Owns
  <2>2. prs'[i] # <<>> /\ att'[i].by = "auto" => att'[i].reserved
      BY <1>2, <2>0 DEF AttemptDelivers
  <2>3. att'[i].status = "active" => att'[i].job \in Queued
      BY <2>0 DEF AttemptDelivers
  <2>4. att'[i].status \in {"merged", "closed"} =>
         /\ \E p \in DOMAIN prs'[i] : prs'[i][p] = att'[i].status
         /\ CurrentLineage(i)' => att'[i].pr \in DOMAIN prs'[i] /\ prs'[i][att'[i].pr] = att'[i].status
    <3>1. SUFFICES ASSUME att[i].status \in {"merged", "closed"}
          PROVE  /\ \E p \in DOMAIN q : q[p] = att[i].status
                 /\ CurrentLineage(i)' => att[i].pr \in DOMAIN q /\ q[att[i].pr] = att[i].status
        BY <1>2
    <3>2. PICK p \in DOMAIN prs[i] : prs[i][p] = att[i].status
        BY <2>0, <3>1 DEF AttemptDelivers
    <3>3. p \in DOMAIN q /\ q[p] = att[i].status
        BY <1>3, <3>1, <3>2
    <3>4. ASSUME CurrentLineage(i)'
          PROVE  att[i].pr \in DOMAIN q /\ q[att[i].pr] = att[i].status
      <4>1. att[i].pr \in DOMAIN prs[i] /\ prs[i][att[i].pr] = att[i].status
          BY <2>0, <3>1, <3>4 DEF AttemptDelivers, CurrentLineage, Live
      <4> QED
          BY <1>3, <3>1, <4>1
    <3> QED
        BY <3>3, <3>4
  <2> QED
      BY <2>1, <2>2, <2>3, <2>4, Zenon DEF AttemptDelivers
<1>9. \A e \in (mail \cup events)' : EventDelivers(e)'
  <2>1. TAKE e \in (mail \cup events)'
  <2>2. CASE e \in mail \cup events
    <3>1. EventDelivers(e) /\ e.what \in {"merged", "closed"} /\ e.i \in Ids
        BY <2>2 DEF Delivers, FixTypes, Event
    <3>2. CASE e.i = i
        BY <1>2, <1>3, <3>1, <3>2 DEF EventDelivers
    <3>3. CASE e.i # i
        BY <1>2, <3>1, <3>3 DEF EventDelivers
    <3> QED
        BY <3>2, <3>3
  <2>3. CASE e \in mail' \ mail
      BY <1>2, <2>3 DEF EventDelivers
  <2> QED
      BY <2>2, <2>3
<1>10. Delivers'
    BY <1>2, <1>4, <1>8, <1>9, MovesDelivers
<1>11. Investigates'
    BY DEF Investigates, Investigating, Fenced, OwnsProbe, Live
<1>12. AutoCap'
    BY DEF AutoCap
<1>13. Forward
    BY StandsForward
<1> QED
    BY <1>6, <1>7, <1>10, <1>11, <1>12, <1>13

LEMMA CreatesKeeps ==
    ASSUME FixInv, NEW i \in DOMAIN att, NEW k \in DOMAIN run[i], FixCreates(i, k) PROVE FixInv' /\ Forward
<1>0. /\ UNCHANGED <<ticket, group, probe, mind, ask, att, events, faults>>
      /\ run[i][k].at = "cleared"
    BY DEF FixCreates, probing
<1>1. att[i].by = "auto" => att[i].reserved
    BY <1>0, ExecutionFacts
<1>2. run[i] \in Seq(Execution) /\ DOMAIN prs[i] = 1..Len(prs[i]) /\ Len(prs[i]) \in 0..MaxPrs
    BY ExecutionFacts
<1>3. ASSUME NEW p \in OpenPr(i), run' = [run EXCEPT ![i][k] = [at |-> "created", pr |-> p]],
             UNCHANGED outside
      PROVE  FixInv' /\ Forward
  <2> DEFINE x == [at |-> "created", pr |-> p]
  <2>1. p \in DOMAIN prs[i]
      BY DEF OpenPr
  <2>2. p \in 1..MaxPrs
      BY <1>2, <2>1, Bounds
  <2>3. x \in Execution /\ x.at = "created" /\ x.pr = p
      BY <2>2, ExecutionFacts
  <2> HIDE DEF x
  <2>4. run' = [run EXCEPT ![i][k] = x]
      BY <1>3 DEF x
  <2>5. UNCHANGED <<ticket, group, probe, mind, ask, att, prs, mail, events, faults>>
      BY <1>0, <1>3 DEF outside
  <2>6. /\ x.at = "created" => x.pr \in DOMAIN prs[i]
        /\ x.at = "recorded" => ~Owns(i, k) \/ att[i].status # "active"
        /\ x.at \in {"cleared", "created"} /\ att[i].by = "auto" => att[i].reserved
      BY <1>1, <2>1, <2>3
  <2> QED
      BY <2>3, <2>4, <2>5, <2>6, ExecutionAdvances
<1>4. ASSUME Len(prs[i]) < MaxPrs, prs' = [prs EXCEPT ![i] = Append(@, "open")], UNCHANGED mail,
             run' = [run EXCEPT ![i][k] = [at |-> "created", pr |-> Len(prs[i]) + 1]]
      PROVE  FixInv' /\ Forward
  <2>0. prs[i] \in Seq({"open", "closed", "merged"}) /\ AttemptDelivers(i)
        /\ prs \in [Ids -> Seq({"open", "closed", "merged"})] /\ i \in Ids
      BY AttemptTypes DEF FixInv, Delivers
  <2>1. PICK q : q = Append(prs[i], "open")
      OBVIOUS
  <2>2. /\ q \in Seq({"open", "closed", "merged"}) /\ Len(q) = Len(prs[i]) + 1
        /\ DOMAIN q = 1..(Len(prs[i]) + 1) /\ \A p \in DOMAIN prs[i] : q[p] = prs[i][p]
      BY <2>0, <2>1, SeqAppend
  <2>3. prs' = [prs EXCEPT ![i] = q]
      BY <1>4, <2>0, <2>1
  <2>4. PICK x \in Execution : x = [at |-> "created", pr |-> Len(prs[i]) + 1]
    <3>1. Len(prs[i]) + 1 \in 1..MaxPrs
        BY <1>2, <1>4, Bounds
    <3> QED
        BY <3>1, ExecutionFacts
  <2>5. x.at = "created" /\ x.pr \in DOMAIN q
      BY <1>2, <2>2, <2>4
  <2>6. PICK r : r = [run[i] EXCEPT ![k] = x]
      OBVIOUS
  <2>7. /\ r \in Seq(Execution) /\ Len(r) = Len(run[i]) /\ DOMAIN r = DOMAIN run[i]
        /\ r[k] = x /\ \A m \in DOMAIN run[i] : m # k => r[m] = run[i][m]
      BY <1>2, <2>6, SeqUpdate
  <2>8. run' = [run EXCEPT ![i] = r]
      BY <1>4, <2>4, <2>6
  <2>9. \A m \in DOMAIN r :
             /\ r[m].at = "created" => r[m].pr \in DOMAIN q
             /\ r[m].at = "recorded" /\ Owns(i, m) /\ m = Len(r) => att[i].status # "active"
             /\ r[m].at \in {"cleared", "created"} /\ att[i].by = "auto" => att[i].reserved
    <3>1. TAKE m \in DOMAIN r
    <3>2. CASE m = k
        BY <1>1, <2>5, <2>7, <3>2
    <3>3. CASE m # k
      <4>1. m \in DOMAIN run[i] /\ r[m] = run[i][m]
          BY <2>7, <3>3
      <4>2. DOMAIN prs[i] \subseteq DOMAIN q
          BY <1>2, <2>2
      <4> QED
          BY <2>0, <4>1, <4>2 DEF AttemptDelivers
    <3> QED
        BY <3>2, <3>3
  <2>10. Len(q) <= MaxPrs /\ Len(prs[i]) <= Len(q)
      BY <1>2, <1>4, <2>2, Bounds
  <2>11. mail' \subseteq Event /\ mail' \ mail = {}
      BY <1>4 DEF FixInv, FixTypes
  <2> QED
      BY <1>0, <1>1, <2>2, <2>3, <2>7, <2>8, <2>9, <2>10, <2>11, ProviderStep
<1> QED
    BY <1>3, <1>4 DEF FixCreates

LEMMA DecideKeeps ==
    ASSUME FixInv, NEW i \in DOMAIN att, NEW p \in DOMAIN prs[i], Decide(i, p) PROVE FixInv' /\ Forward
<1>0. /\ UNCHANGED <<ticket, group, probe, mind, ask, att, run, events, faults>> /\ prs[i][p] = "open"
    BY DEF Decide, probing, fixing
<1>1. PICK w \in {"merged", "closed"} :
         /\ prs' = [prs EXCEPT ![i][p] = w]
         /\ mail' = mail \cup {[i |-> i, pr |-> p, what |-> w]}
    BY DEF Decide
<1>2. /\ prs[i] \in Seq({"open", "closed", "merged"}) /\ AttemptDelivers(i)
      /\ run[i] \in Seq(Execution) /\ run \in [Ids -> Seq(Execution)] /\ i \in Ids
      /\ Len(prs[i]) <= MaxPrs
    BY AttemptTypes DEF FixInv, Delivers
<1>3. PICK q : q = [prs[i] EXCEPT ![p] = w]
    OBVIOUS
<1>4. /\ q \in Seq({"open", "closed", "merged"}) /\ Len(q) = Len(prs[i]) /\ DOMAIN q = DOMAIN prs[i]
      /\ q[p] = w /\ \A n \in DOMAIN prs[i] : n # p => q[n] = prs[i][n]
    BY <1>2, <1>3, SeqUpdate
<1>5. prs' = [prs EXCEPT ![i] = q]
    BY <1>1, <1>3
<1>6. [i |-> i, pr |-> p, what |-> w] \in Event
  <2>1. p \in 1..MaxPrs
      BY <1>2, Bounds
  <2> QED
      BY <1>2, <2>1 DEF Event
<1>7. mail' \subseteq Event /\ \A e \in mail' \ mail : e.i = i /\ e.pr \in DOMAIN q /\ q[e.pr] = e.what
    BY <1>1, <1>4, <1>6 DEF FixInv, FixTypes
<1>8. run' = [run EXCEPT ![i] = run[i]]
    BY <1>0, <1>2
<1>9. \A k \in DOMAIN run[i] :
             /\ run[i][k].at = "created" => run[i][k].pr \in DOMAIN q
             /\ run[i][k].at = "recorded" /\ Owns(i, k) /\ k = Len(run[i]) => att[i].status # "active"
             /\ run[i][k].at \in {"cleared", "created"} /\ att[i].by = "auto" => att[i].reserved
    BY <1>2, <1>4 DEF AttemptDelivers
<1>10. /\ Len(q) <= MaxPrs /\ Len(prs[i]) <= Len(q)
       /\ \A n \in DOMAIN prs[i] : prs[i][n] # "open" => q[n] = prs[i][n]
       /\ prs[i] # <<>>
    BY <1>0, <1>2, <1>4
<1> QED
    BY <1>0, <1>2, <1>4, <1>5, <1>7, <1>8, <1>9, <1>10, ProviderStep

LEMMA RequestKeeps ==
    ASSUME FixInv, NEW t \in Problems, NEW by \in {"human", "auto"}, RequestFix(t, by),
           UNCHANGED <<ticket, probe, mind, run, prs, mail, events, faults>>,
           ask' \in [Problems -> 0..MaxGen]
    PROVE  FixInv' /\ Forward
<1> USE DEF FixInv
<1>0. PICK n \in Nat : n = Len(att) + 1
    BY DEF FixTypes
<1>1. PICK a : a = [t |-> t, gen |-> ticket[t].gen, by |-> by, status |-> "active",
                    pr |-> 0, reserved |-> FALSE, job |-> "pending"]
    OBVIOUS
<1>2. /\ Live(t) /\ group[t].sub # "resolved" /\ Free(t) /\ Len(att) < MaxAttempts
      /\ att' = Append(att, a) /\ group' = [group EXCEPT ![t].sub = "fixing"]
    BY <1>1 DEF RequestFix
<1>3. ticket[t].gen \in 1..MaxGen
  <2>1. ticket[t].gen > 0 /\ ticket[t].gen \in 0..MaxGen
      BY <1>2, ProblemTypes DEF OneFix
  <2> QED
      BY <2>1, Bounds
<1>4. a \in Attempt
    BY <1>1, <1>3, Bounds DEF Attempt, Outstanding, Queued
<1>5. /\ att \in Seq(Attempt) /\ Len(att) \in Nat /\ DOMAIN att = 1..Len(att)
    BY DEF FixTypes
<1>6. /\ att' \in Seq(Attempt) /\ Len(att') = n /\ DOMAIN att' = 1..n
      /\ att'[n] = a /\ \A i \in DOMAIN att : att'[i] = att[i]
      /\ DOMAIN att' = DOMAIN att \cup {n} /\ n \notin DOMAIN att
  <2>1. /\ att' \in Seq(Attempt) /\ Len(att') = n /\ DOMAIN att' = 1..n
        /\ att'[n] = a /\ \A i \in DOMAIN att : att'[i] = att[i]
      BY <1>0, <1>2, <1>4, <1>5, SeqAppend
  <2> QED
      BY <1>0, <1>5, <2>1
<1>7. /\ group' \in [Problems -> Issue] /\ group'[t].sub = "fixing"
      /\ \A u \in Problems : /\ u # t => group'[u] = group[u]
                             /\ group'[u].inv = group[u].inv /\ group'[u].exec = group[u].exec
                             /\ group'[u].result = group[u].result /\ group'[u].used = group[u].used
  <2>1. PICK g : g = [group[t] EXCEPT !.sub = "fixing"]
      OBVIOUS
  <2>2. group \in [Problems -> Issue] /\ group[t] \in Issue
      BY ProblemTypes
  <2>3. g \in Issue /\ g.sub = "fixing" /\ g.inv = group[t].inv /\ g.exec = group[t].exec
        /\ g.result = group[t].result /\ g.used = group[t].used
      BY <2>1, <2>2 DEF Issue
  <2>4. group' = [group EXCEPT ![t] = g]
      BY <1>2, <2>1
  <2> QED
      BY <2>2, <2>3, <2>4
<1>8. n \in Ids /\ n = Len(att) + 1
    BY <1>0, <1>2, <1>5, Bounds DEF Ids
<1>9. FixTypes'
  <2>1. Len(att') <= MaxAttempts
      BY <1>2, <1>5, <1>6, <1>8, Bounds
  <2>2. DeliveryTypes'
      BY <1>6, <1>7, <2>1, HaveDeliveryTypes DEF DeliveryTypes, Ids, Event
  <2> QED
      BY <2>2, ProbingUntouched
<1>10. \A i \in DOMAIN att : att[i].t \in Problems /\ CurrentLineage(i)' = CurrentLineage(i)
    BY <1>6, AttemptTypes DEF CurrentLineage, Live
<1>11. \A i \in DOMAIN att : att[i].t = t => att[i].status \notin Outstanding
    BY <1>2 DEF OneFix, Free, AttemptsOf, CurrentLineage
<1>12. CurrentLineage(n)' /\ a.t = t /\ a.gen = ticket[t].gen /\ a.status = "active"
    BY <1>1, <1>2, <1>6 DEF CurrentLineage, Live
<1>13. OneFix'
  <2>1. ASSUME NEW i \in DOMAIN att'
        PROVE  /\ att'[i].gen <= ticket'[att'[i].t].gen
               /\ att'[i].status \in Outstanding =>
                    /\ CurrentLineage(i)'
                    /\ \A k \in DOMAIN att' :
                         att'[k].status \in Outstanding /\ att'[k].t = att'[i].t => k = i
               /\ att'[i].status = "active" => group'[att'[i].t].sub = "fixing"
               /\ att'[i].status = "pr_open" => group'[att'[i].t].sub = "pr_open"
    <3>1. CASE i = n
      <4>1. att'[i] = a /\ CurrentLineage(i)' /\ ticket' = ticket
          BY <1>6, <1>12, <3>1
      <4>2. \A k \in DOMAIN att' : att'[k].status \in Outstanding /\ att'[k].t = t => k = i
          BY <1>6, <1>11, <3>1
      <4>3. att'[i].gen <= ticket'[att'[i].t].gen
          BY <1>3, <1>12, <4>1, Bounds
      <4> QED
          BY <1>7, <1>12, <4>1, <4>2, <4>3
    <3>2. CASE i # n
      <4>1. i \in DOMAIN att /\ att'[i] = att[i] /\ ticket' = ticket
          BY <1>6, <3>2
      <4>2. att[i].status \in Outstanding => att[i].t # t
          BY <1>11, <4>1
      <4>3. \A k \in DOMAIN att' : k # n => k \in DOMAIN att /\ att'[k] = att[k]
          BY <1>6
      <4>4. att[i].t \in Problems /\ CurrentLineage(i)' = CurrentLineage(i)
          BY <1>10, <4>1
      <4>5. att'[n].t = t
          BY <1>6, <1>12
      <4>6. att'[i].gen <= ticket'[att'[i].t].gen
          BY <4>1 DEF OneFix
      <4>7. ASSUME att'[i].status \in Outstanding
            PROVE  /\ CurrentLineage(i)' /\ att[i].t # t
                   /\ \A k \in DOMAIN att' :
                        att'[k].status \in Outstanding /\ att'[k].t = att'[i].t => k = i
        <5>1. CurrentLineage(i) /\ att[i].t # t
            BY <4>1, <4>2, <4>7 DEF OneFix
        <5>2. ASSUME NEW k \in DOMAIN att', att'[k].status \in Outstanding, att'[k].t = att'[i].t
              PROVE  k = i
          <6>1. k # n
              BY <4>1, <4>5, <5>1, <5>2
          <6> QED
              BY <4>1, <4>3, <4>7, <5>2, <6>1 DEF OneFix
        <5> QED
            BY <4>4, <5>1, <5>2
      <4>8. att[i].t # t => group'[att[i].t] = group[att[i].t]
          BY <1>7, <4>4
      <4> QED
          BY <4>1, <4>6, <4>7, <4>8 DEF OneFix, Outstanding
    <3> QED
        BY <3>1, <3>2
  <2>2. ASSUME NEW u \in Problems, Live(u)'
        PROVE  /\ ticket'[u].gen > 0
               /\ group'[u].sub = "fixing" =>
                    \E i \in DOMAIN att' : att'[i].t = u /\ att'[i].status = "active"
               /\ group'[u].sub = "pr_open" =>
                    \E i \in DOMAIN att' : att'[i].t = u /\ att'[i].status = "pr_open"
               /\ group'[u].sub = "resolved" => \E i \in AttemptsOf(u)' : att'[i].status = "merged"
    <3>1. Live(u) /\ ticket'[u].gen > 0 /\ ticket' = ticket
        BY <2>2 DEF Live, OneFix
    <3>2. CASE u = t
        BY <1>6, <1>7, <1>12, <3>1, <3>2
    <3>3. CASE u # t
      <4>1. group'[u].sub = group[u].sub /\ DOMAIN att \subseteq DOMAIN att'
            /\ AttemptsOf(u) \subseteq AttemptsOf(u)'
          BY <1>6, <1>7, <3>1, <3>3 DEF AttemptsOf
      <4>2. \A i \in AttemptsOf(u) : i \in DOMAIN att
          BY DEF AttemptsOf
      <4> QED
          BY <1>6, <3>1, <4>1, <4>2 DEF OneFix
    <3> QED
        BY <3>2, <3>3
  <2> QED
      BY <2>1, <2>2 DEF OneFix
<1>14. Delivers'
  <2>1. \A i \in Ids : i > Len(att') => run'[i] = <<>> /\ prs'[i] = <<>>
    <3>1. \A i \in Ids : i > Len(att') => i > Len(att)
        BY <1>5, <1>6, <1>8 DEF Ids
    <3> QED
        BY <3>1 DEF Delivers, Ids
  <2>2. ASSUME NEW i \in DOMAIN att' PROVE AttemptDelivers(i)'
    <3>1. CASE i = n
      <4>1. run[n] = <<>> /\ prs[n] = <<>>
          BY <1>5, <1>8 DEF Delivers
      <4>2. /\ DOMAIN run'[i] = {} /\ prs'[i] = <<>> /\ att'[i].status = "active"
            /\ att'[i].job \in Queued
          BY <1>1, <1>6, <3>1, <4>1 DEF Queued
      <4> QED
          BY <4>2 DEF AttemptDelivers
    <3>2. CASE i # n
      <4>1. i \in DOMAIN att /\ att'[i] = att[i] /\ AttemptDelivers(i)
            /\ CurrentLineage(i)' = CurrentLineage(i)
          BY <1>6, <1>10, <3>2 DEF Delivers
      <4> QED
          BY <4>1 DEF AttemptDelivers, Owns
    <3> QED
        BY <3>1, <3>2
  <2>3. \A e \in (mail \cup events)' : EventDelivers(e)'
      BY <1>6 DEF Delivers, EventDelivers
  <2> QED
      BY <2>1, <2>2, <2>3 DEF Delivers
<1>15. Investigates'
  <2>1. \A u \in Problems : group'[u].sub # "resolved" => group[u].sub # "resolved"
      BY <1>2, <1>7
  <2> QED
      BY <1>7, <2>1 DEF Investigates, Investigating, Fenced, OwnsProbe, Live
<1>16. AutoCap'
  <2>1. a.status # "pr_open" /\ ~a.reserved
      BY <1>1
  <2>2. \A i \in Slots' : i \in Slots
      BY <1>6, <2>1 DEF Slots
  <2> QED
      BY <2>2, FewerSlots
<1>17. Forward
  <2>1. \A i \in DOMAIN att : att'[i].status = att[i].status
      BY <1>6
  <2>2. \A u \in Problems : group[u].sub = "resolved" => group'[u].sub = "resolved"
      BY <1>2, <1>7
  <2> QED
      BY <1>7, <2>1, <2>2 DEF Forward, OutcomeIsFinal, NewestResult
<1> QED
    BY <1>9, <1>13, <1>14, <1>15, <1>16, <1>17

LEMMA RequestsKeep ==
    ASSUME FixInv, NEW t \in Problems, PersonRequests(t) \/ InvestigationAsks(t)
    PROVE  FixInv' /\ Forward
<1>0. ask \in [Problems -> 0..MaxGen]
    BY DEF FixInv, FixTypes
<1>1. CASE PersonRequests(t)
    BY <1>0, <1>1, RequestKeeps DEF PersonRequests, probing, outside
<1>2. CASE InvestigationAsks(t)
  <2>1. ask' \in [Problems -> 0..MaxGen]
      BY <1>0, <1>2, Bounds DEF InvestigationAsks
  <2>2. UNCHANGED <<ticket, probe, mind, run, prs, mail, events, faults>>
      BY <1>2 DEF InvestigationAsks, outside
  <2>3. CASE RequestFix(t, "auto")
      BY <2>1, <2>2, <2>3, RequestKeeps
  <2>4. CASE UNCHANGED <<att, group>>
    <3> USE DEF FixInv
    <3>1. FixTypes'
        BY <2>1, <2>2, <2>4 DEF FixTypes, Ids, Event, Mind
    <3>2. OneFix'
        BY <2>2, <2>4 DEF OneFix, CurrentLineage, Live, AttemptsOf
    <3>3. Delivers'
        BY <2>2, <2>4 DEF Delivers, AttemptDelivers, EventDelivers, Owns, CurrentLineage, Live, Ids
    <3>4. Investigates'
        BY <2>2, <2>4 DEF Investigates, Investigating, Fenced, OwnsProbe, Live
    <3>5. AutoCap'
        BY <2>4 DEF AutoCap
    <3>6. Forward
        BY <2>4, StandsForward
    <3> QED
        BY <3>1, <3>2, <3>3, <3>4, <3>5, <3>6
  <2> QED
      BY <1>2, <2>3, <2>4 DEF InvestigationAsks
<1> QED
    BY <1>1, <1>2

\* The numbers of a problem's investigations.
LEMMA ProbeNumbers ==
    ASSUME FixTypes, NEW t \in Problems
    PROVE  /\ group[t].exec \in Nat /\ group[t].result \in Nat /\ group[t].used \in Nat
           /\ ticket[t].ev \in Nat /\ ticket[t].gen \in Nat
           /\ Len(probe[t]) \in Nat /\ DOMAIN probe[t] = 1..Len(probe[t])
           /\ \A j \in DOMAIN probe[t] : /\ probe[t][j].exec \in Nat /\ probe[t][j].ev \in Nat
                                          /\ probe[t][j].claim \in Nat
           /\ \A h \in mind[t] : h.exec \in Nat /\ h.ev \in Nat /\ h.job \in Nat /\ h.claim \in Nat
<1>1. /\ ticket[t].gen \in 0..MaxGen /\ ticket[t].ev \in 0..MaxEvidence /\ group[t].exec \in Nat
      /\ group[t].result \in Nat /\ group[t].used \in 0..MaxEvidence
      /\ probe[t] \in Seq(Probe) /\ mind[t] \subseteq Mind
    BY ProblemTypes
<1>2. \A j \in DOMAIN probe[t] : probe[t][j] \in Probe
    BY <1>1
<1>3. \A j \in DOMAIN probe[t] : /\ probe[t][j].exec \in Nat /\ probe[t][j].ev \in Nat
                                /\ probe[t][j].claim \in Nat
    BY <1>2, Bounds DEF Probe
<1>4. \A h \in mind[t] : h.exec \in Nat /\ h.ev \in Nat /\ h.job \in Nat /\ h.claim \in Nat
    BY <1>1, Bounds DEF Mind
<1> QED
    BY <1>1, <1>3, <1>4, Bounds

\* A generation that ends takes its attempts with it; the next one starts with none.
LEMMA RetiringKeeps ==
    ASSUME FixInv, FixTypes', NEW t \in Problems, att' = Retired(t),
           UNCHANGED <<run, prs, mail>>, events' \subseteq events,
           \A u \in Problems \ {t} : ticket'[u] = ticket[u] /\ group'[u] = group[u],
           \/ ticket'[t].live # "yes" /\ ticket'[t].gen = ticket[t].gen
           \/ ticket'[t].gen = ticket[t].gen + 1 /\ group'[t].sub = "none"
    PROVE  OneFix' /\ Delivers' /\ AutoCap'
<1> USE DEF FixInv
<1>1. /\ DOMAIN att' = DOMAIN att /\ Len(att') = Len(att)
      /\ \A i \in DOMAIN att :
           /\ att'[i].t = att[i].t /\ att'[i].gen = att[i].gen /\ att'[i].by = att[i].by
           /\ att'[i].pr = att[i].pr /\ att'[i].reserved = att[i].reserved
           /\ att[i].t # t => att'[i] = att[i]
           /\ att[i].t = t => /\ att'[i].status \notin Outstanding
                              /\ att[i].status \notin Outstanding => att'[i].status = att[i].status
                              /\ att'[i].status \in {"merged", "closed"} => att'[i].status = att[i].status
    BY RetiredTypes DEF Outstanding
<1>2. ticket[t].gen \in Nat /\ ticket'[t].gen \in Nat /\ ticket[t].gen <= ticket'[t].gen
  <2>1. ticket[t].gen \in 0..MaxGen
      BY ProblemTypes
  <2> QED
      BY <2>1, Bounds
<1>3. ASSUME NEW i \in DOMAIN att
      PROVE  /\ att[i].t \in Problems /\ att[i].gen \in Nat /\ att[i].gen <= ticket[att[i].t].gen
             /\ att[i].t # t => CurrentLineage(i)' = CurrentLineage(i)
             /\ att[i].t = t => ~CurrentLineage(i)'
  <2>1. att[i].t \in Problems /\ att[i].gen \in Nat /\ att[i].gen <= ticket[att[i].t].gen
    <3>1. att[i] \in Attempt
        BY AttemptTypes
    <3> QED
        BY <3>1, Bounds DEF Attempt, OneFix
  <2>2. ASSUME att[i].t # t PROVE CurrentLineage(i)' = CurrentLineage(i)
      BY <1>1, <2>1, <2>2 DEF CurrentLineage, Live
  <2>3. ASSUME att[i].t = t PROVE ~CurrentLineage(i)'
      BY <1>1, <1>2, <2>1, <2>3 DEF CurrentLineage, Live
  <2> QED
      BY <2>1, <2>2, <2>3
<1>4. OneFix'
  <2>1. ASSUME NEW i \in DOMAIN att'
        PROVE  /\ att'[i].gen <= ticket'[att'[i].t].gen
               /\ att'[i].status \in Outstanding =>
                    /\ CurrentLineage(i)'
                    /\ \A k \in DOMAIN att' :
                         att'[k].status \in Outstanding /\ att'[k].t = att'[i].t => k = i
               /\ att'[i].status = "active" => group'[att'[i].t].sub = "fixing"
               /\ att'[i].status = "pr_open" => group'[att'[i].t].sub = "pr_open"
    <3>1. CASE att[i].t = t
      <4>1. att'[i].gen <= ticket'[att'[i].t].gen
          BY <1>1, <1>2, <1>3, <3>1
      <4> QED
          BY <1>1, <3>1, <4>1 DEF Outstanding
    <3>2. CASE att[i].t # t
      <4>1. att'[i] = att[i] /\ ticket'[att[i].t] = ticket[att[i].t] /\ group'[att[i].t] = group[att[i].t]
            /\ CurrentLineage(i)' = CurrentLineage(i)
          BY <1>1, <1>3, <3>2
      <4>2. ASSUME NEW k \in DOMAIN att', att'[k].status \in Outstanding, att'[k].t = att'[i].t
            PROVE  k \in DOMAIN att /\ att'[k] = att[k]
          BY <1>1, <3>2, <4>2
      <4> QED
          BY <1>1, <4>1, <4>2 DEF OneFix
    <3> QED
        BY <3>1, <3>2
  <2>2. ASSUME NEW u \in Problems, Live(u)'
        PROVE  /\ ticket'[u].gen > 0
               /\ group'[u].sub = "fixing" =>
                    \E i \in DOMAIN att' : att'[i].t = u /\ att'[i].status = "active"
               /\ group'[u].sub = "pr_open" =>
                    \E i \in DOMAIN att' : att'[i].t = u /\ att'[i].status = "pr_open"
               /\ group'[u].sub = "resolved" => \E i \in AttemptsOf(u)' : att'[i].status = "merged"
    <3>1. CASE u = t
        BY <1>2, <2>2, <3>1 DEF Live
    <3>2. CASE u # t
      <4>1. Live(u) /\ ticket'[u] = ticket[u] /\ group'[u] = group[u]
          BY <2>2, <3>2 DEF Live
      <4>2. \A i \in DOMAIN att : att[i].t = u => i \in DOMAIN att' /\ att'[i] = att[i]
          BY <1>1, <3>2
      <4>3. \A i \in AttemptsOf(u) : i \in AttemptsOf(u)' /\ att'[i] = att[i]
          BY <4>1, <4>2 DEF AttemptsOf
      <4> QED
          BY <4>1, <4>2, <4>3 DEF OneFix
    <3> QED
        BY <3>1, <3>2
  <2> QED
      BY <2>1, <2>2 DEF OneFix
<1>5. Delivers'
  <2>1. ASSUME NEW i \in DOMAIN att' PROVE AttemptDelivers(i)'
    <3>1. i \in DOMAIN att /\ AttemptDelivers(i) /\ run' = run /\ prs' = prs
        BY <1>1 DEF Delivers
    <3>2. CASE att[i].t = t
      <4>1. ~CurrentLineage(i)' /\ att'[i].status # "active"
            /\ att'[i].by = att[i].by /\ att'[i].reserved = att[i].reserved
            /\ (att'[i].status \in {"merged", "closed"} => att'[i].status = att[i].status)
          BY <1>1, <1>3, <3>1, <3>2 DEF Outstanding
      <4> QED
          BY <3>1, <4>1 DEF AttemptDelivers
    <3>3. CASE att[i].t # t
      <4>1. att'[i] = att[i] /\ CurrentLineage(i)' = CurrentLineage(i)
          BY <1>1, <1>3, <3>1, <3>3
      <4> QED
          BY <3>1, <4>1 DEF AttemptDelivers, Owns
    <3> QED
        BY <3>2, <3>3
  <2>2. \A e \in (mail \cup events)' : EventDelivers(e)'
      BY <1>1 DEF Delivers, EventDelivers
  <2>3. \A i \in Ids : i > Len(att') => run'[i] = <<>> /\ prs'[i] = <<>>
      BY <1>1 DEF Delivers, Ids
  <2> QED
      BY <2>1, <2>2, <2>3 DEF Delivers
<1>6. AutoCap'
  <2>1. ASSUME NEW i \in Slots' PROVE i \in Slots
    <3>1. i \in DOMAIN att' /\ att'[i].by = "auto"
          /\ (att'[i].status = "pr_open" \/ (att'[i].status = "active" /\ att'[i].reserved))
        BY <2>1 DEF Slots
    <3>2. i \in DOMAIN att /\ att'[i] = att[i]
        BY <1>1, <3>1 DEF Outstanding
    <3> QED
        BY <3>1, <3>2 DEF Slots
  <2> QED
      BY <2>1, FewerSlots
<1> QED
    BY <1>4, <1>5, <1>6

LEMMA PublishKeeps == ASSUME FixInv, NEW t \in Problems, Publish(t) PROVE FixInv' /\ Forward
<1> USE DEF FixInv
<1>1. FixTypes'
    BY PublicationTypes
<1>2. /\ ticket[t] \in Ticket /\ ticket \in [Problems -> Ticket] /\ group \in [Problems -> Issue]
      /\ probe \in [Problems -> Seq(Probe)] /\ mind \in [Problems -> SUBSET Mind]
    BY ProblemTypes
<1>3. ticket' = [ticket EXCEPT ![t] = [ticket[t] EXCEPT !.live = "yes", !.gen = ticket[t].gen + 1]]
    BY DEF Publish
<1>4. /\ ticket'[t].live = "yes" /\ ticket'[t].gen = ticket[t].gen + 1 /\ ticket'[t].ev = ticket[t].ev
      /\ \A u \in Problems \ {t} : ticket'[u] = ticket[u]
    BY <1>2, <1>3 DEF Ticket
<1>5. /\ group'[t] = [NewGroup EXCEPT !.used = ticket[t].ev]
      /\ probe'[t] = <<NewProbe>> /\ mind'[t] = {}
      /\ \A u \in Problems \ {t} : group'[u] = group[u] /\ probe'[u] = probe[u] /\ mind'[u] = mind[u]
    BY <1>2 DEF Publish
<1>6. /\ group'[t].sub = "none" /\ group'[t].used = ticket[t].ev
      /\ group'[t].exec = 0 /\ group'[t].result = 0
    BY <1>5 DEF NewGroup
<1>7. OneFix' /\ Delivers' /\ AutoCap'
  <2>1. att' = Retired(t) /\ UNCHANGED <<run, prs, mail, events>>
      BY DEF Publish, outside
  <2> QED
      BY <1>1, <1>4, <1>5, <1>6, <2>1, RetiringKeeps
<1>8. Investigates'
  <2>1. /\ DOMAIN probe'[t] = {1} /\ Len(probe'[t]) = 1 /\ probe'[t] # <<>>
        /\ probe'[t][1].status = "pending" /\ probe'[t][1].exec = 0 /\ probe'[t][1].ev = 0
      BY <1>5 DEF NewProbe
  <2>2. ticket[t].ev \in Nat
    <3>1. ticket[t].ev \in 0..MaxEvidence
        BY <1>2 DEF Ticket
    <3> QED
        BY <3>1, Bounds
  <2>3. Investigating(t)'
    <3>1. group'[t].used <= ticket'[t].ev
        BY <1>4, <1>6, <2>2
    <3>2. \A j \in DOMAIN probe'[t] :
           /\ probe'[t][j].status \in Queued => j = Len(probe'[t])
           /\ probe'[t][j].exec <= group'[t].exec
           /\ j = Len(probe'[t]) => probe'[t][j].exec \in {0, group'[t].exec}
           /\ probe'[t][j].ev <= ticket'[t].ev
        BY <1>4, <1>6, <2>1, <2>2
    <3>3. mind'[t] = {} /\ Live(t)' /\ probe'[t] # <<>>
          /\ probe'[t][Len(probe'[t])].status \in Queued
        BY <1>4, <1>5, <2>1 DEF Live, Queued
    <3> QED
        BY <3>1, <3>2, <3>3 DEF Investigating
  <2>4. \A u \in Problems \ {t} : Investigating(u)' /\ Fenced(u)'
      BY <1>4, <1>5 DEF Investigates, Investigating, Fenced, OwnsProbe, Live
  <2>5. Fenced(t)'
      BY <1>5, <1>6 DEF Fenced
  <2> QED
      BY <2>3, <2>4, <2>5 DEF Investigates
<1>9. Forward
  <2>1. att' = Retired(t) /\ ticket[t].gen \in Nat
      BY ProbeNumbers DEF Publish
  <2>2. \A i \in DOMAIN att : att[i].status \notin Outstanding => att'[i].status = att[i].status
      BY <2>1, RetiredTypes
  <2>3. ticket'[t].gen # ticket[t].gen
      BY <1>4, <2>1
  <2> QED
      BY <1>5, <2>2, <2>3 DEF Forward, OutcomeIsFinal, NewestResult
<1> QED
    BY <1>1, <1>7, <1>8, <1>9

LEMMA TakeBackKeeps == ASSUME FixInv, NEW t \in Problems, TakeBack(t) PROVE FixInv' /\ Forward
<1> USE DEF FixInv
<1>1. FixTypes'
    BY PublicationTypes
<1>2. /\ ticket[t] \in Ticket /\ ticket \in [Problems -> Ticket]
      /\ probe \in [Problems -> Seq(Probe)] /\ mind \in [Problems -> SUBSET Mind]
    BY ProblemTypes
<1>3. /\ ticket'[t].live # "yes" /\ ticket'[t].gen = ticket[t].gen /\ ticket'[t].ev = ticket[t].ev
      /\ \A u \in Problems \ {t} : ticket'[u] = ticket[u]
    BY <1>2 DEF TakeBack, Ticket
<1>4. /\ group' = group /\ probe'[t] = <<>> /\ mind'[t] = {}
      /\ \A u \in Problems \ {t} : probe'[u] = probe[u] /\ mind'[u] = mind[u]
      /\ att' = Retired(t) /\ UNCHANGED <<run, prs, mail>> /\ events' \subseteq events
    BY <1>2 DEF TakeBack, outside
<1>5. OneFix' /\ Delivers' /\ AutoCap'
    BY <1>1, <1>3, <1>4, RetiringKeeps
<1>6. Investigates'
    BY <1>3, <1>4 DEF Investigates, Investigating, Fenced, OwnsProbe, Live
<1>7. Forward
  <2>1. \A i \in DOMAIN att : att[i].status \notin Outstanding => att'[i].status = att[i].status
      BY <1>4, RetiredTypes
  <2> QED
      BY <1>4, <2>1 DEF Forward, OutcomeIsFinal, NewestResult
<1> QED
    BY <1>1, <1>5, <1>6, <1>7

\* A step of the investigations of t moves no attempt and no incident's substate.
LEMMA ProbingKeeps ==
    ASSUME FixInv, FixTypes', NEW t \in Problems, UNCHANGED <<att, run, prs, mail, events>>,
           \A u \in Problems \ {t} : /\ ticket'[u] = ticket[u] /\ group'[u] = group[u]
                                     /\ probe'[u] = probe[u] /\ mind'[u] = mind[u],
           ticket'[t].live = ticket[t].live, ticket'[t].gen = ticket[t].gen,
           group'[t].sub = group[t].sub, Investigating(t)', Fenced(t)',
           group'[t].result # group[t].result =>
             /\ group'[t].result > group[t].result /\ group'[t].used >= group[t].used
             /\ group'[t].result = group[t].exec
    PROVE  FixInv' /\ Forward
<1> USE DEF FixInv
<1>1. \A u \in Problems : /\ ticket'[u].live = ticket[u].live /\ ticket'[u].gen = ticket[u].gen
                          /\ group'[u].sub = group[u].sub
    OBVIOUS
<1>2. \A i \in DOMAIN att : att[i].t \in Problems /\ CurrentLineage(i)' = CurrentLineage(i)
    BY <1>1, AttemptTypes DEF CurrentLineage, Live
<1>3. \A u \in Problems : Live(u)' = Live(u) /\ AttemptsOf(u)' = AttemptsOf(u)
    BY <1>1 DEF Live, AttemptsOf
<1>4. OneFix'
    BY <1>1, <1>2, <1>3 DEF OneFix
<1>5. Delivers'
    BY <1>2 DEF Delivers, AttemptDelivers, EventDelivers, Owns, Ids
<1>6. AutoCap'
    BY DEF AutoCap
<1>7. Investigates'
  <2>1. \A u \in Problems \ {t} : Investigating(u)'
      BY DEF Investigates, Investigating, Live
  <2>2. \A u \in Problems \ {t} : Fenced(u)'
      BY DEF Investigates, Fenced, OwnsProbe
  <2> QED
      BY <2>1, <2>2 DEF Investigates
<1>8. Forward
    BY <1>1 DEF Forward, OutcomeIsFinal, NewestResult
<1> QED
    BY <1>4, <1>5, <1>6, <1>7, <1>8

\* A job that is claimed anew is nobody's who began before; one that stays claimed
\* stays its owner's.
LEMMA FencedStays ==
    ASSUME FixTypes, NEW t \in Problems, Investigating(t), Fenced(t), mind'[t] \subseteq mind[t],
           group'[t].result <= group'[t].exec,
           \A k \in DOMAIN probe[t] :
             /\ probe'[t][k].claim \in Nat /\ probe[t][k].claim <= probe'[t][k].claim
             /\ probe'[t][k].status = "claimed" =>
                  \/ probe[t][k].claim < probe'[t][k].claim
                  \/ /\ probe[t][k].status = "claimed" /\ probe'[t][k].claim = probe[t][k].claim
                     /\ probe'[t][k].exec = probe[t][k].exec /\ group'[t].result = group[t].result
    PROVE  Fenced(t)'
<1>1. ASSUME NEW h \in mind'[t]
      PROVE  /\ h.claim <= probe'[t][h.job].claim
             /\ OwnsProbe(t, h)' => probe'[t][h.job].exec = h.exec /\ h.exec > group'[t].result
  <2>1. h \in mind[t] /\ h.job \in DOMAIN probe[t]
      BY <1>1 DEF Investigating
  <2>2. h.claim <= probe[t][h.job].claim /\ h.claim \in Nat /\ probe[t][h.job].claim \in Nat
      BY <2>1, ProbeNumbers DEF Fenced
  <2>3. h.claim <= probe'[t][h.job].claim
      BY <2>1, <2>2
  <2>4. ASSUME OwnsProbe(t, h)' PROVE probe'[t][h.job].exec = h.exec /\ h.exec > group'[t].result
    <3>1. probe'[t][h.job].status = "claimed" /\ h.claim = probe'[t][h.job].claim
        BY <2>4 DEF OwnsProbe
    <3>2. ~(probe[t][h.job].claim < probe'[t][h.job].claim)
        BY <2>1, <2>2, <3>1
    <3>3. OwnsProbe(t, h) /\ probe'[t][h.job].exec = probe[t][h.job].exec
          /\ group'[t].result = group[t].result
        BY <2>1, <3>1, <3>2 DEF OwnsProbe
    <3> QED
        BY <2>1, <3>3 DEF Fenced
  <2> QED
      BY <2>3, <2>4
<1> QED
    BY <1>1 DEF Fenced

LEMMA JobChanges ==
    ASSUME FixTypes, NEW t \in Problems, NEW j \in DOMAIN probe[t], NEW p,
           probe' = [probe EXCEPT ![t] = [probe[t] EXCEPT ![j] = p]]
    PROVE  /\ DOMAIN probe'[t] = DOMAIN probe[t] /\ Len(probe'[t]) = Len(probe[t])
           /\ probe'[t][j] = p
           /\ \A k \in DOMAIN probe[t] : k # j => probe'[t][k] = probe[t][k]
           /\ \A u \in Problems \ {t} : probe'[u] = probe[u]
           /\ (probe'[t] # <<>>) = (probe[t] # <<>>)
<1>1. probe \in [Problems -> Seq(Probe)] /\ probe[t] \in Seq(Probe)
    BY ProblemTypes
<1>2. probe'[t] = [probe[t] EXCEPT ![j] = p] /\ \A u \in Problems \ {t} : probe'[u] = probe[u]
    BY <1>1
<1>3. Len([probe[t] EXCEPT ![j] = p]) = Len(probe[t])
  <2>1. PICK s \in Seq(Probe) : s = probe[t]
      BY <1>1
  <2>2. [s EXCEPT ![j] = p] \in Seq(Probe \cup {p}) /\ Len([s EXCEPT ![j] = p]) = Len(s)
    <3>1. s \in Seq(Probe \cup {p}) /\ p \in Probe \cup {p} /\ j \in DOMAIN s
        BY <2>1
    <3> QED
        BY <3>1, SeqUpdate
  <2> QED
      BY <2>1, <2>2
<1>4. probe'[t] # <<>> /\ probe[t] # <<>>
    BY <1>1, <1>2
<1> QED
    BY <1>1, <1>2, <1>3, <1>4

\* s is the jobs of t; another one is queued behind them.
LEMMA JobQueued ==
    ASSUME FixTypes, NEW t \in Problems, NEW s \in Seq(Probe),
           probe' = [probe EXCEPT ![t] = Append(s, NewProbe)]
    PROVE  /\ DOMAIN probe'[t] = DOMAIN s \cup {Len(s) + 1} /\ Len(probe'[t]) = Len(s) + 1
           /\ DOMAIN s = 1..Len(s) /\ Len(s) \in Nat
           /\ probe'[t][Len(s) + 1] = NewProbe
           /\ \A k \in DOMAIN s : probe'[t][k] = s[k]
           /\ \A u \in Problems \ {t} : probe'[u] = probe[u]
           /\ probe'[t] # <<>>
<1>0. NewProbe \in Probe
    BY Bounds DEF NewProbe, Probe, Queued
<1>1. probe \in [Problems -> Seq(Probe)] /\ NewProbe \in Probe
    BY <1>0, ProblemTypes
<1>2. probe'[t] = Append(s, NewProbe) /\ \A u \in Problems \ {t} : probe'[u] = probe[u]
    BY <1>1
<1>3. /\ Len(Append(s, NewProbe)) = Len(s) + 1
      /\ \A i \in DOMAIN s : Append(s, NewProbe)[i] = s[i]
      /\ Append(s, NewProbe)[Len(s) + 1] = NewProbe
      /\ DOMAIN Append(s, NewProbe) = 1..(Len(s) + 1)
    BY <1>1, SeqAppend
<1>4. DOMAIN s = 1..Len(s) /\ Len(s) \in Nat
    OBVIOUS
<1>5. 1..(Len(s) + 1) = DOMAIN s \cup {Len(s) + 1}
    BY <1>4
<1>6. Append(s, NewProbe) # <<>>
    BY <1>3, <1>4
<1> QED
    BY <1>2, <1>3, <1>4, <1>5, <1>6

LEMMA ProbeStartsKeeps ==
    ASSUME FixInv, NEW t \in Problems, NEW j \in DOMAIN probe[t], ProbeStarts(t, j) PROVE FixInv' /\ Forward
<1> USE DEF FixInv
<1>1. FixTypes'
    BY InvestigationTypes
<1>2. PICK p : p = [probe[t][j] EXCEPT !.status = "claimed", !.claim = probe[t][j].claim + 1]
    OBVIOUS
<1>3. /\ probe[t][j].status = "pending"
      /\ probe' = [probe EXCEPT ![t] = [probe[t] EXCEPT ![j] = p]]
      /\ UNCHANGED <<ticket, group, mind, att, run, prs, mail, events>>
    BY <1>2 DEF ProbeStarts, fixing, outside
<1>4. /\ p.status = "claimed" /\ p.exec = probe[t][j].exec /\ p.ev = probe[t][j].ev
      /\ p.claim = probe[t][j].claim + 1
    BY <1>2, ProbeTypes DEF Probe
<1>5. /\ DOMAIN probe'[t] = DOMAIN probe[t] /\ Len(probe'[t]) = Len(probe[t])
      /\ probe'[t][j] = p
      /\ \A k \in DOMAIN probe[t] : k # j => probe'[t][k] = probe[t][k]
      /\ \A u \in Problems \ {t} : probe'[u] = probe[u]
      /\ (probe'[t] # <<>>) = (probe[t] # <<>>)
    BY <1>3, JobChanges
<1>6. \A k \in DOMAIN probe[t] : /\ probe'[t][k].status \in Queued <=> probe[t][k].status \in Queued
                                 /\ probe'[t][k].exec = probe[t][k].exec /\ probe'[t][k].ev = probe[t][k].ev
    BY <1>3, <1>4, <1>5 DEF Queued
<1>7. Investigating(t)'
  <2>1. Investigating(t)
      BY DEF Investigates
  <2>2. Live(t) => Len(probe[t]) \in DOMAIN probe[t]
      BY <2>1, ProbeNumbers, ProblemTypes DEF Investigating
  <2> QED
      BY <1>3, <1>5, <1>6, <2>1, <2>2 DEF Investigating, Live
<1>8. Fenced(t)'
  <2>1. Investigating(t) /\ Fenced(t) /\ group'[t].result <= group'[t].exec /\ mind'[t] \subseteq mind[t]
      BY <1>3 DEF Investigates, Fenced
  <2>2. \A k \in DOMAIN probe[t] :
          /\ probe'[t][k].claim \in Nat /\ probe[t][k].claim <= probe'[t][k].claim
          /\ probe'[t][k].status = "claimed" =>
               \/ probe[t][k].claim < probe'[t][k].claim
               \/ /\ probe[t][k].status = "claimed" /\ probe'[t][k].claim = probe[t][k].claim
                  /\ probe'[t][k].exec = probe[t][k].exec /\ group'[t].result = group[t].result
    <3>1. \A k \in DOMAIN probe[t] : probe[t][k].claim \in Nat
        BY ProbeNumbers
    <3>2. probe[t][j].claim < probe'[t][j].claim /\ probe'[t][j].claim \in Nat
        BY <1>4, <1>5, <3>1
    <3> QED
        BY <1>3, <1>5, <3>1, <3>2
  <2> QED
      BY <2>1, <2>2, FencedStays
<1> QED
    BY <1>1, <1>3, <1>5, <1>7, <1>8, ProbingKeeps

LEMMA ProbeBeginsKeeps ==
    ASSUME FixInv, NEW t \in Problems, NEW j \in DOMAIN probe[t], ProbeBegins(t, j) PROVE FixInv' /\ Forward
<1> USE DEF FixInv
<1>1. FixTypes'
    BY InvestigationTypes
<1>2. /\ probe[t][j].status = "claimed" /\ Investigating(t) /\ Fenced(t)
      /\ UNCHANGED <<ticket, att, run, prs, mail, events>>
    BY DEF ProbeBegins, Investigates, fixing, outside
<1>3. j = Len(probe[t])
    BY <1>2 DEF Investigating, Queued
<1>4. CASE group[t].sub = "resolved"
  <2>1. PICK p : p = [probe[t][j] EXCEPT !.status = "ended"]
      OBVIOUS
  <2>2. probe' = [probe EXCEPT ![t] = [probe[t] EXCEPT ![j] = p]] /\ UNCHANGED <<group, mind>>
      BY <1>4, <2>1 DEF ProbeBegins
  <2>3. /\ p.status = "ended" /\ p.exec = probe[t][j].exec /\ p.ev = probe[t][j].ev
        /\ p.claim = probe[t][j].claim
      BY <2>1, ProbeTypes DEF Probe
  <2>4. /\ DOMAIN probe'[t] = DOMAIN probe[t] /\ Len(probe'[t]) = Len(probe[t])
        /\ probe'[t][j] = p
        /\ \A k \in DOMAIN probe[t] : k # j => probe'[t][k] = probe[t][k]
        /\ \A u \in Problems \ {t} : probe'[u] = probe[u]
        /\ (probe'[t] # <<>>) = (probe[t] # <<>>)
      BY <2>2, JobChanges
  <2>5. \A k \in DOMAIN probe[t] : /\ probe'[t][k].status \in Queued => probe[t][k].status \in Queued
                                   /\ probe'[t][k].exec = probe[t][k].exec /\ probe'[t][k].ev = probe[t][k].ev
      BY <2>3, <2>4 DEF Queued
  <2>6. Investigating(t)'
      BY <1>2, <1>4, <2>2, <2>4, <2>5 DEF Investigating, Live
  <2>7. Fenced(t)'
    <3>1. \A k \in DOMAIN probe[t] : probe[t][k].claim \in Nat
        BY ProbeNumbers
    <3>2. \A k \in DOMAIN probe[t] :
            /\ probe'[t][k].claim = probe[t][k].claim /\ probe'[t][k].exec = probe[t][k].exec
            /\ probe'[t][k].status = "claimed" => probe[t][k].status = "claimed"
        BY <2>3, <2>4
    <3>3. group'[t].result <= group'[t].exec /\ group'[t].result = group[t].result /\ mind'[t] \subseteq mind[t]
        BY <1>2, <2>2 DEF Fenced
    <3> QED
        BY <1>2, <3>1, <3>2, <3>3, FencedStays
  <2> QED
      BY <1>1, <1>2, <2>2, <2>4, <2>6, <2>7, ProbingKeeps
<1>5. CASE group[t].sub # "resolved"
  <2>1. PICK x : x = group[t].exec + 1
      OBVIOUS
  <2>2. PICK p : p = [probe[t][j] EXCEPT !.exec = x, !.ev = ticket[t].ev]
      OBVIOUS
  <2>3. PICK m : m = [job |-> j, claim |-> probe[t][j].claim, exec |-> x, ev |-> ticket[t].ev]
      OBVIOUS
  <2>4. /\ group' = [group EXCEPT ![t] = [group[t] EXCEPT !.exec = x, !.inv = "pending"]]
        /\ probe' = [probe EXCEPT ![t] = [probe[t] EXCEPT ![j] = p]]
        /\ mind' = [mind EXCEPT ![t] = mind[t] \cup {m}]
      BY <1>5, <2>1, <2>2, <2>3 DEF ProbeBegins
  <2>5. p.status = "claimed" /\ p.exec = x /\ p.ev = ticket[t].ev /\ p.claim = probe[t][j].claim
      BY <1>2, <2>2, ProbeTypes DEF Probe
  <2>6. /\ DOMAIN probe'[t] = DOMAIN probe[t] /\ Len(probe'[t]) = Len(probe[t])
        /\ probe'[t][j] = p
        /\ \A k \in DOMAIN probe[t] : k # j => probe'[t][k] = probe[t][k]
        /\ \A u \in Problems \ {t} : probe'[u] = probe[u]
        /\ (probe'[t] # <<>>) = (probe[t] # <<>>)
      BY <2>4, JobChanges
  <2>7. /\ group'[t].sub = group[t].sub /\ group'[t].exec = x /\ group'[t].result = group[t].result
        /\ group'[t].used = group[t].used /\ \A u \in Problems \ {t} : group'[u] = group[u]
    <3>1. group \in [Problems -> Issue] /\ group[t] \in Issue
        BY ProblemTypes
    <3> QED
        BY <2>4, <3>1 DEF Issue
  <2>8. mind'[t] = mind[t] \cup {m} /\ \A u \in Problems \ {t} : mind'[u] = mind[u]
      BY <2>4, ProblemTypes
  <2>9. m.job = j /\ m.exec = x /\ m.ev = ticket[t].ev /\ m.claim = probe[t][j].claim
      BY <2>3
  <2>10. group[t].exec \in Nat /\ x = group[t].exec + 1 /\ x \in Nat /\ ticket[t].ev \in Nat
      BY <2>1, ProbeNumbers
  <2>11. \A k \in DOMAIN probe[t] : probe[t][k].exec \in Nat /\ probe[t][k].exec < x
      BY <1>2, <2>10, ProbeNumbers DEF Investigating
  <2>12. \A h \in mind[t] : h.exec \in Nat /\ h.exec < x /\ h.exec # x
      BY <1>2, <2>10, ProbeNumbers DEF Investigating
  <2>13. \A k \in DOMAIN probe'[t] :
           /\ probe'[t][k].status \in Queued => k = Len(probe'[t])
           /\ probe'[t][k].exec <= group'[t].exec
           /\ k = Len(probe'[t]) => probe'[t][k].exec \in {0, group'[t].exec}
           /\ probe'[t][k].ev <= ticket'[t].ev
    <3>1. ASSUME NEW k \in DOMAIN probe[t], k # j
          PROVE  /\ probe'[t][k].status \notin Queued /\ k # Len(probe'[t])
                 /\ probe'[t][k].exec <= x /\ probe'[t][k].ev <= ticket[t].ev
      <4>1. probe'[t][k] = probe[t][k]
          BY <2>6, <3>1
      <4> QED
          BY <1>2, <1>3, <2>6, <2>10, <2>11, <3>1, <4>1 DEF Investigating
    <3> QED
        BY <1>2, <1>3, <2>5, <2>6, <2>7, <2>10, <3>1
  <2>14. ASSUME NEW h \in mind'[t]
         PROVE  /\ h.job \in DOMAIN probe'[t]
                /\ 0 < h.exec /\ h.exec <= group'[t].exec
                /\ h.ev <= ticket'[t].ev
                /\ \A g \in mind'[t] : g.exec = h.exec => g = h
                /\ \A k \in DOMAIN probe'[t] :
                     probe'[t][k].exec = h.exec => k = h.job /\ probe'[t][k].ev = h.ev
                /\ h.exec = group'[t].exec /\ h.exec > group'[t].result => group'[t].used <= h.ev
    <3>1. CASE h = m
      <4>1. \A k \in DOMAIN probe'[t] : k # j => probe'[t][k].exec # x
          BY <2>6, <2>11, <2>10
      <4>2. \A g \in mind'[t] : g.exec = x => g = m
          BY <2>8, <2>12
      <4>3. group[t].used <= ticket[t].ev /\ 0 < x /\ x <= x
          BY <1>2, <2>10 DEF Investigating
      <4> QED
          BY <1>2, <2>5, <2>6, <2>7, <2>9, <2>10, <3>1, <4>1, <4>2, <4>3
    <3>2. CASE h # m
      <4>1. h \in mind[t] /\ h.exec # x /\ h.exec \in Nat /\ h.exec < x
          BY <2>8, <2>12, <3>2
      <4>2. /\ h.job \in DOMAIN probe[t] /\ 0 < h.exec /\ h.ev <= ticket[t].ev
            /\ \A g \in mind[t] : g.exec = h.exec => g = h
            /\ \A k \in DOMAIN probe[t] :
                 probe[t][k].exec = h.exec => k = h.job /\ probe[t][k].ev = h.ev
          BY <1>2, <4>1 DEF Investigating
      <4>3. \A g \in mind'[t] : g.exec = h.exec => g = h
          BY <2>8, <2>9, <4>1, <4>2
      <4>4. \A k \in DOMAIN probe'[t] :
              probe'[t][k].exec = h.exec => k = h.job /\ probe'[t][k].ev = h.ev
          BY <2>5, <2>6, <4>1, <4>2
      <4> QED
          BY <1>2, <2>6, <2>7, <2>10, <4>1, <4>2, <4>3, <4>4
    <3> QED
        BY <3>1, <3>2
  <2>15. Investigating(t)'
    <3>1. group'[t].used <= ticket'[t].ev /\ (Live(t)' <=> probe'[t] # <<>>)
        BY <1>2, <2>6, <2>7 DEF Investigating, Live
    <3>2. probe'[t][Len(probe'[t])].status \in Queued
        BY <1>3, <2>5, <2>6 DEF Queued
    <3> QED
        BY <2>13, <2>14, <3>1, <3>2 DEF Investigating
  <2>16. Fenced(t)'
    <3>1. group[t].result <= group[t].exec /\ group[t].result \in Nat /\ probe[t][j].claim \in Nat
        BY <1>2, ProbeNumbers DEF Fenced
    <3>2. group'[t].result <= group'[t].exec /\ x > group'[t].result
        BY <2>7, <2>10, <3>1
    <3>3. m.claim <= probe'[t][m.job].claim /\ probe'[t][m.job].exec = m.exec /\ m.exec > group'[t].result
        BY <2>5, <2>6, <2>9, <3>1, <3>2
    <3>4. ASSUME NEW h \in mind[t]
          PROVE  /\ h.claim <= probe'[t][h.job].claim
                 /\ OwnsProbe(t, h)' => probe'[t][h.job].exec = h.exec /\ h.exec > group'[t].result
      <4>1. h.job \in DOMAIN probe[t] /\ h.claim <= probe[t][h.job].claim
          BY <1>2 DEF Investigating, Fenced
      <4>2. CASE h.job = j
        <5>1. ~OwnsProbe(t, h) /\ probe'[t][j].claim = probe[t][j].claim
            BY <2>5, <2>6, <4>2 DEF ProbeBegins, Minds, OwnsProbe
        <5> QED
            BY <1>2, <4>1, <4>2, <5>1 DEF OwnsProbe
      <4>3. CASE h.job # j
        <5>1. probe'[t][h.job] = probe[t][h.job]
            BY <2>6, <4>1, <4>3
        <5> QED
            BY <1>2, <2>7, <4>1, <5>1 DEF OwnsProbe, Fenced
      <4> QED
          BY <4>2, <4>3
    <3> QED
        BY <2>8, <3>2, <3>3, <3>4 DEF Fenced
  <2> QED
      BY <1>1, <1>2, <2>6, <2>7, <2>8, <2>15, <2>16, ProbingKeeps
<1> QED
    BY <1>4, <1>5

LEMMA ProbeStopsKeeps ==
    ASSUME FixInv, NEW t \in Problems, NEW j \in DOMAIN probe[t], ProbeStops(t, j) PROVE FixInv' /\ Forward
<1> USE DEF FixInv
<1>1. FixTypes'
    BY InvestigationTypes
<1>2. /\ probe[t][j].status = "claimed" /\ Investigating(t) /\ Fenced(t)
      /\ UNCHANGED <<att, run, prs, mail, events>>
    BY DEF ProbeStops, Investigates, fixing, outside
<1>3. j = Len(probe[t]) /\ Active(t, j) = {}
    BY <1>2 DEF Investigating, Queued, Active
<1>4. /\ ticket \in [Problems -> Ticket] /\ ticket[t] \in Ticket
      /\ group \in [Problems -> Issue] /\ group[t] \in Issue
      /\ mind \in [Problems -> SUBSET Mind]
    BY ProblemTypes
<1>5. PICK s \in {"pending", "ended"} :
        /\ probe' = [probe EXCEPT ![t] = [probe[t] EXCEPT ![j] = [probe[t][j] EXCEPT !.status = s]]]
        /\ s = "pending" => UNCHANGED <<ticket, group>>
        /\ s = "ended" =>
             /\ group' = [group EXCEPT ![t] = ProbeFailed(t, j, group[t])]
             /\ \E b \in BOOLEAN : ticket' = [ticket EXCEPT ![t] = [ticket[t] EXCEPT !.again = b]]
  <2>1. CASE probe' = [probe EXCEPT ![t][j].status = "pending"] /\ UNCHANGED <<ticket, group>>
      BY <2>1
  <2>2. CASE /\ probe' = [probe EXCEPT ![t][j].status = "ended"]
             /\ group' = [group EXCEPT ![t] = ProbeFailed(t, j, @)]
             /\ ticket' = [ticket EXCEPT ![t].again =
                  @ \/ (Active(t, j) = {} /\ probe[t][j].exec = group[t].exec)]
    <3>1. PICK b \in BOOLEAN :
            b = (ticket[t].again \/ (Active(t, j) = {} /\ probe[t][j].exec = group[t].exec))
      <4>1. ticket[t].again \in BOOLEAN
          BY ProblemTypes
      <4> QED
          BY <4>1
    <3>2. ticket' = [ticket EXCEPT ![t] = [ticket[t] EXCEPT !.again = b]]
        BY <2>2, <3>1
    <3> QED
        BY <2>2, <3>2
  <2> QED
      BY <2>1, <2>2 DEF ProbeStops
<1>6. PICK p : p = [probe[t][j] EXCEPT !.status = s]
    OBVIOUS
<1>7. /\ probe' = [probe EXCEPT ![t] = [probe[t] EXCEPT ![j] = p]]
      /\ p.status = s /\ p.exec = probe[t][j].exec /\ p.ev = probe[t][j].ev
      /\ p.claim = probe[t][j].claim
  <2>1. /\ p.status = s /\ p.exec = probe[t][j].exec /\ p.ev = probe[t][j].ev
        /\ p.claim = probe[t][j].claim
      BY <1>6, ProbeTypes DEF Probe
  <2>2. probe' = [probe EXCEPT ![t] = [probe[t] EXCEPT ![j] = p]]
      BY <1>5, <1>6
  <2> QED
      BY <2>1, <2>2
<1>8. /\ DOMAIN probe'[t] = DOMAIN probe[t] /\ Len(probe'[t]) = Len(probe[t])
      /\ probe'[t][j] = p
      /\ \A k \in DOMAIN probe[t] : k # j => probe'[t][k] = probe[t][k]
      /\ \A u \in Problems \ {t} : probe'[u] = probe[u]
      /\ (probe'[t] # <<>>) = (probe[t] # <<>>)
    BY <1>7, JobChanges
<1>9. \A k \in DOMAIN probe[t] : /\ probe'[t][k].status \in Queued => probe[t][k].status \in Queued
                                 /\ probe'[t][k].exec = probe[t][k].exec /\ probe'[t][k].ev = probe[t][k].ev
    BY <1>2, <1>7, <1>8 DEF Queued
<1>10. /\ ticket'[t].live = ticket[t].live /\ ticket'[t].gen = ticket[t].gen /\ ticket'[t].ev = ticket[t].ev
       /\ \A u \in Problems \ {t} : ticket'[u] = ticket[u]
  <2>1. CASE s = "pending"
      BY <1>5, <2>1
  <2>2. CASE s = "ended"
      BY <1>4, <1>5, <2>2 DEF Ticket
  <2> QED
      BY <2>1, <2>2
<1>11. mind'[t] \subseteq mind[t] /\ \A u \in Problems \ {t} : mind'[u] = mind[u]
  <2>1. PICK zombie \in BOOLEAN : mind' = [mind EXCEPT ![t] =
          IF zombie THEN @ ELSE @ \ Minds(t, j)]
      BY DEF ProbeStops
  <2> QED
      BY <1>4, <2>1
<1>12. /\ group'[t].sub = group[t].sub /\ group'[t].exec = group[t].exec
       /\ group'[t].result = group[t].result
       /\ \A u \in Problems \ {t} : group'[u] = group[u]
       /\ \/ group'[t].used = group[t].used
          \/ group'[t].used = probe[t][j].ev /\ probe[t][j].exec = group[t].exec
       /\ s = "ended" /\ group'[t].inv = "pending" =>
            group[t].inv = "pending" /\ (probe[t][j].exec # group[t].exec \/ group[t].sub = "resolved")
       /\ s = "pending" => group'[t].inv = group[t].inv
  <2>1. CASE s = "pending"
      BY <1>5, <2>1
  <2>2. CASE s = "ended"
    <3>1. group'[t] = ProbeFailed(t, j, group[t]) /\ \A u \in Problems \ {t} : group'[u] = group[u]
        BY <1>4, <1>5, <2>2
    <3>2. CASE probe[t][j].exec = group[t].exec /\ group[t].inv = "pending" /\ group[t].sub # "resolved"
        BY <1>3, <1>4, <2>2, <3>1, <3>2 DEF ProbeFailed, Issue
    <3>3. CASE ~(probe[t][j].exec = group[t].exec /\ group[t].inv = "pending" /\ group[t].sub # "resolved")
        BY <2>2, <3>1, <3>3 DEF ProbeFailed
    <3> QED
        BY <3>2, <3>3
  <2> QED
      BY <2>1, <2>2
<1>13. Investigating(t)'
  <2>1. /\ (Live(t)' <=> probe'[t] # <<>>)
        /\ group'[t].used <= ticket'[t].ev
      BY <1>2, <1>8, <1>10, <1>12 DEF Investigating, Live
  <2>2. \A k \in DOMAIN probe'[t] :
           /\ probe'[t][k].status \in Queued => k = Len(probe'[t])
           /\ probe'[t][k].exec <= group'[t].exec
           /\ k = Len(probe'[t]) => probe'[t][k].exec \in {0, group'[t].exec}
           /\ probe'[t][k].ev <= ticket'[t].ev
      BY <1>2, <1>8, <1>9, <1>10, <1>12 DEF Investigating
  <2>3. ASSUME NEW h \in mind'[t]
        PROVE  /\ h.job \in DOMAIN probe'[t]
               /\ 0 < h.exec /\ h.exec <= group'[t].exec
               /\ h.ev <= ticket'[t].ev
               /\ \A g \in mind'[t] : g.exec = h.exec => g = h
               /\ \A k \in DOMAIN probe'[t] :
                    probe'[t][k].exec = h.exec => k = h.job /\ probe'[t][k].ev = h.ev
               /\ h.exec = group'[t].exec /\ h.exec > group'[t].result => group'[t].used <= h.ev
    <3>1. h \in mind[t]
        BY <1>11
    <3>2. /\ h.job \in DOMAIN probe[t]
          /\ 0 < h.exec /\ h.exec <= group[t].exec
          /\ h.ev <= ticket[t].ev
          /\ \A g \in mind[t] : g.exec = h.exec => g = h
          /\ \A k \in DOMAIN probe[t] :
               probe[t][k].exec = h.exec => k = h.job /\ probe[t][k].ev = h.ev
          /\ h.exec = group[t].exec /\ h.exec > group[t].result => group[t].used <= h.ev
        BY <1>2, <3>1 DEF Investigating
    <3>3. ASSUME h.exec = group'[t].exec, h.exec > group'[t].result PROVE group'[t].used <= h.ev
      <4>1. CASE group'[t].used = group[t].used
          BY <1>12, <3>2, <3>3, <4>1
      <4>2. CASE group'[t].used = probe[t][j].ev /\ probe[t][j].exec = group[t].exec
          BY <1>12, <3>1, <3>2, <3>3, <4>2, ProbeNumbers
      <4> QED
          BY <1>12, <4>1, <4>2
    <3> QED
        BY <1>8, <1>9, <1>10, <1>11, <1>12, <3>2, <3>3
  <2>4. Live(t)' /\ group'[t].inv = "pending" /\ group'[t].sub # "resolved" =>
         \/ probe'[t][Len(probe'[t])].status \in Queued
         \/ probe'[t][Len(probe'[t])].exec = 0 /\ group'[t].exec > 0
    <3>1. CASE s = "pending"
        BY <1>3, <1>7, <1>8, <3>1 DEF Queued
    <3>2. CASE s = "ended"
      <4>1. probe[t][j].exec \in {0, group[t].exec} /\ group[t].exec \in Nat
          BY <1>2, <1>3, ProbeNumbers DEF Investigating
      <4> QED
          BY <1>3, <1>7, <1>8, <1>12, <3>2, <4>1
    <3> QED
        BY <3>1, <3>2
  <2> QED
      BY <2>1, <2>2, <2>3, <2>4 DEF Investigating
<1>14. Fenced(t)'
  <2>1. \A k \in DOMAIN probe[t] : probe[t][k].claim \in Nat
      BY ProbeNumbers
  <2>2. \A k \in DOMAIN probe[t] :
          /\ probe'[t][k].claim = probe[t][k].claim /\ probe'[t][k].exec = probe[t][k].exec
          /\ probe'[t][k].status = "claimed" => probe[t][k].status = "claimed"
      BY <1>7, <1>8
  <2>3. group'[t].result <= group'[t].exec /\ group'[t].result = group[t].result
      BY <1>2, <1>12 DEF Fenced
  <2> QED
      BY <1>2, <1>11, <2>1, <2>2, <2>3, FencedStays
<1> QED
    BY <1>1, <1>2, <1>8, <1>10, <1>11, <1>12, <1>13, <1>14, ProbingKeeps

\* What an adopted answer changes.
LEMMA AdoptsEffect ==
    ASSUME FixInv, NEW t \in Problems, NEW h \in mind[t], AppliesResult(t, h),
           NEW done \in BOOLEAN, NEW c, Adopts(t, h, done, c)
    PROVE  /\ h.job = Len(probe[t]) /\ h.job \in DOMAIN probe[t] /\ h.exec = group[t].exec
           /\ h.exec > group[t].result /\ group[t].used <= h.ev /\ h.ev <= ticket[t].ev
           /\ group'[t].sub = group[t].sub /\ group'[t].exec = group[t].exec
           /\ group'[t].result = h.exec /\ group'[t].used = h.ev
           /\ \A u \in Problems \ {t} : group'[u] = group[u]
           /\ ticket'[t].live = ticket[t].live /\ ticket'[t].gen = ticket[t].gen
           /\ ticket'[t].ev = ticket[t].ev
           /\ \A u \in Problems \ {t} : ticket'[u] = ticket[u]
           /\ \E b \in BOOLEAN :
                LET e == [probe[t] EXCEPT ![h.job] = [probe[t][h.job] EXCEPT !.status = "ended"]]
                IN  /\ probe' = [probe EXCEPT ![t] = IF b THEN Append(e, NewProbe) ELSE e]
                    /\ group'[t].inv = "pending" => b
<1> USE DEF FixInv
<1>1. Investigating(t) /\ h.job \in DOMAIN probe[t]
    BY DEF Investigates, Investigating
<1>2. /\ h.job = Len(probe[t]) /\ h.exec = group[t].exec /\ h.exec > group[t].result
      /\ group[t].used <= h.ev /\ h.ev <= ticket[t].ev
  <2>1. /\ probe[t][h.job].status \in Queued /\ h.exec >= group[t].exec /\ h.exec > group[t].result
      BY DEF AppliesResult, OwnsProbe, Queued
  <2>2. h.exec <= group[t].exec /\ h.exec \in Nat /\ group[t].exec \in Nat
      BY <1>1, ProbeNumbers DEF Investigating
  <2>3. h.exec = group[t].exec
      BY <2>1, <2>2
  <2> QED
      BY <1>1, <2>1, <2>3 DEF Investigating
<1>3. PICK b \in BOOLEAN :
        b = (/\ done /\ ~(done /\ c = "covers") /\ group[t].sub = "none"
             /\ ticket[t].ev > h.ev /\ CanInvestigate(t, h.job))
    OBVIOUS
<1>4. PICK n : n = IF b THEN "pending" ELSE IF done THEN "done" ELSE "failed"
    OBVIOUS
<1>5. /\ probe' = [probe EXCEPT ![t] =
             IF b THEN Append([probe[t] EXCEPT ![h.job].status = "ended"], NewProbe)
             ELSE [probe[t] EXCEPT ![h.job].status = "ended"]]
      /\ group' = [group EXCEPT ![t].inv = n, ![t].result = h.exec, ![t].used = h.ev, ![t].cause = c]
      /\ \E a : ticket' = [ticket EXCEPT ![t].again = a]
    BY <1>3, <1>4 DEF Adopts
<1>6. /\ ticket \in [Problems -> Ticket] /\ ticket[t] \in Ticket
      /\ group \in [Problems -> Issue] /\ group[t] \in Issue
    BY ProblemTypes
<1>7. /\ group'[t] = [group[t] EXCEPT !.inv = n, !.result = h.exec, !.used = h.ev, !.cause = c]
      /\ \A u \in Problems \ {t} : group'[u] = group[u]
  <2>1. group' = [group EXCEPT ![t] = [group[t] EXCEPT !.inv = n, !.result = h.exec, !.used = h.ev, !.cause = c]]
      BY <1>5
  <2> QED
      BY <1>6, <2>1
<1>8. /\ group'[t].sub = group[t].sub /\ group'[t].exec = group[t].exec
      /\ group'[t].result = h.exec /\ group'[t].used = h.ev /\ group'[t].inv = n
    BY <1>6, <1>7 DEF Issue
<1>9. /\ ticket'[t].live = ticket[t].live /\ ticket'[t].gen = ticket[t].gen /\ ticket'[t].ev = ticket[t].ev
      /\ \A u \in Problems \ {t} : ticket'[u] = ticket[u]
  <2>1. PICK a : ticket' = [ticket EXCEPT ![t] = [ticket[t] EXCEPT !.again = a]]
      BY <1>5
  <2>2. ticket'[t] = [ticket[t] EXCEPT !.again = a] /\ \A u \in Problems \ {t} : ticket'[u] = ticket[u]
      BY <1>6, <2>1
  <2> QED
      BY <1>6, <2>2 DEF Ticket
<1>10. n = "pending" => b
    BY <1>4
<1>11. LET e == [probe[t] EXCEPT ![h.job] = [probe[t][h.job] EXCEPT !.status = "ended"]]
       IN  /\ probe' = [probe EXCEPT ![t] = IF b THEN Append(e, NewProbe) ELSE e]
           /\ group'[t].inv = "pending" => b
    BY <1>5, <1>8, <1>10
<1> QED
    BY <1>1, <1>2, <1>7, <1>8, <1>9, <1>11

LEMMA ProbeFinishesKeeps ==
    ASSUME FixInv, NEW t \in Problems, NEW h \in mind[t], ProbeFinishes(t, h) PROVE FixInv' /\ Forward
<1> USE DEF FixInv
<1>0. Investigating(t) /\ Fenced(t) /\ h.job \in DOMAIN probe[t]
    BY DEF Investigates, Investigating
<1>1. FixTypes'
    BY <1>0, InvestigationTypes
<1>2. UNCHANGED <<att, run, prs, mail, events>> /\ mind' = [mind EXCEPT ![t] = @ \ {h}]
    BY DEF ProbeFinishes, fixing, outside
<1>3. mind'[t] = mind[t] \ {h} /\ \A u \in Problems \ {t} : mind'[u] = mind[u]
    BY <1>2, ProblemTypes
<1>4. CASE UNCHANGED <<ticket, group, probe>>
  <2>1. Investigating(t)'
      BY <1>0, <1>3, <1>4 DEF Investigating, Live
  <2>2. Fenced(t)'
      BY <1>0, <1>3, <1>4 DEF Fenced, OwnsProbe
  <2> QED
      BY <1>1, <1>2, <1>3, <1>4, <2>1, <2>2, ProbingKeeps
<1>5. ASSUME ~AppliesResult(t, h), OwnsProbe(t, h), UNCHANGED <<ticket, group>>,
             probe' = [probe EXCEPT ![t][h.job].status = "ended"]
      PROVE  FixInv' /\ Forward
  <2>1. PICK p : p = [probe[t][h.job] EXCEPT !.status = "ended"]
      OBVIOUS
  <2>2. probe' = [probe EXCEPT ![t] = [probe[t] EXCEPT ![h.job] = p]]
      BY <1>5, <2>1
  <2>3. /\ p.status = "ended" /\ p.exec = probe[t][h.job].exec /\ p.ev = probe[t][h.job].ev
        /\ p.claim = probe[t][h.job].claim
      BY <1>0, <2>1, ProbeTypes DEF Probe
  <2>4. /\ DOMAIN probe'[t] = DOMAIN probe[t] /\ Len(probe'[t]) = Len(probe[t])
        /\ probe'[t][h.job] = p
        /\ \A k \in DOMAIN probe[t] : k # h.job => probe'[t][k] = probe[t][k]
        /\ \A u \in Problems \ {t} : probe'[u] = probe[u]
        /\ (probe'[t] # <<>>) = (probe[t] # <<>>)
      BY <1>0, <2>2, JobChanges
  <2>5. group[t].sub = "resolved"
    <3>1. h.job = Len(probe[t])
        BY <1>0, <1>5 DEF Investigating, OwnsProbe, Queued
    <3>2. h.exec > group[t].result /\ h.exec = probe[t][h.job].exec
        BY <1>0, <1>5 DEF Fenced
    <3>3. 0 < h.exec /\ h.exec \in Nat /\ group[t].exec \in Nat
        BY <1>0, ProbeNumbers DEF Investigating
    <3>4. h.exec = group[t].exec
        BY <1>0, <3>1, <3>2, <3>3 DEF Investigating
    <3> QED
        BY <1>5, <3>2, <3>3, <3>4 DEF AppliesResult
  <2>6. \A k \in DOMAIN probe[t] :
          /\ probe'[t][k].status \in Queued => probe[t][k].status \in Queued
          /\ probe'[t][k].status = "claimed" => probe[t][k].status = "claimed"
          /\ probe'[t][k].exec = probe[t][k].exec /\ probe'[t][k].ev = probe[t][k].ev
          /\ probe'[t][k].claim = probe[t][k].claim
      BY <2>3, <2>4 DEF Queued
  <2>7. Investigating(t)'
      BY <1>0, <1>3, <1>5, <2>4, <2>5, <2>6 DEF Investigating, Live
  <2>8. Fenced(t)'
    <3>1. \A k \in DOMAIN probe[t] : probe[t][k].claim \in Nat
        BY ProbeNumbers
    <3>2. group'[t].result <= group'[t].exec /\ group'[t].result = group[t].result /\ mind'[t] \subseteq mind[t]
        BY <1>0, <1>3, <1>5 DEF Fenced
    <3> QED
        BY <1>0, <2>6, <3>1, <3>2, FencedStays
  <2> QED
      BY <1>1, <1>2, <1>3, <1>5, <2>4, <2>7, <2>8, ProbingKeeps
<1>6. ASSUME AppliesResult(t, h), NEW done \in BOOLEAN, NEW c, Adopts(t, h, done, c)
      PROVE  FixInv' /\ Forward
  <2>1. /\ h.job = Len(probe[t]) /\ h.exec = group[t].exec
        /\ h.exec > group[t].result /\ group[t].used <= h.ev /\ h.ev <= ticket[t].ev
        /\ group'[t].sub = group[t].sub /\ group'[t].exec = group[t].exec
        /\ group'[t].result = h.exec /\ group'[t].used = h.ev
        /\ \A u \in Problems \ {t} : group'[u] = group[u]
        /\ ticket'[t].live = ticket[t].live /\ ticket'[t].gen = ticket[t].gen
        /\ ticket'[t].ev = ticket[t].ev
        /\ \A u \in Problems \ {t} : ticket'[u] = ticket[u]
        /\ \E b \in BOOLEAN :
             LET e == [probe[t] EXCEPT ![h.job] = [probe[t][h.job] EXCEPT !.status = "ended"]]
             IN  /\ probe' = [probe EXCEPT ![t] = IF b THEN Append(e, NewProbe) ELSE e]
                 /\ group'[t].inv = "pending" => b
      BY <1>6, AdoptsEffect
  <2>2. PICK p : p = [probe[t][h.job] EXCEPT !.status = "ended"]
      OBVIOUS
  <2>3. PICK e : e = [probe[t] EXCEPT ![h.job] = p]
      OBVIOUS
  <2>4. PICK b \in BOOLEAN : /\ probe' = [probe EXCEPT ![t] = IF b THEN Append(e, NewProbe) ELSE e]
                             /\ group'[t].inv = "pending" => b
      BY <2>1, <2>2, <2>3
  <2>5. /\ p \in Probe /\ p.status = "ended" /\ p.exec = probe[t][h.job].exec
        /\ p.ev = probe[t][h.job].ev /\ p.claim = probe[t][h.job].claim
      BY <1>0, <2>2, ProbeTypes DEF Probe
  <2>6. /\ e \in Seq(Probe) /\ Len(e) = Len(probe[t]) /\ DOMAIN e = DOMAIN probe[t]
        /\ e[h.job] = p /\ \A k \in DOMAIN probe[t] : k # h.job => e[k] = probe[t][k]
        /\ e # <<>>
    <3>1. probe[t] \in Seq(Probe)
        BY ProblemTypes
    <3>2. e \in Seq(Probe) /\ Len(e) = Len(probe[t]) /\ DOMAIN e = DOMAIN probe[t]
        BY <1>0, <2>3, <2>5, <3>1, SeqUpdate
    <3> QED
        BY <1>0, <2>3, <3>1, <3>2
  <2>7. \A k \in DOMAIN e : /\ e[k].status \notin Queued /\ e[k].claim = probe[t][k].claim
                            /\ e[k].exec = probe[t][k].exec /\ e[k].ev = probe[t][k].ev
    <3>1. \A k \in DOMAIN probe[t] : probe[t][k].status \in Queued => k = h.job
        BY <1>0, <2>1 DEF Investigating
    <3> QED
        BY <2>5, <2>6, <3>1 DEF Queued
  <2>8. /\ \A k \in DOMAIN e : k \in DOMAIN probe'[t] /\ probe'[t][k] = e[k]
        /\ probe'[t] # <<>> /\ \A u \in Problems \ {t} : probe'[u] = probe[u]
        /\ \A k \in DOMAIN probe'[t] : k \notin DOMAIN e =>
             k = Len(probe'[t]) /\ probe'[t][k] = NewProbe /\ b
        /\ ~b => probe'[t] = e
        /\ b => probe'[t][Len(probe'[t])] = NewProbe /\ Len(probe'[t]) \notin DOMAIN e
    <3>1. CASE b
      <4>1. probe' = [probe EXCEPT ![t] = Append(e, NewProbe)]
          BY <2>4, <3>1
      <4>2. /\ DOMAIN probe'[t] = DOMAIN e \cup {Len(e) + 1} /\ Len(probe'[t]) = Len(e) + 1
            /\ DOMAIN e = 1..Len(e) /\ Len(e) \in Nat
            /\ probe'[t][Len(e) + 1] = NewProbe
            /\ \A k \in DOMAIN e : probe'[t][k] = e[k]
            /\ \A u \in Problems \ {t} : probe'[u] = probe[u]
            /\ probe'[t] # <<>>
          BY <2>6, <4>1, JobQueued
      <4> QED
          BY <3>1, <4>2
    <3>2. CASE ~b
      <4>1. probe' = [probe EXCEPT ![t] = e]
          BY <2>4, <3>2
      <4>2. probe'[t] = e /\ \A u \in Problems \ {t} : probe'[u] = probe[u]
          BY <4>1, ProblemTypes
      <4> QED
          BY <2>6, <3>2, <4>2
    <3> QED
        BY <3>1, <3>2
  <2>9. NewProbe.status \in Queued /\ NewProbe.exec = 0 /\ NewProbe.ev = 0
      BY DEF NewProbe, Queued
  <2>10. /\ group[t].exec \in Nat /\ ticket[t].ev \in Nat
         /\ \A k \in DOMAIN probe[t] : probe[t][k].exec \in Nat /\ probe[t][k].ev \in Nat
         /\ \A g \in mind[t] : g.exec \in Nat
      BY ProbeNumbers
  <2>11. \A k \in DOMAIN probe'[t] :
           /\ probe'[t][k].status \in Queued => k = Len(probe'[t])
           /\ probe'[t][k].exec <= group'[t].exec
           /\ k = Len(probe'[t]) => probe'[t][k].exec \in {0, group'[t].exec}
           /\ probe'[t][k].ev <= ticket'[t].ev
    <3>1. ASSUME NEW k \in DOMAIN e
          PROVE  /\ probe'[t][k].status \notin Queued
                 /\ probe'[t][k].exec <= group'[t].exec
                 /\ k = Len(probe'[t]) => probe'[t][k].exec \in {0, group'[t].exec}
                 /\ probe'[t][k].ev <= ticket'[t].ev
      <4>1. k \in DOMAIN probe[t] /\ probe'[t][k].exec = probe[t][k].exec /\ probe'[t][k].ev = probe[t][k].ev
          BY <2>6, <2>7, <2>8, <3>1
      <4>2. k = Len(probe'[t]) => k = Len(probe[t])
          BY <2>6, <2>8, <3>1
      <4> QED
          BY <1>0, <2>1, <2>7, <2>8, <3>1, <4>1, <4>2 DEF Investigating
    <3>2. ASSUME NEW k \in DOMAIN probe'[t], k \notin DOMAIN e
          PROVE  /\ k = Len(probe'[t])
                 /\ probe'[t][k].exec = 0 /\ 0 <= group'[t].exec
                 /\ probe'[t][k].ev <= ticket'[t].ev
      <4>1. k = Len(probe'[t]) /\ probe'[t][k].exec = 0 /\ probe'[t][k].ev = 0
          BY <2>8, <2>9, <3>2
      <4>2. group'[t].exec \in Nat /\ ticket'[t].ev \in Nat
          BY <2>1, <2>10
      <4> QED
          BY <4>1, <4>2
    <3> QED
        BY <3>1, <3>2
  <2>12. ASSUME NEW g \in mind'[t]
         PROVE  /\ g.job \in DOMAIN probe'[t]
                /\ 0 < g.exec /\ g.exec <= group'[t].exec
                /\ g.ev <= ticket'[t].ev
                /\ \A f \in mind'[t] : f.exec = g.exec => f = g
                /\ \A k \in DOMAIN probe'[t] :
                     probe'[t][k].exec = g.exec => k = g.job /\ probe'[t][k].ev = g.ev
                /\ g.exec = group'[t].exec /\ g.exec > group'[t].result => group'[t].used <= g.ev
    <3>1. g \in mind[t]
        BY <1>3
    <3>2. /\ g.job \in DOMAIN probe[t]
          /\ 0 < g.exec /\ g.exec <= group[t].exec
          /\ g.ev <= ticket[t].ev
          /\ \A f \in mind[t] : f.exec = g.exec => f = g
          /\ \A k \in DOMAIN probe[t] :
               probe[t][k].exec = g.exec => k = g.job /\ probe[t][k].ev = g.ev
        BY <1>0, <3>1 DEF Investigating
    <3>3. \A k \in DOMAIN probe'[t] :
            probe'[t][k].exec = g.exec => k = g.job /\ probe'[t][k].ev = g.ev
      <4>1. ASSUME NEW k \in DOMAIN probe'[t], probe'[t][k].exec = g.exec
            PROVE  k \in DOMAIN probe[t] /\ probe[t][k].exec = g.exec /\ probe'[t][k].ev = probe[t][k].ev
        <5>1. k \in DOMAIN e
            BY <2>8, <2>9, <2>10, <3>1, <3>2, <4>1
        <5> QED
            BY <2>6, <2>7, <2>8, <4>1, <5>1
      <4> QED
          BY <3>2, <4>1
    <3>4. ~(g.exec = group'[t].exec /\ g.exec > group'[t].result)
        BY <2>1, <2>10
    <3>5. g.job \in DOMAIN probe'[t] /\ \A f \in mind'[t] : f.exec = g.exec => f = g
        BY <1>3, <2>6, <2>8, <3>2
    <3> QED
        BY <2>1, <3>2, <3>3, <3>4, <3>5
  <2>13. Investigating(t)'
    <3>1. (Live(t)' <=> probe'[t] # <<>>) /\ group'[t].used <= ticket'[t].ev
      <4>1. probe[t] # <<>>
          BY <1>0, ProbeTypes
      <4> QED
          BY <1>0, <2>1, <2>8, <4>1 DEF Investigating, Live
    <3>2. group'[t].inv = "pending" => probe'[t][Len(probe'[t])].status \in Queued
        BY <2>4, <2>8, <2>9
    <3> QED
        BY <2>11, <2>12, <3>1, <3>2 DEF Investigating
  <2>14. Fenced(t)'
    <3>1. \A k \in DOMAIN probe[t] : probe[t][k].claim \in Nat
        BY ProbeNumbers
    <3>2. \A k \in DOMAIN probe[t] : /\ probe'[t][k].claim = probe[t][k].claim
                                     /\ probe'[t][k].status # "claimed"
        BY <2>6, <2>7, <2>8 DEF Queued
    <3>3. group'[t].result <= group'[t].exec /\ mind'[t] \subseteq mind[t]
        BY <1>3, <2>1, <2>10
    <3> QED
        BY <1>0, <3>1, <3>2, <3>3, FencedStays
  <2> QED
      BY <1>1, <1>2, <1>3, <2>1, <2>8, <2>13, <2>14, ProbingKeeps
<1> QED
    BY <1>4, <1>5, <1>6 DEF ProbeFinishes

LEMMA NewEvidenceKeeps ==
    ASSUME FixInv, NEW t \in Problems, NewEvidence(t) PROVE FixInv' /\ Forward
<1> USE DEF FixInv
<1>1. FixTypes'
    BY PublicationTypes
<1>2. /\ UNCHANGED <<mind, att, run, prs, mail, events>> /\ Live(t) /\ Investigating(t) /\ Fenced(t)
    BY DEF NewEvidence, fixing, outside, Investigates
<1>3. /\ ticket \in [Problems -> Ticket] /\ ticket[t] \in Ticket
      /\ group \in [Problems -> Issue] /\ group[t] \in Issue
    BY ProblemTypes
<1>4. PICK k : k = [ticket[t] EXCEPT !.ev = ticket[t].ev + 1]
    OBVIOUS
<1>5. k.live = ticket[t].live /\ k.gen = ticket[t].gen /\ k.ev = ticket[t].ev + 1
    BY <1>3, <1>4 DEF Ticket
<1>6. /\ \/ ticket' = [ticket EXCEPT ![t] = k] \/ ticket' = [ticket EXCEPT ![t] = [k EXCEPT !.again = FALSE]]
      /\ \/ group' = group \/ \E c : group' = [group EXCEPT ![t] = [group[t] EXCEPT !.cause = c]]
      /\ \/ probe' = probe
         \/ Active(t, 0) = {} /\ probe' = [probe EXCEPT ![t] = Append(probe[t], NewProbe)]
  <2>1. CASE group[t].sub = "resolved"
      BY <1>4, <2>1 DEF NewEvidence
  <2>2. CASE group[t].sub # "resolved"
    <3>1. PICK c, q :
            /\ q \in BOOLEAN /\ (q => CanInvestigate(t, 0))
            /\ group' = [group EXCEPT ![t].cause = c]
            /\ ticket' = [ticket EXCEPT ![t] = IF q THEN [k EXCEPT !.again = FALSE] ELSE k]
            /\ probe' = [probe EXCEPT ![t] = IF q THEN Append(probe[t], NewProbe) ELSE probe[t]]
      <4>1. k = [ticket[t] EXCEPT !.ev = @ + 1]
          BY <1>4
      <4>2. PICK c \in Causes(group[t].cause) :
              LET diluted == group[t].sub = "none" /\ group[t].inv = "done" /\ c # "covers"
                  queue == (k.again \/ diluted) /\ k.ev > group[t].used /\ CanInvestigate(t, 0)
              IN  /\ group' = [group EXCEPT ![t].cause = c]
                  /\ ticket' = [ticket EXCEPT ![t] =
                       IF queue THEN [k EXCEPT !.again = FALSE] ELSE k]
                  /\ probe' = [probe EXCEPT ![t] = IF queue THEN Append(@, NewProbe) ELSE @]
          BY <2>2, <4>1 DEF NewEvidence
      <4> DEFINE queue == /\ k.again \/ (group[t].sub = "none" /\ group[t].inv = "done" /\ c # "covers")
                          /\ k.ev > group[t].used /\ CanInvestigate(t, 0)
      <4>3. CASE queue
        <5>1. /\ (TRUE => CanInvestigate(t, 0))
              /\ group' = [group EXCEPT ![t].cause = c]
              /\ ticket' = [ticket EXCEPT ![t] = IF TRUE THEN [k EXCEPT !.again = FALSE] ELSE k]
              /\ probe' = [probe EXCEPT ![t] = IF TRUE THEN Append(probe[t], NewProbe) ELSE probe[t]]
            BY <4>2, <4>3
        <5> QED
            BY <5>1
      <4>4. CASE ~queue
        <5>1. /\ (FALSE => CanInvestigate(t, 0))
              /\ group' = [group EXCEPT ![t].cause = c]
              /\ ticket' = [ticket EXCEPT ![t] = IF FALSE THEN [k EXCEPT !.again = FALSE] ELSE k]
              /\ probe' = [probe EXCEPT ![t] = IF FALSE THEN Append(probe[t], NewProbe) ELSE probe[t]]
            BY <4>2, <4>4
        <5> QED
            BY <5>1
      <4> QED
          BY <4>3, <4>4
    <3>2. probe = [probe EXCEPT ![t] = probe[t]]
        BY ProblemTypes
    <3> QED
        BY <3>1, <3>2 DEF CanInvestigate
  <2> QED
      BY <2>1, <2>2
<1>7. /\ ticket'[t].live = ticket[t].live /\ ticket'[t].gen = ticket[t].gen
      /\ ticket'[t].ev = ticket[t].ev + 1
      /\ \A u \in Problems \ {t} : ticket'[u] = ticket[u]
  <2>1. k \in [live : {"no", "yes", "archived"}, gen : Int, ev : Int, again : BOOLEAN]
      BY <1>3, <1>4 DEF Ticket
  <2>2. CASE ticket' = [ticket EXCEPT ![t] = k]
      BY <1>3, <1>5, <2>2
  <2>3. CASE ticket' = [ticket EXCEPT ![t] = [k EXCEPT !.again = FALSE]]
      BY <1>3, <1>5, <2>1, <2>3
  <2> QED
      BY <1>6, <2>2, <2>3
<1>8. /\ group'[t].sub = group[t].sub /\ group'[t].exec = group[t].exec /\ group'[t].inv = group[t].inv
      /\ group'[t].result = group[t].result /\ group'[t].used = group[t].used
      /\ \A u \in Problems \ {t} : group'[u] = group[u]
  <2>1. CASE group' = group
      BY <2>1
  <2>2. ASSUME NEW c, group' = [group EXCEPT ![t] = [group[t] EXCEPT !.cause = c]]
        PROVE  /\ group'[t].sub = group[t].sub /\ group'[t].exec = group[t].exec
               /\ group'[t].inv = group[t].inv
               /\ group'[t].result = group[t].result /\ group'[t].used = group[t].used
               /\ \A u \in Problems \ {t} : group'[u] = group[u]
    <3>1. group'[t] = [group[t] EXCEPT !.cause = c] /\ \A u \in Problems \ {t} : group'[u] = group[u]
        BY <1>3, <2>2
    <3> QED
        BY <1>3, <3>1 DEF Issue
  <2> QED
      BY <1>6, <2>1, <2>2
<1>9. /\ group[t].exec \in Nat /\ ticket[t].ev \in Nat /\ group[t].used \in Nat
      /\ \A j \in DOMAIN probe[t] : probe[t][j].exec \in Nat /\ probe[t][j].ev \in Nat
      /\ \A h \in mind[t] : h.exec \in Nat /\ h.ev \in Nat
    BY ProbeNumbers
<1>10. CASE probe' = probe
  <2>1. group'[t].used <= ticket'[t].ev
      BY <1>2, <1>7, <1>8, <1>9 DEF Investigating
  <2>2. \A j \in DOMAIN probe[t] : probe[t][j].ev <= ticket'[t].ev
      BY <1>2, <1>7, <1>9 DEF Investigating
  <2>3. \A h \in mind[t] : h.ev <= ticket'[t].ev
      BY <1>2, <1>7, <1>9 DEF Investigating
  <2>4. Investigating(t)'
      BY <1>2, <1>7, <1>8, <1>10, <2>1, <2>2, <2>3 DEF Investigating, Live
  <2>5. Fenced(t)'
      BY <1>2, <1>8, <1>10 DEF Fenced, OwnsProbe
  <2> QED
      BY <1>1, <1>2, <1>7, <1>8, <1>10, <2>4, <2>5, ProbingKeeps
<1>11. CASE Active(t, 0) = {} /\ probe' = [probe EXCEPT ![t] = Append(probe[t], NewProbe)]
  <2>1. PICK n \in Nat : n = Len(probe[t]) + 1
      BY ProbeNumbers
  <2>2. /\ DOMAIN probe'[t] = DOMAIN probe[t] \cup {n} /\ Len(probe'[t]) = n
        /\ n \notin DOMAIN probe[t] /\ probe'[t][n] = NewProbe
        /\ \A j \in DOMAIN probe[t] : probe'[t][j] = probe[t][j]
        /\ \A u \in Problems \ {t} : probe'[u] = probe[u]
        /\ probe'[t] # <<>>
    <3>1. probe[t] \in Seq(Probe)
        BY ProblemTypes
    <3>2. /\ DOMAIN probe'[t] = DOMAIN probe[t] \cup {Len(probe[t]) + 1}
          /\ Len(probe'[t]) = Len(probe[t]) + 1
          /\ DOMAIN probe[t] = 1..Len(probe[t]) /\ Len(probe[t]) \in Nat
          /\ probe'[t][Len(probe[t]) + 1] = NewProbe
          /\ \A j \in DOMAIN probe[t] : probe'[t][j] = probe[t][j]
          /\ \A u \in Problems \ {t} : probe'[u] = probe[u]
          /\ probe'[t] # <<>>
        BY <1>11, <3>1, JobQueued
    <3> QED
        BY <2>1, <3>2
  <2>3. \A j \in DOMAIN probe[t] : probe[t][j].status \notin Queued
    <3>1. 0 \notin DOMAIN probe[t]
        BY ProbeNumbers
    <3> QED
        BY <1>11, <3>1 DEF Active
  <2>4. NewProbe.status \in Queued /\ NewProbe.exec = 0 /\ NewProbe.ev = 0
      BY DEF NewProbe, Queued
  <2>5. \A j \in DOMAIN probe'[t] :
          /\ probe'[t][j].status \in Queued => j = Len(probe'[t])
          /\ probe'[t][j].exec <= group'[t].exec
          /\ j = Len(probe'[t]) => probe'[t][j].exec \in {0, group'[t].exec}
          /\ probe'[t][j].ev <= ticket'[t].ev
    <3>1. ASSUME NEW j \in DOMAIN probe[t]
          PROVE  /\ probe'[t][j].status \notin Queued /\ j # n
                 /\ probe'[t][j].exec <= group'[t].exec /\ probe'[t][j].ev <= ticket'[t].ev
        BY <1>2, <1>7, <1>8, <1>9, <2>2, <2>3, <3>1 DEF Investigating
    <3> QED
        BY <1>7, <1>8, <1>9, <2>2, <2>4, <3>1
  <2>6. ASSUME NEW h \in mind'[t]
        PROVE  /\ h.job \in DOMAIN probe'[t]
               /\ 0 < h.exec /\ h.exec <= group'[t].exec
               /\ h.ev <= ticket'[t].ev
               /\ \A g \in mind'[t] : g.exec = h.exec => g = h
               /\ \A j \in DOMAIN probe'[t] :
                    probe'[t][j].exec = h.exec => j = h.job /\ probe'[t][j].ev = h.ev
               /\ h.exec = group'[t].exec /\ h.exec > group'[t].result => group'[t].used <= h.ev
    <3>1. h \in mind[t] /\ mind'[t] = mind[t]
        BY <1>2, <2>6
    <3>2. /\ h.job \in DOMAIN probe[t]
          /\ 0 < h.exec /\ h.exec <= group[t].exec
          /\ h.ev <= ticket[t].ev
          /\ \A g \in mind[t] : g.exec = h.exec => g = h
          /\ \A j \in DOMAIN probe[t] :
               probe[t][j].exec = h.exec => j = h.job /\ probe[t][j].ev = h.ev
          /\ h.exec = group[t].exec /\ h.exec > group[t].result => group[t].used <= h.ev
        BY <1>2, <3>1 DEF Investigating
    <3>3. \A j \in DOMAIN probe'[t] :
            probe'[t][j].exec = h.exec => j = h.job /\ probe'[t][j].ev = h.ev
        BY <1>9, <2>2, <2>4, <3>1, <3>2
    <3>4. h.ev <= ticket'[t].ev
        BY <1>7, <1>9, <3>1, <3>2
    <3> QED
        BY <1>8, <2>2, <3>1, <3>2, <3>3, <3>4
  <2>7. Investigating(t)'
    <3>1. (Live(t)' <=> probe'[t] # <<>>) /\ group'[t].used <= ticket'[t].ev
        BY <1>2, <1>7, <1>8, <1>9, <2>2 DEF Investigating, Live
    <3>2. probe'[t][Len(probe'[t])].status \in Queued
        BY <2>2, <2>4
    <3> QED
        BY <2>5, <2>6, <3>1, <3>2 DEF Investigating
  <2>8. Fenced(t)'
    <3>1. \A r \in DOMAIN probe[t] : probe[t][r].claim \in Nat
        BY ProbeNumbers
    <3>2. group'[t].result <= group'[t].exec /\ group'[t].result = group[t].result
        BY <1>2, <1>8 DEF Fenced
    <3> QED
        BY <1>2, <2>2, <3>1, <3>2, FencedStays
  <2> QED
      BY <1>1, <1>2, <1>7, <1>8, <2>2, <2>7, <2>8, ProbingKeeps
<1> QED
    BY <1>6, <1>10, <1>11

LEMMA FixInvInit == Init => FixInv
<1> SUFFICES ASSUME Init PROVE FixInv
    OBVIOUS
<1>1. FixTypes
    BY FixTypesInit
<1>2. \A t \in Problems : /\ group[t].sub = "none" /\ mind[t] = {} /\ group[t].used = 0 /\ ticket[t].ev = 0
                          /\ Live(t) => t \in Settled /\ ticket[t].gen = 1
    BY DEF Init, NewGroup, Live
<1>3. DOMAIN att = {} /\ mail = {} /\ events = {}
    BY DEF Init
<1>4. OneFix
    BY <1>2, <1>3 DEF OneFix
<1>5. Delivers
    BY <1>3 DEF Init, Delivers
<1>6. Investigates
  <2>1. ASSUME NEW t \in Problems PROVE Investigating(t)
    <3>1. CASE t \in Settled
      <4>1. probe[t] = <<[status |-> "ended", claim |-> 1, exec |-> 1, ev |-> 0]>>
          BY <3>1 DEF Init
      <4>2. Live(t) /\ group[t].exec = 1 /\ group[t].inv = "done"
          BY <3>1 DEF Init, NewGroup, Live
      <4>3. /\ DOMAIN probe[t] = {1} /\ Len(probe[t]) = 1 /\ probe[t] # <<>>
            /\ probe[t][1].status \notin Queued /\ probe[t][1].exec = 1 /\ probe[t][1].ev = 0
          BY <4>1 DEF Queued
      <4> QED
          BY <1>2, <4>2, <4>3 DEF Investigating
    <3>2. CASE t \notin Settled
      <4>1. probe[t] = <<>> /\ ~Live(t)
          BY <3>2 DEF Init, Live
      <4> QED
          BY <1>2, <4>1 DEF Investigating
    <3> QED
        BY <3>1, <3>2
  <2>2. ASSUME NEW t \in Problems PROVE Fenced(t)
    <3>1. group[t].result = group[t].exec /\ group[t].exec \in Nat
        BY DEF Init, NewGroup
    <3> QED
        BY <1>2, <3>1 DEF Fenced
  <2> QED
      BY <2>1, <2>2 DEF Investigates
<1>7. AutoCap
  <2>1. Slots = {}
      BY <1>3 DEF Slots
  <2>2. Cardinality(Slots) = 0
      BY <2>1, FS_EmptySet
  <2>3. Cardinality(Slots) <= MaxOpenPrs
      BY <2>2, Bounds
  <2> QED
      BY <2>3 DEF AutoCap, Slots
<1> QED
    BY <1>1, <1>4, <1>5, <1>6, <1>7 DEF FixInv

LEMMA FixStep == ASSUME FixInv, Next PROVE FixInv' /\ Forward
<1>1. ASSUME NEW t \in Problems, Publish(t) PROVE FixInv' /\ Forward
    BY <1>1, PublishKeeps
<1>2. ASSUME NEW t \in Problems, TakeBack(t) PROVE FixInv' /\ Forward
    BY <1>2, TakeBackKeeps
<1>3. ASSUME NEW t \in Problems, NewEvidence(t) PROVE FixInv' /\ Forward
    BY <1>3, NewEvidenceKeeps
<1>4. ASSUME NEW t \in Problems, PersonRequests(t) \/ InvestigationAsks(t) PROVE FixInv' /\ Forward
    BY <1>4, RequestsKeep
<1>5. ASSUME NEW t \in Problems, NEW j \in DOMAIN probe[t], ProbeStarts(t, j) PROVE FixInv' /\ Forward
    BY <1>5, ProbeStartsKeeps
<1>6. ASSUME NEW t \in Problems, NEW j \in DOMAIN probe[t], ProbeBegins(t, j) PROVE FixInv' /\ Forward
    BY <1>6, ProbeBeginsKeeps
<1>7. ASSUME NEW t \in Problems, NEW j \in DOMAIN probe[t], ProbeStops(t, j) PROVE FixInv' /\ Forward
    BY <1>7, ProbeStopsKeeps
<1>8. ASSUME NEW t \in Problems, NEW h \in mind[t], ProbeFinishes(t, h) PROVE FixInv' /\ Forward
    BY <1>8, ProbeFinishesKeeps
<1>9. ASSUME NEW i \in DOMAIN att, FixStarts(i) PROVE FixInv' /\ Forward
    BY <1>9, StartsKeeps
<1>10. ASSUME NEW i \in DOMAIN att, NEW k \in DOMAIN run[i], FixClears(i, k) PROVE FixInv' /\ Forward
    BY <1>10, ClearsKeeps
<1>11. ASSUME NEW i \in DOMAIN att, NEW k \in DOMAIN run[i], FixCreates(i, k) PROVE FixInv' /\ Forward
    BY <1>11, CreatesKeeps
<1>12. ASSUME NEW i \in DOMAIN att, NEW k \in DOMAIN run[i], FixRecords(i, k) PROVE FixInv' /\ Forward
    BY <1>12, RecordsKeeps
<1>13. ASSUME NEW i \in DOMAIN att, NEW k \in DOMAIN run[i], FixEnds(i, k) PROVE FixInv' /\ Forward
    BY <1>13, EndsKeeps
<1>14. ASSUME NEW i \in DOMAIN att, NEW k \in DOMAIN run[i], FixStops(i, k) PROVE FixInv' /\ Forward
    BY <1>14, StopsKeeps
<1>15. ASSUME NEW i \in DOMAIN att, NEW k \in DOMAIN run[i], FixGivesUp(i, k) PROVE FixInv' /\ Forward
    BY <1>15, GivesUpKeeps
<1>16. ASSUME NEW i \in DOMAIN att, NEW p \in DOMAIN prs[i], Decide(i, p) PROVE FixInv' /\ Forward
    BY <1>16, DecideKeeps
<1>17. ASSUME NEW e \in mail, Webhook(e) PROVE FixInv' /\ Forward
    BY <1>17, WebhookKeeps
<1>18. ASSUME NEW e \in events, EventApplied(e) PROVE FixInv' /\ Forward
    BY <1>18, EventKeeps
<1>19. ASSUME SetAutonomy PROVE FixInv' /\ Forward
  <2>1. UNCHANGED <<ticket, group, probing, fixing, outside, events>> /\ faults' = faults + 1
        /\ faults < MaxFaults /\ faults \in 0..MaxFaults
      BY <1>19 DEF SetAutonomy, FixInv, FixTypes
  <2>2. faults' \in 0..MaxFaults
      BY <2>1, Bounds
  <2> QED
      BY <2>1, <2>2, NothingMoves
<1> QED
    BY <1>1, <1>2, <1>3, <1>4, <1>5, <1>6, <1>7, <1>8, <1>9, <1>10, <1>11, <1>12, <1>13, <1>14,
       <1>15, <1>16, <1>17, <1>18, <1>19 DEF Next

\* What the invariant says of the definitions of AttemptsAgree.
LEMMA FixInvTypeOK == FixInv => TypeOK
<1> SUFFICES ASSUME FixInv PROVE TypeOK
    OBVIOUS
<1>1. FixTypes
    BY DEF FixInv
<1>2. ASSUME NEW t \in Problems
      PROVE  Cardinality({j \in DOMAIN probe[t] : probe[t][j].status \in Queued}) <= 1
  <2>1. PICK Q : Q = {j \in DOMAIN probe[t] : probe[t][j].status \in Queued}
      OBVIOUS
  <2>2. Q \subseteq {Len(probe[t])}
      BY <2>1 DEF FixInv, Investigates, Investigating
  <2>3. Cardinality(Q) <= 1
    <3>1. PICK n : n = Len(probe[t])
        OBVIOUS
    <3>2. Cardinality({n}) = 1 /\ Cardinality({}) = 0
        BY FS_EmptySet, FS_Singleton
    <3>3. Q = {} \/ Q = {n}
        BY <2>2, <3>1
    <3> QED
        BY <3>2, <3>3
  <2> QED
      BY <2>1, <2>3
<1>3. \A i \in DOMAIN att : att[i] \in Attempt
    BY <1>1, AttemptTypes
<1>4. prs \in [Ids -> UNION {[1..n -> {"open", "closed", "merged"}] : n \in 0..MaxPrs}]
  <2>1. ASSUME NEW i \in Ids
        PROVE  prs[i] \in UNION {[1..n -> {"open", "closed", "merged"}] : n \in 0..MaxPrs}
    <3>1. prs[i] \in Seq({"open", "closed", "merged"}) /\ Len(prs[i]) <= MaxPrs
        BY <1>1 DEF FixTypes
    <3>2. Len(prs[i]) \in 0..MaxPrs /\ prs[i] \in [1..Len(prs[i]) -> {"open", "closed", "merged"}]
        BY <3>1, Bounds
    <3> QED
        BY <3>2
  <2> QED
      BY <1>1, <2>1 DEF FixTypes
<1> QED
    BY <1>1, <1>2, <1>3, <1>4 DEF FixTypes, TypeOK, Ticket, Issue, Attempt

LEMMA FixInvSubstates == FixInv => SubstateAgrees
<1> SUFFICES ASSUME FixInv, NEW t \in Problems
             PROVE  LET now == {i \in AttemptsOf(t) : Live(t) /\ att[i].status \in Outstanding}
                        all == {i \in DOMAIN att : att[i].t = t /\ att[i].status \in Outstanding}
                    IN  /\ all = now /\ Cardinality(now) <= 1
                        /\ Live(t) => /\ group[t].sub = "fixing" <=> \E i \in now : att[i].status = "active"
                                      /\ group[t].sub = "pr_open" <=> \E i \in now : att[i].status = "pr_open"
    BY DEF SubstateAgrees
<1> USE DEF FixInv
<1> DEFINE now == {i \in AttemptsOf(t) : Live(t) /\ att[i].status \in Outstanding}
           all == {i \in DOMAIN att : att[i].t = t /\ att[i].status \in Outstanding}
<1>1. all = now
    BY DEF OneFix, CurrentLineage, AttemptsOf
<1>2. \A i, k \in all : i = k
    BY DEF OneFix
<1>3. Cardinality(now) <= 1
  <2>1. CASE now = {}
      BY <2>1, FS_EmptySet
  <2>2. CASE now # {}
    <3>1. PICK i \in now : TRUE
        BY <2>2
    <3>2. now = {i}
        BY <1>1, <1>2, <3>1
    <3> HIDE DEF now
    <3> QED
        BY <3>2, FS_Singleton
  <2> QED
      BY <2>1, <2>2
<1>4. ASSUME Live(t)
      PROVE  /\ group[t].sub = "fixing" <=> \E i \in all : att[i].status = "active"
             /\ group[t].sub = "pr_open" <=> \E i \in all : att[i].status = "pr_open"
    BY <1>4 DEF OneFix, Outstanding
<1> QED
    BY <1>1, <1>3, <1>4

LEMMA FixInvAgrees == FixInv => AttemptsAgree
<1> SUFFICES ASSUME FixInv PROVE AttemptsAgree
    OBVIOUS
<1>1. OutcomeIsReal
    BY DEF FixInv, OneFix, Delivers, AttemptDelivers, OutcomeIsReal
<1>2. WaitsForWork
  <2>1. \A i \in DOMAIN att : att[i].status = "active" => att[i].job \in Queued
      BY DEF FixInv, Delivers, AttemptDelivers
  <2>2. ASSUME NEW t \in Problems, Live(t), group[t].inv = "pending", group[t].sub # "resolved"
        PROVE  \/ Active(t, 0) # {}
               \/ probe[t][Len(probe[t])].exec = 0 /\ group[t].exec > 0
    <3>1. Investigating(t) /\ FixTypes
        BY DEF FixInv, Investigates
    <3>2. DOMAIN probe[t] = 1..Len(probe[t]) /\ Len(probe[t]) \in Nat /\ probe[t] \in Seq(Probe)
        BY <3>1, ProbeNumbers, ProblemTypes
    <3>3. probe[t] # <<>>
        BY <2>2, <3>1 DEF Investigating
    <3>4. Len(probe[t]) \in DOMAIN probe[t] /\ Len(probe[t]) # 0
        BY <3>2, <3>3
    <3> QED
        BY <2>2, <3>1, <3>4 DEF Investigating, Active
  <2> QED
      BY <2>1, <2>2 DEF WaitsForWork
<1> QED
    BY <1>1, <1>2, FixInvTypeOK, FixInvSubstates DEF AttemptsAgree, FixInv

LEMMA FixInvHolds == Spec => []FixInv /\ [][Forward]_vars
<1>1. Init => FixInv
    BY FixInvInit
<1>2. FixInv /\ [Next]_vars => FixInv' /\ [Forward]_vars
  <2> SUFFICES ASSUME FixInv, [Next]_vars PROVE FixInv' /\ [Forward]_vars
      OBVIOUS
  <2>1. CASE Next
      BY <2>1, FixStep
  <2>2. CASE UNCHANGED vars
    <3>1. UNCHANGED <<ticket, group, probing, fixing, outside, events>> /\ faults' = faults
        BY <2>2 DEF vars
    <3>2. faults' \in 0..MaxFaults
        BY <3>1 DEF FixInv, FixTypes
    <3> QED
        BY <2>2, <3>1, <3>2, NothingMoves
  <2> QED
      BY <2>1, <2>2
<1> QED
    BY <1>1, <1>2, PTL DEF Spec

\* An incident, its attempts, its jobs and its pull requests agree, and the
\* automatic attempts stay within the cap: fix-attempts.ts, ticket-fix.ts and
\* ticket-investigation.ts in every order of their steps.
THEOREM AttemptsAgreeHolds == Spec => []AttemptsAgree
BY FixInvHolds, FixInvAgrees, PTL

\* No step takes the outcome of an attempt back, reopens a resolved incident or
\* adopts an answer older than the one it has (applyPrEvent, finishInvestigation).
THEOREM NeverBackwardsHolds == Spec => NeverBackwards
<1>1. Spec => [][Forward]_vars
    BY FixInvHolds
<1>2. [Forward]_vars => [OutcomeIsFinal /\ NewestResult]_vars
    BY DEF Forward
<1> QED
    BY <1>1, <1>2, PTL DEF NeverBackwards
=============================================================================
