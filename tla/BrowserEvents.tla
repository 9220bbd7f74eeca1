----------------------------- MODULE BrowserEvents -----------------------------
(***************************************************************************)
(* The browser SDK's event transport (packages/sdk/src/transport.ts): a     *)
(* bounded queue, one flush at a time with back-off, and the keepalive      *)
(* flush of a page that is hidden or leaves, which does not wait for it.    *)
(*                                                                          *)
(* An event is its number in the order of capture; events that sampling,    *)
(* throttling or beforeSend drop never get one.                             *)
(***************************************************************************)
EXTENDS Naturals, Sequences, SequencesExt

CONSTANTS
  MaxEvents,       \* events captured
  MaxQueue,        \* MAX_QUEUE_SIZE
  MaxBatch         \* maxBatchSize, at which a flush starts by itself

ASSUME BrowserConstants ==
  MaxEvents \in Nat /\ MaxQueue \in Nat \ {0} /\ MaxBatch \in Nat \ {0}

VARIABLES
  captured,  \* how many events were captured
  waiting,   \* queue
  batch,     \* what the flush has still to send
  failures,  \* what it failed to send
  flushing,
  backoff,   \* Date.now() < nextAttemptAt
  leaving,   \* events in keepalive requests
  up,        \* the outages are over: from here on requests do not fail
  settled    \* delivered, dropped at the limit, or refused in a keepalive request

browserVars == <<captured, waiting, batch, failures, flushing, backoff, leaving, up, settled>>

BrowserTypeOK ==
  /\ captured \in 0..MaxEvents
  /\ waiting \in Seq(1..MaxEvents) /\ Len(waiting) <= MaxQueue
  /\ batch \in Seq(1..MaxEvents) /\ failures \in Seq(1..MaxEvents)
  /\ flushing \in BOOLEAN /\ backoff \in BOOLEAN /\ up \in BOOLEAN
  /\ leaving \subseteq 1..MaxEvents
  /\ settled \subseteq 1..MaxEvents

BrowserInit ==
  /\ captured = 0
  /\ waiting = <<>> /\ batch = <<>> /\ failures = <<>>
  /\ flushing = FALSE /\ backoff = FALSE /\ up = FALSE
  /\ leaving = {} /\ settled = {}

-----------------------------------------------------------------------------
\* queue.slice(queue.length - MAX_QUEUE_SIZE).
Trimmed(q) == IF Len(q) > MaxQueue
                THEN SubSeq(q, Len(q) - MaxQueue + 1, Len(q)) ELSE q

Dropped(q) == ToSet(q) \ ToSet(Trimmed(q))

\* The start of flushEvents, when it is not held back.
Flushes(q) == /\ flushing' = TRUE /\ batch' = q /\ waiting' = <<>>

MayFlush == ~flushing /\ ~backoff

EnqueueEvent ==
  LET q == Append(waiting, captured + 1) IN
  /\ captured < MaxEvents
  /\ captured' = captured + 1
  /\ settled' = settled \union Dropped(q)
  /\ IF Len(Trimmed(q)) >= MaxBatch /\ MayFlush
       THEN Flushes(Trimmed(q))
       ELSE waiting' = Trimmed(q) /\ UNCHANGED <<flushing, batch>>
  /\ UNCHANGED <<failures, backoff, leaving, up>>

\* The interval timer.
FlushEvents ==
  /\ waiting # <<>> /\ MayFlush
  /\ Flushes(waiting)
  /\ UNCHANGED <<captured, failures, backoff, leaving, up, settled>>

\* The flush is over: failures go back to the front, and back-off opens.
Over(failed) == TRUE

\* One request is answered, and after the last the flush ends.
Answered(ok) ==
  LET e == Head(batch)
      failed == IF ok THEN failures ELSE Append(failures, e)
      last == Len(batch) = 1
  IN
  /\ batch # <<>> /\ (up => ok)
  /\ batch' = Tail(batch)
  /\ failures' = IF last THEN <<>> ELSE failed
  /\ waiting' = IF last THEN Trimmed(failed \o waiting) ELSE waiting
  /\ settled' = settled \union (IF ok THEN {e} ELSE {})
                        \union (IF last THEN Dropped(failed \o waiting) ELSE {})
  /\ flushing' = ~(last /\ Over(failed))
  /\ backoff' = IF last THEN failed # <<>> ELSE backoff
  /\ UNCHANGED <<captured, leaving, up>>

BackoffEnds ==
  /\ backoff /\ backoff' = FALSE
  /\ UNCHANGED <<captured, waiting, batch, failures, flushing, leaving, up, settled>>

\* flushOnUnload: the first n events, those that fit the keepalive budget.
\* (Mutant: the queue is emptied.)
LeavesNone(n) == <<>>
LeavesRest(n) == SubSeq(waiting, n + 1, Len(waiting))

FlushOnUnload(n) ==
  /\ n \in 1..Len(waiting)
  /\ waiting' = LeavesRest(n)
  /\ leaving' = leaving \union ToSet(SubSeq(waiting, 1, n))
  /\ UNCHANGED <<captured, batch, failures, flushing, backoff, up, settled>>

\* A keepalive request is answered, whatever the status, and that is the end of
\* it; or it fails and the event goes back to the front.
UnloadAnswered(e, ok) ==
  /\ e \in leaving /\ (up => ok)
  /\ leaving' = leaving \ {e}
  /\ IF ok
       THEN settled' = settled \union {e} /\ UNCHANGED waiting
       ELSE /\ waiting' = Trimmed(<<e>> \o waiting)
            /\ settled' = settled \union Dropped(<<e>> \o waiting)
  /\ UNCHANGED <<captured, batch, failures, flushing, backoff, up>>

\* External: the network and the server recover.
Recovers ==
  /\ ~up /\ up' = TRUE
  /\ UNCHANGED <<captured, waiting, batch, failures, flushing, backoff, leaving, settled>>

BrowserNext ==
  \/ EnqueueEvent \/ FlushEvents \/ BackoffEnds \/ Recovers
  \/ \E ok \in BOOLEAN : Answered(ok)
  \/ \E n \in 1..MaxQueue : FlushOnUnload(n)
  \/ \E e \in 1..MaxEvents, ok \in BOOLEAN : UnloadAnswered(e, ok)

BrowserSpec == BrowserInit /\ [][BrowserNext]_browserVars

-----------------------------------------------------------------------------
(* Properties.                                                               *)

\* Every captured event is in one place: it waits, is being sent by one
\* request, or is settled.  No flush, unload, failure or overflow loses one or
\* makes a second copy.
InOnePlace ==
  \A e \in 1..captured :
    Len(SelectSeq(waiting \o batch \o failures, LAMBDA x : x = e))
      + (IF e \in leaving THEN 1 ELSE 0) + (IF e \in settled THEN 1 ELSE 0) = 1

(* The queue of the page keeps within its limit and loses or doubles nothing. *)
QueueIntact ==
  /\ BrowserTypeOK
  /\ InOnePlace
=============================================================================
