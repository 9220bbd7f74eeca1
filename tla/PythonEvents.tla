----------------------------- MODULE PythonEvents -----------------------------
(***************************************************************************)
(* The Python SDK's transport (packages/sdk-python/opslane/transport.py):   *)
(* application threads put events on a bounded queue under a lock, and one  *)
(* background thread takes them off, sends them and puts back what failed,  *)
(* this without the lock.  queue.Queue's own calls are atomic.              *)
(***************************************************************************)
EXTENDS Naturals, Sequences, FiniteSets

CONSTANTS
  Threads,         \* application threads
  MaxPayloads,     \* events captured
  QueueSize,       \* queue_size
  MaxSends,        \* max_attempts
  MaxRate          \* max_events_per_minute

ASSUME PythonConstants ==
  QueueSize \in Nat \ {0} /\ MaxSends \in Nat \ {0} /\ MaxRate \in Nat \ {0}

VARIABLES
  made,      \* how many events were captured
  fifo,      \* the queue of [event, attempts]
  lock,      \* who holds the lock: a thread, "drain" or "none"
  hand,      \* the item a thread is about to put
  putting,   \* where each is in _put_dropping_oldest; "drain" is the sender
  sending,   \* the item the sender took, if any
  inFlight,  \* _in_flight
  stamps,    \* admissions of the last minute
  held,      \* time.monotonic() < _backoff_until
  ended,     \* _stopped, and the thread has left its loop
  closed     \* events delivered, rejected or dropped, or left to the parent

pythonVars == <<made, fifo, lock, hand, putting, sending, inFlight, stamps, held, ended, closed>>

Putters == Threads \union {"drain"}
Items   == [event : 1..MaxPayloads, sends : 0..MaxSends]
NoItem  == [event |-> 0, sends |-> 0]

PythonTypeOK ==
  /\ made \in 0..MaxPayloads
  /\ fifo \in Seq(Items) /\ Len(fifo) <= QueueSize
  /\ lock \in Putters \union {"none"}
  /\ hand \in [Putters -> Items \union {NoItem}]
  /\ putting \in [Putters -> {"idle", "put", "evict", "again", "sent"}]
  /\ sending \in Items \union {NoItem}
  /\ inFlight \in BOOLEAN /\ held \in BOOLEAN
  /\ stamps \in 0..MaxRate
  /\ ended \in {"no", "asked", "yes"}
  /\ closed \subseteq 1..MaxPayloads

PythonInit ==
  /\ made = 0 /\ fifo = <<>> /\ lock = "none"
  /\ hand = [t \in Putters |-> NoItem]
  /\ putting = [t \in Putters |-> "idle"]
  /\ sending = NoItem /\ inFlight = FALSE
  /\ stamps = 0 /\ held = FALSE /\ ended = "no" /\ closed = {}

-----------------------------------------------------------------------------
\* _admit's rate limit.
Admits == stamps < MaxRate

\* enqueue and _admit: an event over the limit is dropped at once.
Admit(t) ==
  /\ putting[t] = "idle" /\ lock = "none" /\ made < MaxPayloads
  /\ made' = made + 1
  /\ IF Admits
       THEN /\ lock' = t
            /\ hand' = [hand EXCEPT ![t] = [event |-> made + 1, sends |-> 0]]
            /\ putting' = [putting EXCEPT ![t] = "put"]
            /\ stamps' = stamps + 1
            /\ UNCHANGED closed
       ELSE closed' = closed \union {made + 1} /\ UNCHANGED <<lock, hand, putting, stamps>>
  /\ UNCHANGED <<fifo, sending, inFlight, held, ended>>

\* After the put a thread releases the lock; the sender goes on to clear its flag.
PutDone(t) ==
  /\ hand' = [hand EXCEPT ![t] = NoItem]
  /\ putting' = [putting EXCEPT ![t] = IF t = "drain" THEN "sent" ELSE "idle"]
  /\ lock' = IF t = "drain" THEN lock ELSE "none"

\* put_nowait; when the queue is full the oldest goes, and the put is tried once
\* more: by then another putter may have taken the place.
PutNowait(t) ==
  /\ putting[t] \in {"put", "again"}
  /\ IF Len(fifo) < QueueSize
       THEN fifo' = Append(fifo, hand[t]) /\ PutDone(t) /\ UNCHANGED closed
       ELSE IF putting[t] = "again"
         THEN PutDone(t) /\ closed' = closed \union {hand[t].event} /\ UNCHANGED fifo
         ELSE putting' = [putting EXCEPT ![t] = "evict"] /\ UNCHANGED <<fifo, lock, hand, closed>>
  /\ UNCHANGED <<made, sending, inFlight, stamps, held, ended>>

DropOldest(t) ==
  /\ putting[t] = "evict"
  /\ putting' = [putting EXCEPT ![t] = "again"]
  /\ IF fifo = <<>> THEN UNCHANGED <<fifo, closed>>
     ELSE fifo' = Tail(fifo) /\ closed' = closed \union {Head(fifo).event}
  /\ UNCHANGED <<made, lock, hand, sending, inFlight, stamps, held, ended>>

-----------------------------------------------------------------------------
\* _drain takes an item and raises its flag under the lock.
Take ==
  /\ ended # "yes" /\ ~held /\ lock = "none"
  /\ sending = NoItem /\ putting["drain"] = "idle" /\ fifo # <<>>
  /\ sending' = Head(fifo)
  /\ fifo' = Tail(fifo)
  /\ inFlight' = TRUE
  /\ UNCHANGED <<made, lock, hand, putting, stamps, held, ended, closed>>

\* What the sender puts back.
Retry(item) == [item EXCEPT !.sends = @ + 1]

\* _send_fn: delivered, rejected or broken, and the event is done with; or to be
\* tried again, unless this was the last attempt.
SendEnds ==
  /\ sending # NoItem /\ putting["drain"] = "idle"
  /\ putting' = [putting EXCEPT !["drain"] = "sent"]
  /\ closed' = closed \union {sending.event}
  /\ UNCHANGED <<made, fifo, lock, hand, sending, inFlight, stamps, held, ended>>

SendFails ==
  /\ sending # NoItem /\ putting["drain"] = "idle"
  /\ IF sending.sends + 1 >= MaxSends
       THEN /\ putting' = [putting EXCEPT !["drain"] = "sent"]
            /\ closed' = closed \union {sending.event}
            /\ UNCHANGED <<hand, held>>
       ELSE /\ putting' = [putting EXCEPT !["drain"] = "put"]
            /\ hand' = [hand EXCEPT !["drain"] = Retry(sending)]
            /\ held' = TRUE
            /\ UNCHANGED closed
  /\ UNCHANGED <<made, fifo, lock, sending, inFlight, stamps, ended>>

\* finally: the flag is cleared, under the lock, after whatever was put back.
\* (Mutant: before it.)
ClearsEarly == putting["drain"] \in {"put", "sent"}
Clears == putting["drain"] = "sent"

ClearFlag ==
  /\ inFlight /\ lock = "none" /\ Clears
  /\ inFlight' = FALSE
  /\ sending' = NoItem
  /\ putting' = IF putting["drain"] = "sent" THEN [putting EXCEPT !["drain"] = "idle"] ELSE putting
  /\ UNCHANGED <<made, fifo, lock, hand, stamps, held, ended, closed>>

-----------------------------------------------------------------------------
BackoffOver == held /\ held' = FALSE /\ UNCHANGED
  <<made, fifo, lock, hand, putting, sending, inFlight, stamps, ended, closed>>

StampExpires == stamps > 0 /\ stamps' = stamps - 1 /\ UNCHANGED
  <<made, fifo, lock, hand, putting, sending, inFlight, held, ended, closed>>

\* stop(), and the thread's exit between two drains: what is queued stays.
StopTransport == ended = "no" /\ ended' = "asked" /\ UNCHANGED
  <<made, fifo, lock, hand, putting, sending, inFlight, stamps, held, closed>>

ThreadExits == ended = "asked" /\ sending = NoItem /\ ended' = "yes" /\ UNCHANGED
  <<made, fifo, lock, hand, putting, sending, inFlight, stamps, held, closed>>

\* os.fork in thread t: the child has neither the other threads nor, after
\* _reset_after_fork, the events, which stay the parent's.
Fork(t) ==
  /\ putting[t] = "idle"
  /\ fifo' = <<>> /\ lock' = "none"
  /\ hand' = [u \in Putters |-> NoItem]
  /\ putting' = [u \in Putters |-> "idle"]
  /\ sending' = NoItem /\ inFlight' = FALSE /\ stamps' = 0 /\ held' = FALSE
  /\ closed' = 1..made
  /\ UNCHANGED <<made, ended>>

SenderSteps == Take \/ SendEnds \/ SendFails \/ ClearFlag

PythonNext ==
  \/ SenderSteps \/ BackoffOver \/ StampExpires \/ StopTransport \/ ThreadExits
  \/ \E t \in Threads : Admit(t) \/ Fork(t)
  \/ \E t \in Putters : PutNowait(t) \/ DropOldest(t)

PythonSpec == PythonInit /\ [][PythonNext]_pythonVars

-----------------------------------------------------------------------------
(* Properties.                                                               *)

\* flush() answers True only when nothing is pending: whenever its test, made
\* under the lock, could succeed, every event captured so far is done with,
\* those the sender is about to put back included.
FlushIsHonest ==
  lock = "none" /\ fifo = <<>> /\ ~inFlight => closed = 1..made

(* The queue of the process keeps within its limits and flush is honest.     *)
SenderHonest ==
  /\ PythonTypeOK
  /\ FlushIsHonest
=============================================================================
