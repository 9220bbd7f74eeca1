--------------------------- MODULE JobQueueProofs ---------------------------
(* Proofs about JobQueue, for every number of jobs, loops and processes and *)
(* every lease length, cap, retry budget and re-run budget.                 *)
EXTENDS JobQueueRefines, FiniteSetTheorems, TLAPS

(* What one statement other than a claim may do to one row, with the guard  *)
(* it does it under.                                                        *)
OtherMoves(row, new) ==
  \/ new = row
  \/ row.status = "absent" /\ \E due \in BOOLEAN : new = Inserted(row, due)
  \/ row.status = "claimed" /\ row.lease > 0 /\ new = Renewed(row)
  \/ row.status = "claimed" /\ row.lease > 0 /\ new = Ticked(row)
  \/ row.status \in Active /\ new = Completed(row)
  \/ row.status \in Active /\ new = Withdrawn(row)
  \/ row.status = "pending" /\ new = MadeDue(row)
  \/ row.status = "dead_letter" /\ row.age < 2 /\ new = Aged(row)
  \/ /\ row.status = "claimed"
     /\ \E e \in BOOLEAN : \E c \in Classes : new = Failed(row, e, c)
  \/ /\ row.status = "claimed" /\ row.reschedules < MaxReschedules
     /\ \E due \in BOOLEAN : new = Rescheduled(row, due)
  \/ row.status = "dead_letter" /\ row.requeues < MaxRequeues /\ new = Requeued(row)

(* ... or a claim.                                                          *)
Moves(row, new) ==
  \/ OtherMoves(row, new)
  \/ row.status = "pending" /\ \E p \in Procs : new = Claimed(row, p)

(* Every step of the system claims a row or moves it in one of these ways.  *)
LEMMA StepMovesOrClaims ==
  ASSUME TypeOK, [Next]_vars, NEW k \in Jobs
  PROVE  OtherMoves(job[k], job'[k]) \/ \E l \in Loops : Claim(l, k)
<1> USE QueueAssumption DEF QueueAssumption, TypeOK
<1>1. ASSUME NEW j \in Jobs, RowStep(j) PROVE OtherMoves(job[k], job'[k])
  BY <1>1 DEF OtherMoves, RowStep, Enqueue, Withdraw, CancelWatch, LeaseTick, BecomesDue,
              DeadLetterAges, Active
<1>2. ASSUME NEW l \in Loops, LoopStep(l)
      PROVE  OtherMoves(job[k], job'[k]) \/ Claim(l, k)
  <2> DEFINE j == loop[l].job
  <2>1. ASSUME NEW i \in Jobs, Claim(l, i), i # k PROVE OtherMoves(job[k], job'[k])
    BY <2>1 DEF OtherMoves, Claim
  <2>2. CASE Start(l) \/ HeartbeatThrows(l)
    BY <2>2 DEF OtherMoves, Start, HeartbeatThrows
  <2>3. CASE Handback(l) \/ HandlerReschedules(l)
    BY <2>3 DEF OtherMoves, Handback, HandlerReschedules, Owns
  <2>4. CASE Heartbeat(l)
    BY <2>4 DEF OtherMoves, Heartbeat, Owns
  <2>5. CASE HandlerReturns(l) \/ CompleteThrows(l) \/ FinalizerCompletes(l)
    BY <2>5 DEF OtherMoves, HandlerReturns, CompleteThrows, FinalizerCompletes, Owns, Active
  <2>6. ASSUME NEW e \in BOOLEAN, NEW c \in Classes, FailJob(l, e, c)
        PROVE  OtherMoves(job[k], job'[k])
    BY <2>6 DEF OtherMoves, FailJob, Owns
  <2>7. CASE HandlerThrows(l) \/ FailAfterComplete(l)
    BY <2>6, <2>7 DEF HandlerThrows, FailAfterComplete, Classes
  <2> QED
    BY <1>2, <2>1, <2>2, <2>3, <2>4, <2>5, <2>7 DEF LoopStep
<1>3. ASSUME NEW t, RequeueDeadLetters(t) PROVE OtherMoves(job[k], job'[k])
  BY <1>3 DEF OtherMoves, RequeueDeadLetters, DueDeadLetters
<1>4. ASSUME NEW p \in Procs, ProcStep(p) PROVE OtherMoves(job[k], job'[k])
  <2>1. CASE ReapCommit(p)
    BY <2>1 DEF OtherMoves, ReapCommit, Reapable, LeaseExpired, Classes
  <2>2. CASE ReapSelect(p) \/ Stop(p) \/ Exit(p)
    BY <2>2 DEF OtherMoves, ReapSelect, Stop, Exit
  <2>3. CASE Boot(p)
    BY <2>3, <1>3 DEF Boot
  <2> QED
    BY <1>4, <2>1, <2>2, <2>3 DEF ProcStep
<1>5. CASE RequeueInterval
  BY <1>5, <1>3 DEF RequeueInterval
<1>6. CASE UNCHANGED vars
  BY <1>6 DEF OtherMoves, vars
<1> QED
  BY <1>1, <1>2, <1>4, <1>5, <1>6 DEF Next

(* Every step moves every row in one of these ways.                         *)
LEMMA StepMovesRows ==
  ASSUME TypeOK, [Next]_vars, NEW k \in Jobs
  PROVE  Moves(job[k], job'[k])
<1>1. ASSUME NEW l \in Loops, Claim(l, k) PROVE Moves(job[k], job'[k])
  BY <1>1, QueueAssumption DEF QueueAssumption, Claim, Claimable, Moves, TypeOK
<1> QED
  BY <1>1, StepMovesOrClaims DEF Moves

(* A move keeps a row in its domain.                                        *)
LEMMA MovesKeepRow ==
  ASSUME NEW row \in Row, NEW new, Moves(row, new)
  PROVE  new \in Row
<1> USE QueueAssumption DEF QueueAssumption, Row, Active, Terminal
<1>1. ASSUME NEW due \in BOOLEAN, new = Inserted(row, due) PROVE new \in Row
  BY <1>1 DEF Inserted
<1>2. ASSUME NEW p \in Procs, new = Claimed(row, p) PROVE new \in Row
  <2>1. row.gen + 1 \in Nat /\ LeaseTicks \in 0..LeaseTicks
    OBVIOUS
  <2> QED
    BY <1>2, <2>1 DEF Claimed
<1>3. CASE new = Renewed(row)
  BY <1>3 DEF Renewed
<1>4. CASE row.lease > 0 /\ new = Ticked(row)
  <2>1. row.lease - 1 \in 0..LeaseTicks
    BY <1>4
  <2> QED
    BY <1>4, <2>1 DEF Ticked
<1>5. CASE new = Completed(row)
  BY <1>5 DEF Completed
<1>6. CASE new = Withdrawn(row)
  <2>1. 0 \in 0..LeaseTicks
    OBVIOUS
  <2> QED
    BY <1>6, <2>1 DEF Withdrawn
<1>7. CASE new = MadeDue(row)
  BY <1>7 DEF MadeDue
<1>8. CASE row.age < 2 /\ new = Aged(row)
  <2>1. row.age + 1 \in 0..2
    BY <1>8
  <2> QED
    BY <1>8, <2>1 DEF Aged
<1>9. ASSUME NEW e \in BOOLEAN, NEW c \in Classes, new = Failed(row, e, c)
      PROVE  new \in Row
  <2>0. row.attempts + 1 \in Nat /\ 0 \in 0..LeaseTicks /\ 0 \in 0..2
    OBVIOUS
  <2>1. CASE e \/ row.attempts + 1 >= MaxAttempts
    BY <1>9, <2>0, <2>1 DEF Failed
  <2>2. CASE ~(e \/ row.attempts + 1 >= MaxAttempts)
    BY <1>9, <2>0, <2>2 DEF Failed
  <2> QED
    BY <2>1, <2>2
<1>10. ASSUME NEW due \in BOOLEAN, row.reschedules < MaxReschedules,
              new = Rescheduled(row, due)
       PROVE  new \in Row
  <2>1. row.reschedules + 1 \in 0..MaxReschedules /\ 0 \in 0..LeaseTicks
    BY <1>10
  <2> QED
    BY <1>10, <2>1 DEF Rescheduled
<1>11. CASE row.requeues < MaxRequeues /\ new = Requeued(row)
  <2>1. row.requeues + 1 \in 0..MaxRequeues /\ 0 \in 0..LeaseTicks /\ 0 \in 0..2
    BY <1>11
  <2> QED
    BY <1>11, <2>1 DEF Requeued
<1> HIDE DEF Row
<1> QED
  BY <1>1, <1>2, <1>3, <1>4, <1>5, <1>6, <1>7, <1>8, <1>9, <1>10, <1>11 DEF Moves, OtherMoves

(* The rows stay a function over the inserted ids.                          *)
LEMMA RowsAreFunction ==
  ASSUME TypeOK, [Next]_vars
  PROVE  job' = [k \in Jobs |-> job'[k]]
<1> USE DEF TypeOK
<1>1. ASSUME NEW j \in Jobs, RowStep(j) PROVE job' = [k \in Jobs |-> job'[k]]
  BY <1>1 DEF RowStep, Enqueue, Withdraw, CancelWatch, LeaseTick, BecomesDue, DeadLetterAges
<1>2. ASSUME NEW l \in Loops, LoopStep(l) PROVE job' = [k \in Jobs |-> job'[k]]
  BY <1>2 DEF LoopStep, Claim, Start, Handback, Heartbeat, HeartbeatThrows, HandlerReturns,
              CompleteThrows, FinalizerCompletes, HandlerReschedules, HandlerThrows,
              FailAfterComplete, FailJob
<1>3. ASSUME NEW t, RequeueDeadLetters(t) PROVE job' = [k \in Jobs |-> job'[k]]
  BY <1>3 DEF RequeueDeadLetters
<1>4. ASSUME NEW p \in Procs, ProcStep(p) PROVE job' = [k \in Jobs |-> job'[k]]
  BY <1>3, <1>4 DEF ProcStep, ReapCommit, ReapSelect, Stop, Exit, Boot
<1>5. CASE RequeueInterval
  BY <1>3, <1>5 DEF RequeueInterval
<1>6. CASE UNCHANGED vars
  BY <1>6 DEF vars
<1> QED
  BY <1>1, <1>2, <1>4, <1>5, <1>6 DEF Next

(* What one step may do to one loop: nothing, forget its claim, move on with *)
(* the same claim, or take a new one.                                       *)
LoopMoves(l) ==
  \/ loop'[l] = loop[l]
  \/ loop'[l] = IdleLoop
  \/ /\ loop[l].pc # "idle"
     /\ loop'[l] \in LoopState
     /\ loop'[l].pc # "idle"
     /\ loop'[l].job = loop[l].job
     /\ loop'[l].gen = loop[l].gen
  \/ \E j \in Jobs : /\ job'[j] = Claimed(job[j], ProcOf[l])
                     /\ loop'[l] = [pc |-> "got", job |-> j, gen |-> job[j].gen + 1,
                                    aborted |-> FALSE]
                     /\ \A m \in Loops \ {l} : loop'[m] = loop[m]

(* Every step moves every loop in one of these ways.                        *)
LEMMA StepMovesLoops ==
  ASSUME TypeOK, [Next]_vars, NEW m \in Loops
  PROVE  LoopMoves(m)
<1> USE DEF TypeOK
<1>1. ASSUME NEW j \in Jobs, RowStep(j) PROVE LoopMoves(m)
  BY <1>1 DEF LoopMoves, RowStep, Enqueue, Withdraw, CancelWatch, LeaseTick, BecomesDue,
              DeadLetterAges
<1>2. ASSUME NEW l \in Loops, LoopStep(l) PROVE LoopMoves(m)
  <2>1. CASE \E j \in Jobs : Claim(l, j)
    <3> PICK j \in Jobs : Claim(l, j)
      BY <2>1
    <3>1. job'[j] = Claimed(job[j], ProcOf[l])
      BY DEF Claim
    <3> QED
      BY <3>1 DEF LoopMoves, Claim
  <2>2. CASE Start(l) \/ CompleteThrows(l)
    <3>1. \/ loop' = [loop EXCEPT ![l] = [loop[l] EXCEPT !.pc = "working"]]
          \/ loop' = [loop EXCEPT ![l] = [loop[l] EXCEPT !.pc = "unsure"]]
      BY <2>2 DEF Start, CompleteThrows
    <3>2. loop[l].pc # "idle"
      BY <2>2 DEF Start, CompleteThrows
    <3>3. CASE m = l
      <4>1. \/ loop'[m] = [loop[m] EXCEPT !.pc = "working"]
            \/ loop'[m] = [loop[m] EXCEPT !.pc = "unsure"]
        BY <3>1, <3>3
      <4>2. /\ loop'[m] \in LoopState
            /\ loop'[m].pc # "idle"
            /\ loop'[m].job = loop[m].job
            /\ loop'[m].gen = loop[m].gen
        BY <4>1 DEF LoopState
      <4> QED
        BY <3>2, <3>3, <4>2 DEF LoopMoves
    <3>4. CASE m # l
      BY <3>1, <3>4 DEF LoopMoves
    <3> QED
      BY <3>3, <3>4
  <2>3. CASE Heartbeat(l) \/ HeartbeatThrows(l)
    <3>1. \/ loop' = [loop EXCEPT ![l] = [loop[l] EXCEPT !.aborted = TRUE]]
          \/ loop' = loop
      BY <2>3 DEF Heartbeat, HeartbeatThrows
    <3>2. loop[l].pc # "idle"
      BY <2>3 DEF Heartbeat, HeartbeatThrows
    <3>3. CASE m = l
      <4>1. loop'[m] = loop[m] \/ loop'[m] = [loop[m] EXCEPT !.aborted = TRUE]
        BY <3>1, <3>3
      <4>2. /\ loop'[m] \in LoopState
            /\ loop'[m].pc = loop[m].pc
            /\ loop'[m].job = loop[m].job
            /\ loop'[m].gen = loop[m].gen
        BY <4>1 DEF LoopState
      <4> QED
        BY <3>2, <3>3, <4>2 DEF LoopMoves
    <3>4. CASE m # l
      BY <3>1, <3>4 DEF LoopMoves
    <3> QED
      BY <3>3, <3>4
  <2>4. CASE \/ Handback(l) \/ HandlerReturns(l) \/ FinalizerCompletes(l)
             \/ HandlerReschedules(l) \/ HandlerThrows(l) \/ FailAfterComplete(l)
    BY <2>4 DEF LoopMoves, Handback, HandlerReturns, FinalizerCompletes, HandlerReschedules,
                HandlerThrows, FailAfterComplete, FailJob
  <2> QED
    BY <1>2, <2>1, <2>2, <2>3, <2>4 DEF LoopStep
<1>3. ASSUME NEW p \in Procs, ProcStep(p) PROVE LoopMoves(m)
  BY <1>3 DEF LoopMoves, ProcStep, ReapCommit, ReapSelect, Stop, Exit, Boot
<1>4. CASE RequeueInterval \/ UNCHANGED vars
  BY <1>4 DEF LoopMoves, RequeueInterval, vars
<1> QED
  BY <1>1, <1>2, <1>3, <1>4 DEF Next

(* Every step keeps the queue well typed.                                   *)
LEMMA NextType == TypeOK /\ [Next]_vars => TypeOK'
<1> SUFFICES ASSUME TypeOK, [Next]_vars PROVE TypeOK'
  OBVIOUS
<1>1. job' \in [Jobs -> Row]
  <2>1. \A k \in Jobs : job'[k] \in Row
    BY StepMovesRows, MovesKeepRow DEF TypeOK
  <2> QED
    BY <2>1, RowsAreFunction
<1>2. ASSUME NEW l \in Loops
      PROVE  loop'[l] \in LoopState /\ (loop'[l].pc # "idle" => loop'[l].job \in Jobs)
  <2>1. LoopMoves(l)
    BY StepMovesLoops
  <2>2. ASSUME NEW j \in Jobs
        PROVE  [pc |-> "got", job |-> j, gen |-> job[j].gen + 1, aborted |-> FALSE] \in LoopState
    BY DEF TypeOK, Row, LoopState
  <2>3. IdleLoop \in LoopState /\ IdleLoop.pc = "idle"
    BY DEF IdleLoop, LoopState
  <2>4. CASE loop'[l] = loop[l] \/ loop'[l] = IdleLoop
    BY <2>3, <2>4 DEF TypeOK
  <2>5. CASE \E j \in Jobs :
               loop'[l] = [pc |-> "got", job |-> j, gen |-> job[j].gen + 1, aborted |-> FALSE]
    BY <2>2, <2>5
  <2>6. CASE /\ loop[l].pc # "idle" /\ loop'[l] \in LoopState
             /\ loop'[l].job = loop[l].job
    BY <2>6 DEF TypeOK
  <2> QED
    BY <2>1, <2>4, <2>5, <2>6 DEF LoopMoves
<1>3. /\ loop' = [l \in Loops |-> loop'[l]]
      /\ proc' \in [Procs -> {"up", "stopping", "down"}]
      /\ reap' \in [Procs -> SUBSET Jobs]
  <2>1. ASSUME NEW j \in Jobs, RowStep(j) PROVE UNCHANGED <<loop, proc, reap>>
    BY <2>1 DEF RowStep, Enqueue, Withdraw, CancelWatch, LeaseTick, BecomesDue, DeadLetterAges
  <2>2. ASSUME NEW l \in Loops, LoopStep(l)
        PROVE  loop' = [m \in Loops |-> loop'[m]] /\ UNCHANGED <<proc, reap>>
    BY <2>2 DEF LoopStep, Claim, Start, Handback, Heartbeat, HeartbeatThrows, HandlerReturns,
                CompleteThrows, FinalizerCompletes, HandlerReschedules, HandlerThrows,
                FailAfterComplete, FailJob, TypeOK
  <2>3. ASSUME NEW p \in Procs, ProcStep(p) 
        PROVE  /\ loop' = [l \in Loops |-> loop'[l]]
               /\ proc' \in [Procs -> {"up", "stopping", "down"}]
               /\ reap' \in [Procs -> SUBSET Jobs]
    BY <2>3 DEF ProcStep, ReapCommit, ReapSelect, Stop, Exit, Boot, TypeOK
  <2> QED
    BY <2>1, <2>2, <2>3 DEF Next, TypeOK, RequeueInterval, vars
<1>4. loop' \in [Loops -> LoopState]
  <2>1. \A l \in Loops : loop'[l] \in LoopState
    BY <1>2
  <2>2. loop' = [l \in Loops |-> loop'[l]]
    BY <1>3
  <2> QED
    BY <2>1, <2>2
<1> QED
  BY <1>1, <1>2, <1>3, <1>4 DEF TypeOK

(* The initial state is well typed.                                         *)
LEMMA InitType == Init => TypeOK
  BY QueueAssumption
     DEF Init, TypeOK, Row, AbsentRow, LoopState, IdleLoop, Active, Terminal, QueueAssumption

(* Type correctness of the queue, for every size of it.                     *)
THEOREM QueueTypeCorrect == Spec => []TypeOK
  BY InitType, NextType, PTL DEF Spec

-----------------------------------------------------------------------------
(* A move keeps the books: executions handed out are charged or in progress. *)
LEMMA MovesKeepAccount ==
  ASSUME NEW row \in Row, NEW new, Moves(row, new), Accounted(row)
  PROVE  Accounted(new)
<1> USE QueueAssumption DEF QueueAssumption, Accounted, Row, Active
<1>1. ASSUME NEW due \in BOOLEAN, row.status = "absent", new = Inserted(row, due)
      PROVE  Accounted(new)
  BY <1>1 DEF Inserted
<1>2. ASSUME NEW p \in Procs, row.status = "pending", new = Claimed(row, p)
      PROVE  Accounted(new)
  BY <1>2 DEF Claimed
<1>3. CASE new = Renewed(row) \/ new = Ticked(row) \/ new = MadeDue(row) \/ new = Aged(row)
  BY <1>3 DEF Renewed, Ticked, MadeDue, Aged
<1>4. CASE row.status \in Active /\ new = Completed(row)
  BY <1>4 DEF Completed
<1>8. CASE row.status \in Active /\ new = Withdrawn(row)
  BY <1>8 DEF Withdrawn
<1>5. ASSUME NEW e \in BOOLEAN, NEW c \in Classes, row.status = "claimed",
             new = Failed(row, e, c)
      PROVE  Accounted(new)
  BY <1>5 DEF Failed
<1>6. ASSUME NEW due \in BOOLEAN, row.status = "claimed", new = Rescheduled(row, due)
      PROVE  Accounted(new)
  BY <1>6 DEF Rescheduled
<1>7. CASE row.status = "dead_letter" /\ new = Requeued(row)
  BY <1>7 DEF Requeued
<1> HIDE DEF Accounted, Row
<1> QED
  BY <1>1, <1>2, <1>3, <1>4, <1>5, <1>6, <1>7, <1>8 DEF Moves, OtherMoves

(* Bounded work: a job is handed out at most max_attempts times, plus once   *)
(* per re-run and per hand-back, however its executions end.                *)
THEOREM ExecutionBudgetHolds == Spec => []ExecutionBudget
<1> USE QueueAssumption DEF QueueAssumption
<1>1. Init => Accounting
  BY DEF Init, Accounting, Accounted, AbsentRow
<1>2. TypeOK /\ Accounting /\ [Next]_vars => Accounting'
  BY StepMovesRows, MovesKeepAccount DEF Accounting, TypeOK
<1>3. TypeOK /\ Accounting => ExecutionBudget
  BY DEF TypeOK, Accounting, Accounted, ExecutionBudget, Row, Active, Terminal
<1> QED
  BY <1>1, <1>2, <1>3, QueueTypeCorrect, PTL DEF Spec

(* Nothing brings a completed or failed job back, and only a counted re-run *)
(* brings a dead letter back.                                               *)
THEOREM TerminalIsFinalHolds == Spec => TerminalIsFinal
<1> USE QueueAssumption DEF QueueAssumption
<1>1. ASSUME NEW row \in Row, NEW new, Moves(row, new)
      PROVE  /\ row.status \in {"completed", "failed"} => new.status = row.status
             /\ row.status = "dead_letter" =>
                  \/ new.status = "dead_letter"
                  \/ new.status = "pending" /\ new.requeues = row.requeues + 1
  BY <1>1 DEF Moves, OtherMoves, Row, Active, Aged, Requeued
<1>2. TypeOK /\ [Next]_vars => [TerminalStep]_vars
  BY <1>1, StepMovesRows DEF TerminalStep, TypeOK
<1> QED
  BY <1>2, QueueTypeCorrect, PTL DEF Spec, TerminalIsFinal

-----------------------------------------------------------------------------
(* A move never lowers a row's generation, and a claim raises it by one.    *)
LEMMA MovesKeepGeneration ==
  ASSUME NEW row \in Row, NEW new, Moves(row, new)
  PROVE  /\ new.gen >= row.gen
         /\ \A p \in Procs : new = Claimed(row, p) => new.gen = row.gen + 1
<1> USE DEF Row
<1>1. ASSUME NEW p \in Procs, new = Claimed(row, p) PROVE new.gen = row.gen + 1
  BY <1>1 DEF Claimed
<1>2. ASSUME NEW b \in BOOLEAN, new = Inserted(row, b) \/ new = Rescheduled(row, b)
      PROVE  new.gen = row.gen
  BY <1>2 DEF Inserted, Rescheduled
<1>3. ASSUME \/ new = Renewed(row) \/ new = Ticked(row)
             \/ new = Completed(row) \/ new = Withdrawn(row)
      PROVE  new.gen = row.gen
  BY <1>3 DEF Renewed, Ticked, Completed, Withdrawn
<1>4. ASSUME new = MadeDue(row) \/ new = Aged(row) \/ new = Requeued(row)
      PROVE  new.gen = row.gen
  BY <1>4 DEF MadeDue, Aged, Requeued
<1>5. ASSUME NEW e \in BOOLEAN, NEW c \in Classes, new = Failed(row, e, c)
      PROVE  new.gen = row.gen
  BY <1>5 DEF Failed
<1> HIDE DEF Row
<1>6. row.gen \in Nat
  BY DEF Row
<1> QED
  BY <1>1, <1>2, <1>3, <1>4, <1>5, <1>6 DEF Moves, OtherMoves

(* lease_generation identifies an execution: see GenerationsIdentify.       *)
LEMMA NextGenerations ==
  TypeOK /\ GenerationsIdentify /\ [Next]_vars => GenerationsIdentify'
<1> SUFFICES ASSUME TypeOK, GenerationsIdentify, [Next]_vars PROVE GenerationsIdentify'
  OBVIOUS
<1> USE QueueAssumption DEF QueueAssumption
<1>0. TypeOK'
  BY NextType
<1> DEFINE Idles(x) == loop'[x].pc = "idle" /\ loop'[x].job = NoJob
           Kept(x) == /\ loop[x].pc # "idle" /\ loop'[x].pc # "idle"
                      /\ loop'[x].job = loop[x].job /\ loop'[x].gen = loop[x].gen
           Took(x) == \E j \in Jobs :
                        /\ job'[j] = Claimed(job[j], ProcOf[x])
                        /\ loop'[x].pc # "idle"
                        /\ loop'[x].job = j /\ loop'[x].gen = job[j].gen + 1
                        /\ \A y \in Loops \ {x} : loop'[y] = loop[y]
<1>1. ASSUME NEW l \in Loops PROVE Idles(l) \/ Kept(l) \/ Took(l)
  <2>1. LoopMoves(l)
    BY StepMovesLoops
  <2>2. loop'[l] = IdleLoop => Idles(l)
    BY DEF IdleLoop
  <2>3. loop'[l] = loop[l] => Idles(l) \/ Kept(l)
    BY DEF GenerationsIdentify
  <2>4. ASSUME NEW j \in Jobs,
               loop'[l] = [pc |-> "got", job |-> j, gen |-> job[j].gen + 1, aborted |-> FALSE]
        PROVE  loop'[l].pc # "idle" /\ loop'[l].job = j /\ loop'[l].gen = job[j].gen + 1
    BY <2>4
  <2> QED
    BY <2>1, <2>2, <2>3, <2>4 DEF LoopMoves
<1>2. ASSUME NEW j \in Jobs
      PROVE  /\ job'[j].gen >= job[j].gen
             /\ \A p \in Procs : job'[j] = Claimed(job[j], p) => job'[j].gen = job[j].gen + 1
             /\ job[j].gen \in Nat /\ job'[j].gen \in Nat
  BY <1>0, StepMovesRows, MovesKeepGeneration DEF TypeOK, Row
<1>3. ASSUME NEW l \in Loops, loop'[l].pc # "idle"
      PROVE  loop'[l].gen <= job'[loop'[l].job].gen
  <2>1. loop'[l].gen \in Nat /\ loop[l].gen \in Nat
    BY <1>0 DEF TypeOK, LoopState
  <2>2. CASE Kept(l)
    BY <1>2, <2>1, <2>2 DEF TypeOK, GenerationsIdentify
  <2>3. CASE Took(l)
    BY <1>2, <2>3
  <2> QED
    BY <1>1, <1>3, <2>2, <2>3
<1>4. ASSUME NEW l \in Loops, loop'[l].pc = "idle" PROVE loop'[l].job = NoJob
  BY <1>1, <1>4
<1>5. ASSUME NEW l \in Loops, NEW m \in Loops, l # m,
             loop'[l].pc # "idle", loop'[m].pc # "idle",
             loop'[l].job = loop'[m].job, loop'[l].gen = loop'[m].gen
      PROVE  FALSE
  <2>2. ASSUME NEW x \in Loops, NEW y \in Loops, x # y, Took(x),
               loop'[y].pc # "idle", loop'[x].job = loop'[y].job, loop'[x].gen = loop'[y].gen
        PROVE  FALSE
    <3> PICK j \in Jobs : /\ loop'[x].job = j /\ loop'[x].gen = job[j].gen + 1
                          /\ \A z \in Loops \ {x} : loop'[z] = loop[z]
      BY <2>2
    <3>1. loop[y].pc # "idle" /\ loop[y].job = j /\ loop[y].gen = job[j].gen + 1
      BY <2>2
    <3>2. loop[y].gen <= job[j].gen
      BY <3>1 DEF GenerationsIdentify
    <3> QED
      BY <1>2, <3>1, <3>2
  <2>3. CASE Kept(l) /\ Kept(m)
    BY <1>5, <2>3 DEF GenerationsIdentify
  <2> QED
    BY <1>1, <1>5, <2>2, <2>3
<1> QED
  BY <1>3, <1>4, <1>5 DEF GenerationsIdentify

(* The generations identify executions in every reachable state.            *)
THEOREM GenerationsIdentifyHolds == Spec => []GenerationsIdentify
<1>1. Init => GenerationsIdentify
  BY DEF Init, GenerationsIdentify, IdleLoop
<1> QED
  BY <1>1, NextGenerations, QueueTypeCorrect, PTL DEF Spec

(* Two loops never both pass the fence of a row.                            *)
LEMMA GenerationsGiveOneOwner ==
  TypeOK /\ GenerationsIdentify => OneOwner
<1> SUFFICES ASSUME TypeOK, GenerationsIdentify,
                    NEW l \in Loops, NEW m \in Loops, NEW j \in Jobs, Owns(l, j), Owns(m, j)
             PROVE  l = m
  BY DEF OneOwner
<1>1. loop[l].job = j /\ loop[m].job = j /\ loop[l].gen = loop[m].gen
  BY DEF Owns
<1>2. loop[l].pc # "idle" /\ loop[m].pc # "idle"
  BY <1>1, QueueAssumption DEF QueueAssumption, GenerationsIdentify
<1> QED
  BY <1>1, <1>2 DEF GenerationsIdentify

(* Mutual exclusion of the job lease, for any number of loops per worker_id. *)
THEOREM OneOwnerHolds == Spec => []OneOwner
  BY GenerationsGiveOneOwner, QueueTypeCorrect, GenerationsIdentifyHolds, PTL

-----------------------------------------------------------------------------
(* While a loop holds a live lease, only its own step takes the row away.    *)
LEMMA LeaseHonouredByNext ==
  ASSUME TypeOK, OneOwner, GenerationsIdentify, Next
  PROVE  LeaseHonouredStep
<1> SUFFICES ASSUME NEW l \in Loops, NEW j \in Jobs, Owns(l, j),
                    \/ job'[j].status \in {"pending", "dead_letter"}
                    \/ job'[j].gen # job[j].gen,
                    loop'[l] = loop[l]
             PROVE  FALSE
  BY DEF LeaseHonouredStep
<1> USE QueueAssumption DEF QueueAssumption
<1>0. /\ loop[l].job = j /\ loop[l] # IdleLoop
      /\ job[j].status = "claimed" /\ job[j].lease > 0
      /\ job[j] \in Row
  BY DEF Owns, IdleLoop, TypeOK
<1>1. ASSUME NEW k \in Jobs, RowStep(k) PROVE FALSE
  <2>1. CASE k # j
    BY <1>1, <2>1, <1>0 DEF RowStep, Enqueue, Withdraw, CancelWatch, LeaseTick, BecomesDue,
                            DeadLetterAges, TypeOK
  <2>2. CASE k = j
    <3>1. job'[j] \in {Withdrawn(job[j]), Completed(job[j]), Ticked(job[j])}
      BY <1>1, <2>2, <1>0 DEF RowStep, Enqueue, Withdraw, CancelWatch, LeaseTick, BecomesDue,
                              DeadLetterAges, TypeOK
    <3> QED
      BY <1>0, <3>1 DEF Withdrawn, Completed, Ticked, Row
  <2> QED
    BY <2>1, <2>2
<1>2. ASSUME NEW m \in Loops, LoopStep(m) PROVE FALSE
  <2>1. CASE \E k \in Jobs : Claim(m, k)
    BY <2>1, <1>0 DEF Claim, Claimable, TypeOK
  <2>2. CASE m # l
    <3>1. loop[m].job # j \/ ~ Owns(m, j)
      BY <2>2 DEF OneOwner
    <3> QED
      BY <1>2, <2>1, <3>1, <1>0
         DEF LoopStep, Start, Handback, Heartbeat, HeartbeatThrows, HandlerReturns,
             CompleteThrows, FinalizerCompletes, HandlerReschedules, HandlerThrows,
             FailAfterComplete, FailJob, TypeOK, Owns
  <2>3. CASE m = l
    <3>1. CASE Start(l) \/ HeartbeatThrows(l)
      BY <3>1, <1>0 DEF Start, HeartbeatThrows
    <3>2. CASE Heartbeat(l)
      <4>1. job'[j] = Renewed(job[j])
        BY <3>2, <1>0 DEF Heartbeat, TypeOK
      <4> QED
        BY <1>0, <4>1 DEF Renewed, Row
    <3>3. CASE CompleteThrows(l)
      <4>1. job'[j] = Completed(job[j]) \/ job'[j] = job[j]
        BY <3>3, <1>0 DEF CompleteThrows, TypeOK
      <4> QED
        BY <1>0, <4>1 DEF Completed, Row
    <3>4. CASE \/ Handback(l) \/ HandlerReturns(l) \/ FinalizerCompletes(l)
               \/ HandlerReschedules(l) \/ HandlerThrows(l) \/ FailAfterComplete(l)
      BY <3>4, <1>0 DEF Handback, HandlerReturns, FinalizerCompletes, HandlerReschedules,
                        HandlerThrows, FailAfterComplete, FailJob, TypeOK
    <3> QED
      BY <1>2, <2>1, <2>3, <3>1, <3>2, <3>3, <3>4 DEF LoopStep
  <2> QED
    BY <2>2, <2>3
<1>3. ASSUME NEW t, RequeueDeadLetters(t) PROVE FALSE
  BY <1>0, <1>3 DEF RequeueDeadLetters, DueDeadLetters
<1>4. ASSUME NEW p \in Procs, ProcStep(p) PROVE FALSE
  <2>1. CASE ReapCommit(p)
    <3>1. ~ Reapable(j)
      BY <1>0 DEF Reapable, LeaseExpired
    <3>2. job'[j] = job[j]
      BY <2>1, <3>1 DEF ReapCommit
    <3> QED
      BY <1>0, <3>2
  <2>2. CASE ReapSelect(p) \/ Stop(p) \/ Exit(p)
    BY <1>0, <2>2 DEF ReapSelect, Stop, Exit
  <2>3. CASE Boot(p)
    BY <1>3, <2>3 DEF Boot
  <2> QED
    BY <1>4, <2>1, <2>2, <2>3 DEF ProcStep
<1> QED
  BY <1>1, <1>2, <1>3, <1>4 DEF Next, RequeueInterval

(* A live lease is honoured by stale loops, slow reapers and re-runs.       *)
THEOREM LeaseHonouredHolds == Spec => LeaseHonoured
<1>1. TypeOK /\ OneOwner /\ GenerationsIdentify /\ [Next]_vars => [LeaseHonouredStep]_vars
  BY LeaseHonouredByNext
<1> QED
  BY <1>1, QueueTypeCorrect, OneOwnerHolds, GenerationsIdentifyHolds, PTL
     DEF Spec, LeaseHonoured

-----------------------------------------------------------------------------
(* A lease that is live after a statement other than a claim was live before. *)
LEMMA OtherMovesReviveNothing ==
  ASSUME NEW row \in Row, NEW new, OtherMoves(row, new), new.status = "claimed", new.lease > 0
  PROVE  row.status = "claimed" /\ row.lease > 0
<1> USE DEF Row, Active
<1>1. ASSUME NEW b \in BOOLEAN, new = Inserted(row, b) \/ new = Rescheduled(row, b) PROVE FALSE
  BY <1>1 DEF Inserted, Rescheduled
<1>2. ASSUME NEW e \in BOOLEAN, NEW c \in Classes, new = Failed(row, e, c) PROVE FALSE
  BY <1>2 DEF Failed
<1>3. ASSUME new = Completed(row) \/ new = Withdrawn(row) \/ new = Requeued(row) PROVE FALSE
  BY <1>3 DEF Completed, Withdrawn, Requeued
<1>4. ASSUME \/ row.status = "pending" /\ new = MadeDue(row)
             \/ row.status = "dead_letter" /\ new = Aged(row)
      PROVE  FALSE
  BY <1>4 DEF MadeDue, Aged
<1> HIDE DEF Row
<1> QED
  BY <1>1, <1>2, <1>3, <1>4 DEF OtherMoves

(* No step takes a lane over its cap.                                       *)
LEMMA NextLaneCaps == TypeOK /\ LaneCaps /\ [Next]_vars => LaneCaps'
<1> SUFFICES ASSUME TypeOK, LaneCaps, [Next]_vars, NEW t \in CappedTypes
             PROVE  Cardinality(LiveLeases(t)') <= Cap[t]
  BY DEF LaneCaps
<1> USE QueueAssumption DEF QueueAssumption
<1>1. /\ IsFiniteSet(LiveLeases(t)) /\ Cardinality(LiveLeases(t)) \in Nat
      /\ Cardinality(LiveLeases(t)) <= Cap[t] /\ Cap[t] \in Nat
  <2>1. LiveLeases(t) \subseteq Jobs
    BY DEF LiveLeases
  <2>2. IsFiniteSet(LiveLeases(t))
    BY <2>1, FS_Subset
  <2> QED
    BY <2>2, FS_CardinalityType DEF LaneCaps
<1>2. CASE LiveLeases(t)' \subseteq LiveLeases(t)
  <2>1. /\ Cardinality(LiveLeases(t)') <= Cardinality(LiveLeases(t))
        /\ Cardinality(LiveLeases(t)') \in Nat
    BY <1>1, <1>2, FS_Subset, FS_CardinalityType
  <2> QED
    BY <1>1, <2>1
<1>3. ASSUME NEW l \in Loops, NEW j \in Jobs, Claim(l, j), JobType[j] = t
      PROVE  Cardinality(LiveLeases(t)') <= Cap[t]
  <2>1. Cardinality(LiveLeases(t)) < Cap[t]
    BY <1>3 DEF Claim, Claimable, UnderCap
  <2>2. LiveLeases(t)' \subseteq LiveLeases(t) \cup {j}
    BY <1>3 DEF Claim, LiveLeases, TypeOK
  <2>3. /\ IsFiniteSet(LiveLeases(t) \cup {j})
        /\ Cardinality(LiveLeases(t) \cup {j}) <= Cardinality(LiveLeases(t)) + 1
        /\ Cardinality(LiveLeases(t) \cup {j}) \in Nat
    <3>1. /\ IsFiniteSet(LiveLeases(t) \cup {j})
          /\ \/ Cardinality(LiveLeases(t) \cup {j}) = Cardinality(LiveLeases(t))
             \/ Cardinality(LiveLeases(t) \cup {j}) = Cardinality(LiveLeases(t)) + 1
      BY <1>1, FS_AddElement
    <3> QED
      BY <1>1, <3>1
  <2>4. /\ Cardinality(LiveLeases(t)') <= Cardinality(LiveLeases(t) \cup {j})
        /\ Cardinality(LiveLeases(t)') \in Nat
    BY <2>2, <2>3, FS_Subset, FS_CardinalityType
  <2> QED
    BY <1>1, <2>1, <2>3, <2>4
<1>4. ASSUME NEW l \in Loops, NEW j \in Jobs, Claim(l, j), JobType[j] # t
      PROVE  LiveLeases(t)' \subseteq LiveLeases(t)
  BY <1>4 DEF Claim, LiveLeases, TypeOK
<1>5. ASSUME \A l \in Loops : \A j \in Jobs : ~ Claim(l, j)
      PROVE  LiveLeases(t)' \subseteq LiveLeases(t)
  <2>1. \A k \in Jobs : OtherMoves(job[k], job'[k]) /\ job[k] \in Row
    BY <1>5, StepMovesOrClaims DEF TypeOK
  <2> QED
    BY <2>1, OtherMovesReviveNothing DEF LiveLeases
<1> QED
  BY <1>2, <1>3, <1>4, <1>5

(* A capped lane never exceeds its cap, for any cap and any number of rows.  *)
THEOREM LaneCapsHold == Spec => []LaneCaps
<1>1. Init => LaneCaps
  <2> SUFFICES ASSUME Init, NEW t \in CappedTypes PROVE Cardinality(LiveLeases(t)) <= Cap[t]
    BY DEF LaneCaps
  <2>1. LiveLeases(t) = {}
    BY DEF Init, LiveLeases, AbsentRow
  <2> QED
    BY <2>1, FS_EmptySet, QueueAssumption DEF QueueAssumption
<1> QED
  BY <1>1, NextLaneCaps, QueueTypeCorrect, PTL DEF Spec

-----------------------------------------------------------------------------
(***************************************************************************)
(* The rows, loops, reapers and processes of JobQueue implement            *)
(* AbstractQueue.  The argument is one lemma on who holds a row after a     *)
(* step, and one step of the abstract queue for every thing a statement can *)
(* do to a row.                                                             *)
(***************************************************************************)
(* Who passes a fence after a step that is not a claim of the row passed it  *)
(* before.                                                                  *)
LEMMA NoNewOwner ==
  ASSUME TypeOK, GenerationsIdentify, [Next]_vars, NEW k \in Jobs, NEW m \in Loops,
         ~ \E l \in Loops : Claim(l, k), Owns(m, k)'
  PROVE  Owns(m, k)
<1> USE QueueAssumption DEF QueueAssumption
<1>1. OtherMoves(job[k], job'[k])
  BY StepMovesOrClaims
<1>2. /\ job[k] \in Row /\ job'[k] \in Row /\ loop[m] \in LoopState /\ loop'[m] \in LoopState
  BY NextType DEF TypeOK
<1>3. /\ loop'[m].job = k /\ job'[k].status = "claimed" /\ job'[k].worker = ProcOf[m]
      /\ job'[k].gen = loop'[m].gen /\ job'[k].lease > 0
  BY DEF Owns
<1>4. job[k].status = "claimed" /\ job[k].lease > 0
  BY <1>1, <1>2, <1>3, OtherMovesReviveNothing
<1>5. job'[k].gen = job[k].gen /\ job'[k].worker = job[k].worker
  <2>1. job'[k] = job[k] \/ job'[k] = Renewed(job[k]) \/ job'[k] = Ticked(job[k])
    BY <1>1, <1>2, <1>3, <1>4
       DEF OtherMoves, Completed, Withdrawn, Failed, Rescheduled, Requeued, Row, Active
  <2> QED
    BY <1>2, <2>1 DEF Renewed, Ticked, Row
<1>6. loop'[m].job = loop[m].job /\ loop'[m].gen = loop[m].gen
  <2>1. LoopMoves(m)
    BY StepMovesLoops
  <2>2. loop'[m] # IdleLoop
    BY <1>3 DEF IdleLoop
  <2>3. ASSUME NEW j \in Jobs, job'[j] = Claimed(job[j], ProcOf[m]),
               loop'[m] = [pc |-> "got", job |-> j, gen |-> job[j].gen + 1, aborted |-> FALSE]
        PROVE  FALSE
    <3>1. j = k
      BY <1>3, <2>3
    <3>2. job'[k].gen = job[k].gen + 1
      BY <1>2, <2>3, <3>1 DEF Claimed, Row
    <3> QED
      BY <1>2, <1>5, <3>2 DEF Row
  <2> QED
    BY <2>1, <2>2, <2>3 DEF LoopMoves
<1> QED
  BY <1>3, <1>4, <1>5, <1>6 DEF Owns

(* HolderOf names the loop that passes the fence, and nobody otherwise.     *)
LEMMA HolderIsOwner ==
  ASSUME OneOwner, NEW k \in Jobs
  PROVE  /\ HolderOf(k) \in Loops \cup {NoWorker}
         /\ \A l \in Loops : Owns(l, k) => HolderOf(k) = l
         /\ HolderOf(k) # NoWorker => HolderOf(k) \in Loops /\ Owns(HolderOf(k), k)
<1>1. CASE \E l \in Loops : Owns(l, k)
  <2>1. HolderOf(k) \in Loops /\ Owns(HolderOf(k), k)
    BY <1>1 DEF HolderOf
  <2> QED
    BY <2>1 DEF OneOwner
<1>2. CASE ~ \E l \in Loops : Owns(l, k)
  BY <1>2 DEF HolderOf
<1> QED
  BY <1>1, <1>2

Held(k) == \E l \in Loops : Owns(l, k)

CalledOff(k) == JobType[k] \in WithdrawableTypes \cup {"ci_watch"}

(* What a step may do to a row, with who may do it: only a holder completes, *)
(* hands back or exhausts a row, unless the row is called off.              *)
ServedMoves(k) ==
  \/ /\ job'[k].status = job[k].status /\ job'[k].gen = job[k].gen
     /\ job'[k].attempts = job[k].attempts /\ job'[k].requeues = job[k].requeues
     /\ job'[k].reschedules = job[k].reschedules
  \/ job[k].status = "absent" /\ \E due \in BOOLEAN : job'[k] = Inserted(job[k], due)
  \/ job[k].status = "claimed" /\ Held(k) /\ job'[k] = Completed(job[k])
  \/ /\ job[k].status \in Active /\ CalledOff(k)
     /\ job'[k] = Completed(job[k]) \/ job'[k] = Withdrawn(job[k])
  \/ /\ job[k].status = "claimed"
     /\ \E e \in BOOLEAN : \E c \in Classes :
          (e => Held(k)) /\ job'[k] = Failed(job[k], e, c)
  \/ job[k].status = "claimed" /\ Held(k) /\ \E due \in BOOLEAN : job'[k] = Rescheduled(job[k], due)
  \/ job[k].status = "dead_letter" /\ job[k].requeues < MaxRequeues /\ job'[k] = Requeued(job[k])

LEMMA StepServes ==
  ASSUME TypeOK, [Next]_vars, NEW k \in Jobs
  PROVE  ServedMoves(k) \/ \E l \in Loops : Claim(l, k)
<1> USE QueueAssumption DEF QueueAssumption, TypeOK
<1>0. job'[k] = job[k] => ServedMoves(k)
  BY DEF ServedMoves
<1>1. ASSUME NEW j \in Jobs, RowStep(j) PROVE ServedMoves(k)
  <2>1. CASE j # k
    BY <1>0, <1>1, <2>1 DEF RowStep, Enqueue, Withdraw, CancelWatch, LeaseTick, BecomesDue,
                            DeadLetterAges
  <2>2. CASE j = k
    <3>1. CASE Enqueue(k) \/ Withdraw(k) \/ CancelWatch(k)
      BY <3>1 DEF ServedMoves, Enqueue, Withdraw, CancelWatch, CalledOff
    <3>2. CASE LeaseTick(k)
      BY <3>2 DEF ServedMoves, LeaseTick, Ticked, Row
    <3>3. CASE BecomesDue(k)
      BY <3>3 DEF ServedMoves, BecomesDue, MadeDue, Row
    <3>4. CASE DeadLetterAges(k)
      BY <3>4 DEF ServedMoves, DeadLetterAges, Aged, Row
    <3> QED
      BY <1>1, <2>2, <3>1, <3>2, <3>3, <3>4 DEF RowStep
  <2> QED
    BY <2>1, <2>2
<1>2. ASSUME NEW l \in Loops, LoopStep(l)
      PROVE  ServedMoves(k) \/ Claim(l, k)
  <2>1. ASSUME NEW i \in Jobs, Claim(l, i), i # k PROVE job'[k] = job[k]
    BY <2>1 DEF Claim
  <2>2. ASSUME Owns(l, loop[l].job) PROVE loop[l].job = k => Held(k) /\ job[k].status = "claimed"
    BY <2>2 DEF Owns, Held
  <2>3. CASE Start(l) \/ HeartbeatThrows(l)
    BY <1>0, <2>3 DEF Start, HeartbeatThrows
  <2>4. CASE Handback(l) \/ HandlerReschedules(l)
    BY <1>0, <2>2, <2>4 DEF ServedMoves, Handback, HandlerReschedules
  <2>5. CASE Heartbeat(l)
    <3>1. job'[k] = job[k] \/ job'[k] = Renewed(job[k])
      BY <2>5 DEF Heartbeat
    <3> QED
      BY <1>0, <3>1 DEF ServedMoves, Renewed, Row
  <2>6. CASE HandlerReturns(l) \/ CompleteThrows(l) \/ FinalizerCompletes(l)
    BY <1>0, <2>2, <2>6 DEF ServedMoves, HandlerReturns, CompleteThrows, FinalizerCompletes
  <2>7. ASSUME NEW e \in BOOLEAN, NEW c \in Classes, FailJob(l, e, c) PROVE ServedMoves(k)
    BY <1>0, <2>2, <2>7 DEF ServedMoves, FailJob
  <2>8. CASE HandlerThrows(l) \/ FailAfterComplete(l)
    BY <2>7, <2>8 DEF HandlerThrows, FailAfterComplete, Classes
  <2> QED
    BY <1>0, <1>2, <2>1, <2>3, <2>4, <2>5, <2>6, <2>8 DEF LoopStep
<1>3. ASSUME NEW t, RequeueDeadLetters(t) PROVE ServedMoves(k)
  BY <1>0, <1>3 DEF ServedMoves, RequeueDeadLetters, DueDeadLetters
<1>4. ASSUME NEW p \in Procs, ProcStep(p) PROVE ServedMoves(k)
  <2>1. CASE ReapCommit(p)
    BY <1>0, <2>1 DEF ServedMoves, ReapCommit, Reapable, LeaseExpired, Classes
  <2>2. CASE ReapSelect(p) \/ Stop(p) \/ Exit(p)
    BY <1>0, <2>2 DEF ReapSelect, Stop, Exit
  <2>3. CASE Boot(p)
    BY <2>3, <1>3 DEF Boot
  <2> QED
    BY <1>4, <2>1, <2>2, <2>3 DEF ProcStep
<1>5. CASE RequeueInterval
  BY <1>5, <1>3 DEF RequeueInterval
<1>6. CASE UNCHANGED vars
  BY <1>0, <1>6 DEF vars
<1> QED
  BY <1>1, <1>2, <1>4, <1>5, <1>6 DEF Next

(* The holder of a row after a step that does not claim it is its holder     *)
(* before, or nobody.                                                       *)
LEMMA HolderStaysOrGoes ==
  ASSUME TypeOK, GenerationsIdentify, OneOwner, OneOwner', [Next]_vars, NEW k \in Jobs,
         ~ \E l \in Loops : Claim(l, k)
  PROVE  HolderOf(k)' = HolderOf(k) \/ HolderOf(k)' = NoWorker
<1>1. CASE \E m \in Loops : Owns(m, k)'
  <2> PICK m \in Loops : Owns(m, k)'
    BY <1>1
  <2>1. Owns(m, k)
    BY NoNewOwner
  <2>2. HolderOf(k) = m
    BY <2>1, HolderIsOwner
  <2>3. HolderOf(k)' = m
    BY DEF HolderOf, OneOwner
  <2> QED
    BY <2>2, <2>3
<1>2. CASE ~ \E m \in Loops : Owns(m, k)'
  BY <1>2 DEF HolderOf
<1> QED
  BY <1>1, <1>2

(* A row that is not held after the step has no holder.                      *)
LEMMA NotClaimedNotHeld ==
  ASSUME NEW k \in Jobs
  PROVE  /\ job[k].status # "claimed" => HolderOf(k) = NoWorker
         /\ job'[k].status # "claimed" => HolderOf(k)' = NoWorker
<1>1. job[k].status # "claimed" => HolderOf(k) = NoWorker
  BY DEF HolderOf, Owns
<1>2. job'[k].status # "claimed" => HolderOf(k)' = NoWorker
  BY DEF HolderOf, Owns
<1> QED
  BY <1>1, <1>2

(* A task as the abstract queue writes it.                                   *)
Task(phase, holder, granted, charged, returned, revived) ==
  [phase |-> phase, holder |-> holder, granted |-> granted, charged |-> charged,
   returned |-> returned, revived |-> revived]

(* The steps of the abstract queue, written with Task.                       *)
LEMMA TaskSettles ==
  ASSUME NEW h, NEW g, NEW a, NEW r, NEW q, h # NoWorker
  PROVE  Abstract!Settle(Task("running", h, g, a, r, q), Task("settled", NoWorker, g, a, r, q))
<1>1. ASSUME NEW u, u = [Task("running", h, g, a, r, q) EXCEPT !.phase = "settled", !.holder = NoWorker]
      PROVE  u = Task("settled", NoWorker, g, a, r, q)
  BY <1>1 DEF Task
<1>2. Task("running", h, g, a, r, q).phase = "running" /\ Task("running", h, g, a, r, q).holder = h
  BY DEF Task
<1> QED
  BY <1>1, <1>2, Zenon DEF Abstract!Settle

LEMMA TaskCancels ==
  ASSUME NEW h, NEW g, NEW a, NEW r, NEW q, NEW p \in {"waiting", "running"}
  PROVE  Abstract!Cancel(Task(p, h, g, a, r, q), Task("settled", NoWorker, g, a, r, q))
<1>1. ASSUME NEW u, u = [Task(p, h, g, a, r, q) EXCEPT !.phase = "settled", !.holder = NoWorker]
      PROVE  u = Task("settled", NoWorker, g, a, r, q)
  BY <1>1 DEF Task
<1>2. Task(p, h, g, a, r, q).phase = p /\ Task(p, h, g, a, r, q).holder = h
  BY DEF Task
<1> QED
  BY <1>1, <1>2, Zenon DEF Abstract!Cancel

LEMMA TaskReturns ==
  ASSUME NEW h, NEW g, NEW a, NEW r, NEW q, h # NoWorker
  PROVE  Abstract!Return(Task("running", h, g, a, r, q), Task("waiting", NoWorker, g, a, r + 1, q))
<1>1. ASSUME NEW u, u = [Task("running", h, g, a, r, q) EXCEPT !.phase = "waiting", !.holder = NoWorker, !.returned = @ + 1]
      PROVE  u = Task("waiting", NoWorker, g, a, r + 1, q)
  BY <1>1 DEF Task
<1>2. Task("running", h, g, a, r, q).phase = "running" /\ Task("running", h, g, a, r, q).holder = h
  BY DEF Task
<1> QED
  BY <1>1, <1>2, Zenon DEF Abstract!Return

LEMMA TaskCharged ==
  ASSUME NEW h, NEW g, NEW a, NEW r, NEW q, NEW next \in {"waiting", "parked"},
         next = "waiting" => a + 1 < MaxAttempts,
         next = "parked" => a + 1 >= MaxAttempts \/ h # NoWorker
  PROVE  Abstract!Charge(Task("running", h, g, a, r, q), Task(next, NoWorker, g, a + 1, r, q))
<1>1. ASSUME NEW u, u = [Task("running", h, g, a, r, q) EXCEPT !.phase = next, !.holder = NoWorker, !.charged = @ + 1]
      PROVE  u = Task(next, NoWorker, g, a + 1, r, q)
  BY <1>1 DEF Task
<1>2. /\ Task("running", h, g, a, r, q).phase = "running" /\ Task("running", h, g, a, r, q).holder = h
      /\ Task("running", h, g, a, r, q).charged = a
  BY DEF Task
<1> QED
  BY <1>1, <1>2, Zenon DEF Abstract!Charge

LEMMA TaskRevived ==
  ASSUME NEW h, NEW g, NEW a, NEW r, NEW q, q < MaxRequeues
  PROVE  Abstract!Revive(Task("parked", h, g, a, r, q), Task("waiting", h, g, a, r, q + 1))
<1>1. ASSUME NEW u, u = [Task("parked", h, g, a, r, q) EXCEPT !.phase = "waiting", !.revived = @ + 1]
      PROVE  u = Task("waiting", h, g, a, r, q + 1)
  BY <1>1 DEF Task
<1>2. Task("parked", h, g, a, r, q).phase = "parked" /\ Task("parked", h, g, a, r, q).revived = q
  BY DEF Task
<1> QED
  BY <1>1, <1>2, Zenon DEF Abstract!Revive

LEMMA TaskGranted ==
  ASSUME NEW h, NEW g, NEW a, NEW r, NEW q, NEW n \in Loops \cup {NoWorker}
  PROVE  Abstract!Grant(Task("waiting", h, g, a, r, q), Task("running", n, g + 1, a, r, q))
<1>1. ASSUME NEW u, u = [Task("waiting", h, g, a, r, q) EXCEPT !.phase = "running", !.holder = n, !.granted = @ + 1]
      PROVE  u = Task("running", n, g + 1, a, r, q)
  BY <1>1 DEF Task
<1>2. Task("waiting", h, g, a, r, q).phase = "waiting"
  BY DEF Task
<1> QED
  BY <1>1, <1>2, Zenon DEF Abstract!Grant

LEMMA Phases ==
  /\ PhaseOf("absent") = "none" /\ PhaseOf("pending") = "waiting"
  /\ PhaseOf("claimed") = "running" /\ PhaseOf("dead_letter") = "parked"
  /\ PhaseOf("completed") = "settled" /\ PhaseOf("failed") = "settled"
  BY DEF PhaseOf

(* Every step of the queue is, for every row, no step or a step of its task. *)
LEMMA TaskSteps ==
  ASSUME TypeOK, TypeOK', GenerationsIdentify, OneOwner, OneOwner', [Next]_vars, NEW k \in Jobs,
         ~ \E l \in Loops : Claim(l, k)
  PROVE  TaskOf(k)' = TaskOf(k) \/ Abstract!JobStep(k, TaskOf(k), TaskOf(k)')
<1> USE QueueAssumption DEF QueueAssumption
<1>1. job[k] \in Row /\ job'[k] \in Row
  BY DEF TypeOK
<1>2. ServedMoves(k)
  BY StepServes
<1>3. HolderOf(k)' = HolderOf(k) \/ HolderOf(k)' = NoWorker
  BY HolderStaysOrGoes
<1>4. /\ job[k].status # "claimed" => HolderOf(k) = NoWorker
      /\ job'[k].status # "claimed" => HolderOf(k)' = NoWorker
  BY NotClaimedNotHeld
<1>5. Held(k) => HolderOf(k) # NoWorker
  BY HolderIsOwner DEF Held
<1> DEFINE h == HolderOf(k)  g == job[k].gen  a == job[k].attempts
           r == job[k].reschedules  q == job[k].requeues
<1>6. /\ TaskOf(k) = Task(PhaseOf(job[k].status), h, g, a, r, q)
      /\ TaskOf(k)' = Task(PhaseOf(job'[k].status), HolderOf(k)', job'[k].gen, job'[k].attempts,
                           job'[k].reschedules, job'[k].requeues)
  BY DEF TaskOf, PhaseOf, Task
<1>7. CASE /\ job'[k].status = job[k].status /\ job'[k].gen = g
           /\ job'[k].attempts = a /\ job'[k].requeues = q /\ job'[k].reschedules = r
  <2>1. CASE HolderOf(k)' = h
    BY <1>6, <1>7, <2>1
  <2>2. CASE HolderOf(k)' = NoWorker /\ job[k].status = "claimed"
    <3>1. TaskOf(k) = Task("running", h, g, a, r, q) /\ TaskOf(k)' = Task("running", NoWorker, g, a, r, q)
      BY <1>6, <1>7, <2>2, Phases
    <3> QED
      BY <3>1 DEF Task, Abstract!JobStep, Abstract!Lose
  <2> QED
    BY <1>3, <1>4, <2>1, <2>2
<1>8. ASSUME job[k].status = "absent", NEW due \in BOOLEAN, job'[k] = Inserted(job[k], due)
      PROVE  Abstract!JobStep(k, TaskOf(k), TaskOf(k)')
  <2>1. /\ job'[k].status = "pending" /\ job'[k].gen = g /\ job'[k].attempts = a
        /\ job'[k].requeues = q /\ job'[k].reschedules = r
    BY <1>1, <1>8 DEF Inserted, Row
  <2>2. TaskOf(k) = Task("none", NoWorker, g, a, r, q) /\ TaskOf(k)' = Task("waiting", NoWorker, g, a, r, q)
    BY <1>4, <1>6, <1>8, <2>1, Phases
  <2> QED
    BY <2>2 DEF Task, Abstract!JobStep, Abstract!Submit
<1>9. ASSUME job[k].status \in Active, (Held(k) /\ job[k].status = "claimed") \/ CalledOff(k),
             job'[k] = Completed(job[k]) \/ job'[k] = Withdrawn(job[k])
      PROVE  Abstract!JobStep(k, TaskOf(k), TaskOf(k)')
  <2>1. /\ job'[k].status \in {"completed", "failed"} /\ job'[k].gen = g /\ job'[k].attempts = a
        /\ job'[k].requeues = q /\ job'[k].reschedules = r
    BY <1>1, <1>9 DEF Completed, Withdrawn, Row
  <2>2. TaskOf(k)' = Task("settled", NoWorker, g, a, r, q)
    BY <1>4, <1>6, <2>1, Phases
  <2>3. CASE Held(k) /\ job[k].status = "claimed"
    <3>1. TaskOf(k) = Task("running", h, g, a, r, q)
      BY <1>6, <2>3, Phases
    <3> QED
      BY <1>5, <2>2, <2>3, <3>1, TaskSettles DEF Abstract!JobStep
  <2>4. CASE CalledOff(k)
    <3>1. PICK phase \in {"waiting", "running"} : TaskOf(k) = Task(phase, h, g, a, r, q)
      BY <1>6, <1>9, Phases DEF Active
    <3> QED
      BY <2>2, <2>4, <3>1, TaskCancels DEF CalledOff, Abstract!JobStep
  <2> QED
    BY <1>9, <2>3, <2>4
<1>10. ASSUME job[k].status = "claimed", NEW e \in BOOLEAN, NEW c \in Classes, e => Held(k),
              job'[k] = Failed(job[k], e, c)
       PROVE  Abstract!JobStep(k, TaskOf(k), TaskOf(k)')
  <2>1. /\ \/ job'[k].status = "pending" /\ a + 1 < MaxAttempts
           \/ job'[k].status = "dead_letter" /\ (a + 1 >= MaxAttempts \/ e)
        /\ job'[k].attempts = a + 1 /\ job'[k].gen = g
        /\ job'[k].requeues = q /\ job'[k].reschedules = r
    BY <1>1, <1>10 DEF Failed, Row
  <2>2. TaskOf(k) = Task("running", h, g, a, r, q)
    BY <1>6, <1>10, Phases
  <2>3. CASE job'[k].status = "pending"
    <3>1. TaskOf(k)' = Task("waiting", NoWorker, g, a + 1, r, q)
      BY <1>4, <1>6, <2>1, <2>3, Phases
    <3> QED
      BY <2>1, <2>2, <2>3, <3>1, TaskCharged DEF Abstract!JobStep
  <2>4. CASE job'[k].status = "dead_letter"
    <3>1. TaskOf(k)' = Task("parked", NoWorker, g, a + 1, r, q)
      BY <1>4, <1>6, <2>1, <2>4, Phases
    <3> QED
      BY <1>5, <1>10, <2>1, <2>2, <2>4, <3>1, TaskCharged DEF Abstract!JobStep
  <2> QED
    BY <2>1, <2>3, <2>4
<1>11. ASSUME job[k].status = "claimed", Held(k), NEW due \in BOOLEAN,
              job'[k] = Rescheduled(job[k], due)
       PROVE  Abstract!JobStep(k, TaskOf(k), TaskOf(k)')
  <2>1. /\ job'[k].status = "pending" /\ job'[k].gen = g /\ job'[k].attempts = a
        /\ job'[k].requeues = q /\ job'[k].reschedules = r + 1
    BY <1>1, <1>11 DEF Rescheduled, Row
  <2>2. /\ TaskOf(k) = Task("running", h, g, a, r, q)
        /\ TaskOf(k)' = Task("waiting", NoWorker, g, a, r + 1, q)
    BY <1>4, <1>6, <1>11, <2>1, Phases
  <2> QED
    BY <1>5, <1>11, <2>2, TaskReturns DEF Abstract!JobStep
<1>12. ASSUME job[k].status = "dead_letter", job[k].requeues < MaxRequeues,
              job'[k] = Requeued(job[k])
       PROVE  Abstract!JobStep(k, TaskOf(k), TaskOf(k)')
  <2>1. /\ job'[k].status = "pending" /\ job'[k].gen = g /\ job'[k].attempts = a
        /\ job'[k].requeues = q + 1 /\ job'[k].reschedules = r
    BY <1>1, <1>12 DEF Requeued, Row
  <2>2. /\ TaskOf(k) = Task("parked", NoWorker, g, a, r, q)
        /\ TaskOf(k)' = Task("waiting", NoWorker, g, a, r, q + 1)
    BY <1>4, <1>6, <1>12, <2>1, Phases
  <2> QED
    BY <1>12, <2>2, TaskRevived DEF Abstract!JobStep
<1> QED
  BY <1>2, <1>7, <1>8, <1>9, <1>10, <1>11, <1>12 DEF ServedMoves, Active

(* A claim is a grant, to the claiming loop or, if the answer is lost, to    *)
(* nobody; and there is no other grant.                                     *)
LEMMA ClaimGrants ==
  ASSUME TypeOK, OneOwner', NEW k \in Jobs, NEW l \in Loops, Claim(l, k)
  PROVE  Abstract!Grant(TaskOf(k), TaskOf(k)')
<1> USE QueueAssumption DEF QueueAssumption
<1>1. job[k] \in Row /\ job[k].status = "pending" /\ job'[k] = Claimed(job[k], ProcOf[l])
  BY DEF TypeOK, Claim, Claimable
<1>2. /\ job'[k].status = "claimed" /\ job'[k].gen = job[k].gen + 1
      /\ job'[k].attempts = job[k].attempts /\ job'[k].requeues = job[k].requeues
      /\ job'[k].reschedules = job[k].reschedules
  BY <1>1 DEF Claimed, Row
<1>3. HolderOf(k)' \in Loops \cup {NoWorker}
  BY DEF HolderOf
<1>4. /\ TaskOf(k) = Task("waiting", HolderOf(k), job[k].gen, job[k].attempts,
                          job[k].reschedules, job[k].requeues)
      /\ TaskOf(k)' = Task("running", HolderOf(k)', job[k].gen + 1, job[k].attempts,
                           job[k].reschedules, job[k].requeues)
  BY <1>1, <1>2, Phases DEF TaskOf, Task, PhaseOf
<1> QED
  BY <1>3, <1>4, TaskGranted

LEMMA GrantIsClaim ==
  ASSUME TypeOK, TypeOK', [Next]_vars, NEW k \in Jobs, Abstract!Grant(TaskOf(k), TaskOf(k)')
  PROVE  \E l \in Loops : Claim(l, k)
<1>1. job[k] \in Row /\ job'[k] \in Row
  BY DEF TypeOK
<1>2. TaskOf(k).phase = "waiting"
  BY DEF Abstract!Grant
<1>3. TaskOf(k)'.phase = "running"
  <2>1. PICK h \in Loops \cup {NoWorker} :
          TaskOf(k)' = [TaskOf(k) EXCEPT !.phase = "running", !.holder = h, !.granted = @ + 1]
    BY DEF Abstract!Grant
  <2> QED
    BY <2>1 DEF TaskOf
<1>4. job[k].status = "pending"
  BY <1>1, <1>2, Phases DEF TaskOf, Row, Active, Terminal
<1>5. TaskOf(k)'.phase = PhaseOf(job'[k].status)
  BY DEF TaskOf, PhaseOf
<1>6. job'[k].status = "claimed"
  BY <1>1, <1>3, <1>5, Phases DEF Row, Active, Terminal
<1>7. ~ OtherMoves(job[k], job'[k])
  BY <1>1, <1>4, <1>6 DEF OtherMoves, Completed, Withdrawn, MadeDue, Row
<1> QED
  BY <1>7, StepMovesOrClaims

(* Every step of the queue is a step of the abstract queue, or none.         *)
LEMMA QueueStepImplements ==
  ASSUME TypeOK, TypeOK', GenerationsIdentify, OneOwner, OneOwner', [Next]_vars
  PROVE  Abstract!Next
<1>1. ASSUME NEW k \in Jobs PROVE TaskOf(k)' = TaskOf(k) \/ Abstract!JobStep(k, TaskOf(k), TaskOf(k)')
  <2>1. CASE \E l \in Loops : Claim(l, k)
    BY <2>1, ClaimGrants DEF Abstract!JobStep
  <2>2. CASE ~ \E l \in Loops : Claim(l, k)
    BY <2>2, TaskSteps
  <2> QED
    BY <2>1, <2>2
<1>2. ASSUME NEW j \in Jobs, NEW k \in Jobs, j # k,
             Abstract!Grant(TaskOf(j), TaskOf(j)'), Abstract!Grant(TaskOf(k), TaskOf(k)')
      PROVE  FALSE
  <2>1. PICK l \in Loops : Claim(l, j)
    BY <1>2, GrantIsClaim
  <2>2. PICK m \in Loops : Claim(m, k)
    BY <1>2, GrantIsClaim
  <2>3. job'[k] = job[k]
    BY <1>2, <2>1 DEF Claim, TypeOK
  <2>4. job[k].status = "pending" /\ job'[k].status = "claimed"
    BY <2>2 DEF Claim, Claimable, Claimed, TypeOK, Row
  <2> QED
    BY <2>3, <2>4
<1> DEFINE task == [j \in Jobs |-> TaskOf(j)]
<1>3. \A k \in Jobs : task[k] = TaskOf(k)
  OBVIOUS
<1>4. \A k \in Jobs : task'[k] = TaskOf(k)'
  OBVIOUS
<1>5. DOMAIN task' = Jobs
  OBVIOUS
<1>6. \A k \in Jobs : task'[k] # task[k] => Abstract!JobStep(k, task[k], task'[k])
  BY <1>1, <1>3, <1>4
<1>7. \A j, k \in Jobs : Abstract!Grant(task[j], task'[j]) /\ Abstract!Grant(task[k], task'[k]) => j = k
  BY <1>2, <1>3, <1>4
<1> QED
  BY <1>5, <1>6, <1>7 DEF Abstract!Next

(* The job queue implements the abstract queue: for every number of jobs,   *)
(* loops and processes, no crash, lost answer, lapsed lease, stale loop or  *)
(* slow reaper grants an execution twice, gives a lost one back, settles a  *)
(* job without its holder (unless it is called off) or leaves an execution  *)
(* uncharged.                                                               *)
THEOREM QueueRefinement == Spec => ImplementsQueue
<1>1. Init => Abstract!Init
  <2> SUFFICES ASSUME Init, NEW j \in Jobs PROVE TaskOf(j) = Abstract!NewTask
    BY DEF Abstract!Init
  <2>1. job[j] = AbsentRow
    BY DEF Init
  <2>2. HolderOf(j) = NoWorker
    BY <2>1 DEF HolderOf, Owns, AbsentRow
  <2> QED
    BY <2>1, <2>2, Phases DEF TaskOf, AbsentRow, Abstract!NewTask
<1>2. TypeOK /\ TypeOK' /\ GenerationsIdentify /\ OneOwner /\ OneOwner' /\ [Next]_vars
        => Abstract!Next
  BY QueueStepImplements
<1> QED
  BY <1>1, <1>2, QueueTypeCorrect, GenerationsIdentifyHolds, OneOwnerHolds, PTL
     DEF Spec, ImplementsQueue, Abstract!Spec
=============================================================================
