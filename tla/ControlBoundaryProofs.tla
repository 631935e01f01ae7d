------------------------ MODULE ControlBoundaryProofs ------------------------
(* Theorems about ControlBoundary, for any number of task threads, waves   *)
(* and commands: the types and the shape of the control queue, and what    *)
(* the waves of task threads keep.                                         *)
EXTENDS ControlBoundary, ControlQueueProofs

\* A thread that handles a request holds a request of the queue; only a speed
\* change writes the policy, and only it and steering have an effect besides
\* their decision.
HeldInv ==
  \A t \in Threads :
     /\ pc[t] \in {"act", "speed-write", "decide"} =>
          held[t] \in 1..Len(control.requests)
     /\ pc[t] = "speed-write" => HeldRequest(t).kind = "speed-change"
     /\ pc[t] = "decide" => HeldRequest(t).kind \in {"speed-change", "steer"}

\* Types, and the shape of the control queue.
TypeInv == TypeOK /\ QueueInv(control) /\ HeldInv

\* The queue a resumed engine may find.
LEMMA CancelledBeforeInv ==
  /\ QueueInv(CancelledBefore)
  /\ Len(CancelledBefore.requests) = 2
  /\ CancelledBefore.requests[1].kind = "cancel"
  /\ CancelledBefore.requests[2].kind = "resume"
  /\ ~IsPending(CancelledBefore.requests[1])
<1> DEFINE cancel == [kind |-> "cancel", mode |-> "none",
                      boundary |-> "immediate"]
           resume == [kind |-> "resume", mode |-> "none", boundary |-> "safe"]
           one == Enqueue(EmptyQueue, cancel)
           two == Enqueue(one, resume)
<1>1. cancel \in Commands /\ resume \in Commands
  BY DEF Commands, CONTROL_KINDS, Modes, Boundaries
<1>2. QueueInv(EmptyQueue) /\ Len(EmptyQueue.requests) = 0
  BY EmptyQueueInv DEF EmptyQueue
<1>3. ASSUME NEW q, QueueInv(q), NEW c \in Commands
      PROVE  /\ QueueInv(Enqueue(q, c))
             /\ Len(Enqueue(q, c).requests) = Len(q.requests) + 1
             /\ Enqueue(q, c).requests[Len(q.requests) + 1].kind = c.kind
             /\ \A i \in 1..Len(q.requests) :
                   Enqueue(q, c).requests[i].kind = q.requests[i].kind
  BY <1>3, EnqueueInv
<1>4. QueueInv(one) /\ Len(one.requests) = 1 /\ one.requests[1].kind = "cancel"
  <2>0. cancel.kind = "cancel"
    OBVIOUS
  <2> HIDE DEF cancel
  <2>1. /\ QueueInv(one) /\ Len(one.requests) = Len(EmptyQueue.requests) + 1
        /\ one.requests[Len(EmptyQueue.requests) + 1].kind = cancel.kind
    BY <1>3, <1>1, <1>2, Zenon
  <2> QED BY <1>2, <2>0, <2>1
<1>5. /\ QueueInv(two) /\ Len(two.requests) = 2
      /\ two.requests[1].kind = "cancel" /\ two.requests[2].kind = "resume"
  <2>0. resume.kind = "resume"
    OBVIOUS
  <2> HIDE DEF one, resume
  <2>1. /\ QueueInv(two) /\ Len(two.requests) = Len(one.requests) + 1
        /\ two.requests[Len(one.requests) + 1].kind = resume.kind
        /\ \A i \in 1..Len(one.requests) :
              two.requests[i].kind = one.requests[i].kind
    BY <1>3, <1>1, <1>4, Zenon
  <2> QED BY <1>4, <2>0, <2>1
<1>6. CancelledBefore = Complete(two, 1, "applied")
  BY DEF CancelledBefore
<1> HIDE DEF two
<1> QED BY <1>5, <1>6, CompleteInv DEF Decisions, IsPending

\* The types hold initially.
LEMMA InitType == Init => TypeInv
<1> SUFFICES ASSUME Init PROVE TypeInv
  OBVIOUS
<1>1. QueueInv(control) /\ QueueTypeOK(control)
  BY EmptyQueueInv, CancelledBeforeInv DEF Init, QueueInv
<1>2. TypeOK
  <2>1. steering \in Seq(Nat)
    BY EmptySeq DEF Init
  <2>2. /\ wave \in 1..Waves /\ reviewPass \in 1..2
        /\ tries \in [Workers -> 0..Retries]
    BY WavesAssumption, RetriesAssumption DEF Init
  <2>3. pc \in [Threads -> PCs] /\ status \in Statuses
    BY DEF Init, PCs, Statuses
  <2>4. held \in [Threads -> Nat] /\ base \in [Threads -> Nat]
    BY DEF Init
  <2>5. cancelRequested \in BOOLEAN
    BY Zenon DEF Init
  <2>6. planRevision \in Nat /\ planSaw \in Nat /\ revision \in Nat
    BY DEF Init
  <2> QED
    BY <1>1, <2>1, <2>2, <2>3, <2>4, <2>5, <2>6 DEF Init, TypeOK, Errors, Places
<1>3. HeldInv
  BY DEF Init, HeldInv
<1> QED BY <1>1, <1>2, <1>3 DEF TypeInv

\* A step of a command keeps the types.
LEMMA ClientType ==
  ASSUME TypeInv, NEW c \in Clients, ClientStep(c)
  PROVE  TypeInv'
<1> USE DEF TypeInv, TypeOK, HeldInv, HeldRequest, durable, threadVars,
            mainVars, extraVars
<1>1. CASE Check(c)
  BY <1>1 DEF Check
<1>2. CASE EnqueueCommand(c)
  <2>1. Cmd[c] \in Commands
    BY CmdAssumption DEF Command, Commands
  <2>2. /\ QueueInv(control') /\ QueueTypeOK(control')
        /\ Len(control'.requests) = Len(control.requests) + 1
        /\ \A i \in 1..Len(control.requests) :
              control'.requests[i].kind = control.requests[i].kind
    BY <1>2, <2>1, EnqueueInv DEF EnqueueCommand, QueueInv
  <2>3. Len(control.requests) \in Nat
    BY RequestsAreFunction
  <2>4. TypeOK'
    BY <1>2, <2>2 DEF EnqueueCommand
  <2>5. HeldInv'
    <3>1. pc' = pc /\ held' = held
      BY <1>2 DEF EnqueueCommand
    <3>2. 1..Len(control.requests) \subseteq 1..Len(control'.requests)
      BY <2>2, <2>3
    <3> QED BY <2>2, <3>1, <3>2
  <2> QED BY <2>2, <2>4, <2>5
<1>3. CASE RequestCancel(c)
  BY <1>3 DEF RequestCancel
<1> QED BY <1>1, <1>2, <1>3 DEF ClientStep

\* Completing the request in hand keeps the types.
LEMMA SettleType ==
  ASSUME TypeInv, NEW t \in Threads, NEW d \in Decisions,
         NEW place \in {"cancelling", "drain", "pausing", "resuming"},
         pc[t] \in {"act", "decide"}, Settle(t, d, place),
         replan' \in [Threads -> BOOLEAN]
  PROVE  TypeInv'
<1>1. held[t] \in 1..Len(control.requests)
  BY DEF TypeInv, HeldInv
<1>2. /\ QueueInv(control') /\ QueueTypeOK(control')
      /\ Len(control'.requests) = Len(control.requests)
      /\ \A i \in 1..Len(control.requests) :
            control'.requests[i].kind = control.requests[i].kind
  BY <1>1, CompleteInv DEF Settle, TypeInv, QueueInv
<1>3. TypeOK'
  BY <1>2 DEF Settle, Goto, TypeInv, TypeOK, PCs, mainVars, extraVars
<1>4. HeldInv'
  BY <1>2 DEF Settle, Goto, TypeInv, TypeOK, HeldInv, HeldRequest
<1> QED BY <1>2, <1>3, <1>4 DEF TypeInv

\* A step of a thread inside the engine keeps the types.
LEMMA ThreadType ==
  ASSUME TypeInv, NEW t \in Threads, ThreadStep(t)
  PROVE  TypeInv'
<1> USE DEF TypeInv, TypeOK, HeldInv, HeldRequest, Goto, Throw, durable,
            threadVars, mainVars, extraVars, PCs, Statuses, TERMINAL_STATES,
            Errors
<1>1. CASE ReadQueue(t)
  <2>1. First(control) \in 1..Len(control.requests)
    BY <1>1, FirstPending DEF ReadQueue
  <2> QED BY <1>1, <2>1 DEF ReadQueue
<1>2. CASE TakeCancel(t)
  <2>1. replan' \in [Threads -> BOOLEAN]
    BY <1>2 DEF TakeCancel
  <2> QED BY <1>2, <2>1, SettleType DEF TakeCancel, Holds, Decisions
<1>3. CASE ApplyCancel(t)
  BY <1>3 DEF ApplyCancel
<1>4. CASE TakePause(t)
  <2>1. replan' \in [Threads -> BOOLEAN]
    BY <1>4 DEF TakePause
  <2> QED BY <1>4, <2>1, SettleType DEF TakePause, Holds, Decisions
<1>5. CASE EnterPause(t)
  BY <1>5 DEF EnterPause
<1>6. CASE TakeResume(t)
  <2>1. replan' \in [Threads -> BOOLEAN]
    BY <1>6 DEF TakeResume
  <2> QED BY <1>6, <2>1, SettleType DEF TakeResume, Holds, Decisions
<1>7. CASE LeavePause(t)
  BY <1>7 DEF LeavePause
<1>8. CASE PauseTimeout(t)
  BY <1>8 DEF PauseTimeout
<1>9. CASE ReadPolicy(t)
  BY <1>9 DEF ReadPolicy, Holds
<1>10. CASE WritePolicy(t)
  BY <1>10 DEF WritePolicy
<1>11. CASE RecordSteering(t)
  <2>1. steering' \in Seq(Nat)
    BY <1>11 DEF RecordSteering
  <2> QED BY <1>11, <2>1 DEF RecordSteering, Holds
<1>12. CASE ControlFails(t)
  BY <1>12 DEF ControlFails, Holds
<1>13. CASE Decide(t)
  <2>1. replan' \in [Threads -> BOOLEAN]
    BY <1>13 DEF Decide
  <2> QED BY <1>13, <2>1, SettleType DEF Decide, Decisions
<1>14. CASE ReplanAtEnd(t)
  BY <1>14 DEF ReplanAtEnd
<1>15. CASE Interrupt(t)
  BY <1>15 DEF Interrupt
<1>16. CASE Reinvoke(t)
  BY <1>16 DEF Reinvoke
<1>17. CASE InvocationFails(t)
  BY <1>17 DEF InvocationFails
<1> QED
  BY <1>1, <1>2, <1>3, <1>4, <1>5, <1>6, <1>7, <1>8, <1>9,
     <1>10, <1>11, <1>12, <1>13, <1>14, <1>15, <1>16, <1>17
  DEF ThreadStep, Controls

\* A step of the main thread between its boundaries keeps the types.
LEMMA MainType ==
  ASSUME TypeInv, MainStep
  PROVE  TypeInv'
<1>0. Main \in Threads /\ Workers \subseteq Threads
  BY DEF Threads
<1> USE <1>0
    DEF TypeInv, TypeOK, HeldInv, HeldRequest, Goto, Throw, StartDrain, Places,
        durable, threadVars, mainVars, extraVars, PCs, Statuses,
        TERMINAL_STATES, Errors
<1>1. CASE BeginPlan
  BY <1>1 DEF BeginPlan
<1>2. CASE PlanSaved
  <2>1. wave' \in 1..Waves /\ planRevision' \in Nat
    BY <1>2, WavesAssumption DEF PlanSaved
  <2> QED BY <1>2, <2>1 DEF PlanSaved
<1>3. CASE PlanFails
  BY <1>3 DEF PlanFails
<1>4. CASE SkipCancelled
  BY <1>4 DEF SkipCancelled
<1>5. CASE Join
  BY <1>5 DEF Join
<1>6. CASE EndWave
  BY <1>6 DEF EndWave
<1>7. CASE EndRecovery
  BY <1>7 DEF EndRecovery
<1>8. CASE NextWave
  BY <1>8, WavesAssumption DEF NextWave, DrainedAt
<1>9. CASE FailedPlan
  BY <1>9 DEF FailedPlan
<1>10. CASE Validate
  BY <1>10 DEF Validate
<1>11. CASE SkipReview
  BY <1>11 DEF SkipReview
<1>12. CASE BeginReview
  BY <1>12 DEF BeginReview
<1>13. CASE ReviewApproves
  BY <1>13 DEF ReviewApproves
<1>14. CASE ReviewRejects
  BY <1>14 DEF ReviewRejects
<1>15. CASE EndRepairs
  <2>1. CASE /\ status' = "reviewing"
             /\ reviewPass' = 2
             /\ pc' = [pc EXCEPT ![Main] = "review"]
             /\ UNCHANGED <<held, inPause, replan, err, base>>
    BY <1>15, <2>1 DEF EndRepairs
  <2>2. CASE Throw(Main, "error") /\ UNCHANGED <<status, reviewPass>>
    BY <1>15, <2>2 DEF EndRepairs
  <2> QED BY <1>15, <2>1, <2>2 DEF EndRepairs
<1>16. CASE Integrate
  BY <1>16 DEF Integrate
<1>17. CASE CompleteJob
  BY <1>17 DEF CompleteJob
<1>18. CASE FinishFails
  BY <1>18 DEF FinishFails
<1>19. CASE HandleReplan
  BY <1>19 DEF HandleReplan
<1>20. CASE HandleError
  BY <1>20 DEF HandleError, EndStatus
<1>21. ASSUME NEW tasks \in SUBSET Workers, Dispatch(tasks) PROVE TypeInv'
  BY <1>21, RetriesAssumption DEF Dispatch, Threads
<1>22. ASSUME NEW w \in Workers, Collect(w) PROVE TypeInv'
  <2>1. CASE collected' = collected \cup {w} /\ UNCHANGED threadVars
    BY <1>22, <2>1 DEF Collect
  <2>2. CASE /\ err' \in [Threads -> Errors]
             /\ pc' = [pc EXCEPT ![Main] = "join"]
             /\ UNCHANGED <<held, inPause, replan, base, collected>>
    BY <1>22, <2>2 DEF Collect
  <2>3. \/ collected' = collected \cup {w} /\ UNCHANGED threadVars
        \/ /\ \/ err' = [err EXCEPT ![Main] = err[w]]
              \/ err' = [err EXCEPT ![Main] = "error"]
           /\ pc' = [pc EXCEPT ![Main] = "join"]
           /\ UNCHANGED <<held, inPause, replan, base, collected>>
    BY <1>22 DEF Collect
  <2>4. err[w] \in Errors /\ "error" \in Errors
    OBVIOUS
  <2>5. \/ collected' = collected \cup {w} /\ UNCHANGED threadVars
        \/ /\ err' \in [Threads -> Errors]
           /\ pc' = [pc EXCEPT ![Main] = "join"]
           /\ UNCHANGED <<held, inPause, replan, base, collected>>
    <3>1. err \in [Threads -> Errors]
      OBVIOUS
    <3> HIDE DEF TypeInv, TypeOK, HeldInv, Errors, threadVars
    <3> QED BY <2>3, <2>4, <3>1
  <2> QED BY <2>1, <2>2, <2>5
<1>23. ASSUME NEW w \in Workers, BeginRecovery(w) PROVE TypeInv'
  BY <1>23 DEF BeginRecovery, Threads
<1>24. ASSUME NEW w \in Workers, NextRepair(w) PROVE TypeInv'
  BY <1>24 DEF NextRepair, Threads
<1>25. ASSUME NEW tasks \in SUBSET Workers, NEW w \in tasks,
             ReviewRepairs(tasks, w)
      PROVE  TypeInv'
  BY <1>25 DEF ReviewRepairs
<1>26. CASE SetUpFails
  BY <1>26 DEF SetUpFails
<1> QED
  BY <1>1, <1>2, <1>3, <1>4, <1>5, <1>6, <1>7, <1>8, <1>9,
     <1>10, <1>11, <1>12, <1>13, <1>14, <1>15, <1>16, <1>17, <1>18,
     <1>19, <1>20, <1>21, <1>22, <1>23, <1>24, <1>25, <1>26
  DEF MainStep

\* Every step keeps the types.
LEMMA StepType == TypeInv /\ [Next]_vars => TypeInv'
<1> SUFFICES ASSUME TypeInv, [Next]_vars PROVE TypeInv'
  OBVIOUS
<1>1. ASSUME NEW w \in Workers, TaskStep(w) PROVE TypeInv'
  <2> USE DEF TypeInv, TypeOK, HeldInv, HeldRequest, Goto, durable, mainVars,
              extraVars, PCs, Threads
  <2>1. CASE Invoke(w)
    BY <2>1 DEF Invoke
  <2>2. CASE Retry(w)
    <3>1. tries' \in [Workers -> 0..Retries]
      BY <2>2, RetriesAssumption DEF Retry
    <3> QED BY <2>2, <3>1 DEF Retry
  <2>3. CASE EndTask(w)
    BY <2>3 DEF EndTask
  <2> QED BY <1>1, <2>1, <2>2, <2>3 DEF TaskStep
<1>2. CASE Terminated \/ UNCHANGED vars
  BY <1>2 DEF Terminated, vars, durable, threadVars, mainVars, extraVars,
     TypeInv, TypeOK, HeldInv, HeldRequest
<1> QED BY <1>1, <1>2, ClientType, ThreadType, MainType DEF Next

\* Every variable keeps its type, and the control queue its numbering and its
\* supersession rule: the invariant the other proofs of this component build on.
LEMMA TypeInvariant == Spec => []TypeInv
BY InitType, StepType, PTL DEF Spec

\* Every variable keeps its type, however many threads drain the queue at once.
THEOREM TypeCorrect == Spec => []TypeOK
<1>1. TypeInv => TypeOK
  BY DEF TypeInv
<1> QED BY <1>1, TypeInvariant, PTL

\* The control queue keeps its order and its supersession rule while engine
\* threads complete requests they read earlier (control.py enqueue, complete).
THEOREM QueueIsOrdered == Spec => []QueueOK
<1>1. TypeInv => QueueOK
  BY DEF TypeInv, QueueInv, QueueOK
<1> QED BY <1>1, TypeInvariant, PTL

\* A step of the engine or of a command leaves the control queue alone, or
\* decides the request in the hand of one thread, or enqueues one command.
LEMMA QueueStep ==
  ASSUME TypeInv, [Next]_vars
  PROVE  \/ control' = control
         \/ \E t \in Threads : \E d \in Decisions :
              /\ pc[t] \in {"act", "decide"}
              /\ held[t] \in 1..Len(control.requests)
              /\ control' = Complete(control, held[t], d)
         \/ \E c \in Clients :
              Cmd[c] \in Commands /\ control' = Enqueue(control, Cmd[c])
<1>1. ASSUME NEW t \in Threads, Controls(t), control' # control
      PROVE  \E d \in Decisions :
                /\ pc[t] \in {"act", "decide"}
                /\ held[t] \in 1..Len(control.requests)
                /\ control' = Complete(control, held[t], d)
  <2>1. \/ TakeCancel(t) \/ TakePause(t) \/ TakeResume(t) \/ Decide(t)
    BY <1>1 DEF Controls, ReadQueue, ApplyCancel, EnterPause, LeavePause,
       PauseTimeout, ReadPolicy, WritePolicy, RecordSteering, ControlFails,
       ReplanAtEnd, durable
  <2>2. pc[t] \in {"act", "decide"}
    BY <2>1 DEF TakeCancel, TakePause, TakeResume, Decide, Holds
  <2>3. held[t] \in 1..Len(control.requests)
    BY <2>2 DEF TypeInv, HeldInv
  <2>4. \E d \in Decisions : control' = Complete(control, held[t], d)
    BY <2>1 DEF TakeCancel, TakePause, TakeResume, Decide, Settle, Decisions
  <2> QED BY <2>2, <2>3, <2>4
<1>2. ASSUME NEW t \in Threads, ThreadStep(t), ~Controls(t)
      PROVE  control' = control
  BY <1>2 DEF ThreadStep, Interrupt, InvocationFails, Reinvoke, durable
<1>3. ASSUME MainStep \/ (\E w \in Workers : TaskStep(w))
      PROVE  control' = control
  BY <1>3 DEF TaskStep, Invoke, Retry, EndTask, MainStep, BeginPlan, PlanSaved,
     PlanFails, SkipCancelled, SetUpFails, Dispatch, Collect, Join, EndWave,
     BeginRecovery, EndRecovery, NextWave, FailedPlan, Validate, SkipReview,
     BeginReview, ReviewApproves, ReviewRejects, ReviewRepairs, NextRepair,
     EndRepairs, Integrate, CompleteJob, FinishFails, HandleReplan,
     HandleError, durable
<1>4. ASSUME NEW c \in Clients, ClientStep(c)
      PROVE  control' = control \/ control' = Enqueue(control, Cmd[c])
  BY <1>4 DEF ClientStep, Check, EnqueueCommand, RequestCancel, durable
<1>5. \A c \in Clients : Cmd[c] \in Commands
  BY CmdAssumption DEF Command, Commands
<1>6. Terminated \/ UNCHANGED vars => control' = control
  BY DEF Terminated, vars, durable
<1> QED BY <1>1, <1>2, <1>3, <1>4, <1>5, <1>6 DEF Next

\* A request in the queue stays there, and stays what it is.
LEMMA RequestsKept ==
  ASSUME TypeInv, [Next]_vars
  PROVE  /\ Len(control.requests) \in Nat /\ Len(control'.requests) \in Nat
         /\ Len(control.requests) <= Len(control'.requests)
         /\ \A i \in 1..Len(control.requests) :
              /\ i \in 1..Len(control'.requests)
              /\ control'.requests[i].kind = control.requests[i].kind
              /\ IsReplace(control'.requests[i])
                   <=> IsReplace(control.requests[i])
<1>1. Len(control.requests) \in Nat
  BY RequestsAreFunction DEF TypeInv, QueueInv
<1>2. ASSUME NEW q, Len(q.requests) \in {Len(control.requests),
                                         Len(control.requests) + 1},
             \A i \in 1..Len(control.requests) :
                /\ q.requests[i].kind = control.requests[i].kind
                /\ q.requests[i].mode = control.requests[i].mode
      PROVE  /\ Len(q.requests) \in Nat
             /\ Len(control.requests) <= Len(q.requests)
             /\ \A i \in 1..Len(control.requests) :
                  /\ i \in 1..Len(q.requests)
                  /\ q.requests[i].kind = control.requests[i].kind
                  /\ IsReplace(q.requests[i]) <=> IsReplace(control.requests[i])
  BY <1>1, <1>2 DEF IsReplace
<1>3. /\ Len(control'.requests) \in {Len(control.requests),
                                     Len(control.requests) + 1}
      /\ \A i \in 1..Len(control.requests) :
            /\ control'.requests[i].kind = control.requests[i].kind
            /\ control'.requests[i].mode = control.requests[i].mode
  <2>0. QueueInv(control)
    BY DEF TypeInv
  <2>1. CASE control' = control
    BY <2>1
  <2>2. ASSUME NEW k \in 1..Len(control.requests), NEW d \in Decisions,
               control' = Complete(control, k, d)
        PROVE  /\ Len(control'.requests) = Len(control.requests)
               /\ \A i \in 1..Len(control.requests) :
                    /\ control'.requests[i].kind = control.requests[i].kind
                    /\ control'.requests[i].mode = control.requests[i].mode
    BY <2>0, <2>2, CompleteInv
  <2>3. ASSUME NEW c \in Commands, control' = Enqueue(control, c)
        PROVE  /\ Len(control'.requests) = Len(control.requests) + 1
               /\ \A i \in 1..Len(control.requests) :
                    /\ control'.requests[i].kind = control.requests[i].kind
                    /\ control'.requests[i].mode = control.requests[i].mode
    BY <2>0, <2>3, EnqueueInv
  <2> QED BY <2>1, <2>2, <2>3, QueueStep
<1> QED BY <1>1, <1>2, <1>3

-----------------------------------------------------------------------------
(* Threads and the end of a job.                                           *)

\* Where a task thread does nothing any more.
Quiet == {"idle", "done", "raised"}

\* Task threads run only while the main thread collects or joins them, and
\* what it has collected is done; a job is over only when its engine is.
WaveInv ==
  /\ pc[Main] \notin {"collect", "join"} => \A w \in Workers : pc[w] \in Quiet
  /\ pc[Main] = "collect" \/ at = "recovery" =>
       \A w \in collected : pc[w] = "done"
  /\ status \in TERMINAL_STATES => pc[Main] = "exit"

\* What a step of a thread inside the engine can do to the threads.
LEMMA ThreadFrame ==
  ASSUME TypeInv, NEW t \in Threads, ThreadStep(t)
  PROVE  /\ pc[t] \notin Quiet
         /\ pc[t] \notin {"collect", "join", "exit", "plan", "planning"}
         /\ \E place \in PCs \ {"collect", "join", "exit"} :
               pc' = [pc EXCEPT ![t] = place]
         /\ status' \in {status, "paused", "running", "interrupted"}
         /\ UNCHANGED <<collected, at>>
<1> USE DEF Quiet, PCs, Goto, Throw, durable, mainVars, Drained
<1>1. CASE ReadQueue(t)
  BY <1>1 DEF ReadQueue
<1>2. CASE TakeCancel(t)
  BY <1>2 DEF TakeCancel, Holds, Settle
<1>3. CASE ApplyCancel(t)
  BY <1>3 DEF ApplyCancel
<1>4. CASE TakePause(t)
  BY <1>4 DEF TakePause, Holds, Settle
<1>5. CASE EnterPause(t)
  BY <1>5 DEF EnterPause
<1>6. CASE TakeResume(t)
  BY <1>6 DEF TakeResume, Holds, Settle
<1>7. CASE LeavePause(t)
  BY <1>7 DEF LeavePause
<1>8. CASE PauseTimeout(t)
  BY <1>8 DEF PauseTimeout
<1>9. CASE ReadPolicy(t)
  BY <1>9 DEF ReadPolicy, Holds
<1>10. CASE WritePolicy(t)
  BY <1>10 DEF WritePolicy
<1>11. CASE RecordSteering(t)
  BY <1>11 DEF RecordSteering, Holds
<1>12. CASE ControlFails(t)
  BY <1>12 DEF ControlFails, Holds
<1>13. CASE Decide(t)
  BY <1>13 DEF Decide, Settle
<1>14. CASE ReplanAtEnd(t)
  BY <1>14 DEF ReplanAtEnd
<1>15. CASE Interrupt(t)
  BY <1>15 DEF Interrupt
<1>16. CASE Reinvoke(t)
  BY <1>16 DEF Reinvoke
<1>17. CASE InvocationFails(t)
  BY <1>17 DEF InvocationFails
<1> QED
  BY <1>1, <1>2, <1>3, <1>4, <1>5, <1>6, <1>7, <1>8, <1>9,
     <1>10, <1>11, <1>12, <1>13, <1>14, <1>15, <1>16, <1>17
  DEF ThreadStep, Controls

\* A thread's step keeps WaveInv.
LEMMA ThreadWave ==
  ASSUME TypeInv, WaveInv, NEW t \in Threads, ThreadStep(t)
  PROVE  WaveInv'
<1>1. PICK place \in PCs \ {"collect", "join", "exit"} :
         pc' = [pc EXCEPT ![t] = place]
  BY ThreadFrame
<1>2. pc \in [Threads -> PCs] /\ collected \subseteq Workers
  BY DEF TypeInv, TypeOK
<1>3. status' \in TERMINAL_STATES => status \in TERMINAL_STATES
  BY ThreadFrame DEF TERMINAL_STATES
<1>4. CASE t = Main
  BY <1>1, <1>2, <1>3, <1>4, ThreadFrame, WorkersAssumption DEF WaveInv, Threads
<1>5. CASE t \in Workers
  <2>1. t # Main /\ pc'[Main] = pc[Main]
    BY <1>1, <1>2, <1>5, WorkersAssumption DEF Threads
  <2>2. /\ pc[t] \notin Quiet /\ pc[t] # "done"
        /\ at' = at /\ collected' = collected
    BY ThreadFrame DEF Quiet
  <2>3. pc[Main] \in {"collect", "join"}
    BY <1>5, <2>2 DEF WaveInv
  <2>4. \A w \in Workers : w # t => pc'[w] = pc[w]
    BY <1>1, <1>2 DEF Threads
  <2>5. pc[Main] = "collect" \/ at = "recovery" => t \notin collected
    BY <2>2 DEF WaveInv
  <2>6. status' \in TERMINAL_STATES => pc'[Main] = "exit"
    BY <1>3, <2>1 DEF WaveInv
  <2> QED
    BY <1>2, <2>1, <2>2, <2>3, <2>4, <2>5, <2>6 DEF WaveInv
<1> QED BY <1>4, <1>5 DEF Threads

\* The main thread's steps keep WaveInv: it leaves a wave only when every
\* thread of it has stopped.
LEMMA MainWave ==
  ASSUME TypeInv, WaveInv, MainStep
  PROVE  WaveInv'
<1>0. pc \in [Threads -> PCs] /\ Main \in Threads /\ Main \notin Workers
      /\ Workers \subseteq Threads
  BY WorkersAssumption DEF TypeInv, TypeOK, Threads
<1> USE <1>0 DEF WaveInv, Quiet, Goto, Throw, StartDrain, Drained, DrainedAt,
        durable, threadVars, mainVars, TERMINAL_STATES
<1>1. CASE BeginPlan
  BY <1>1 DEF BeginPlan
<1>2. CASE PlanSaved
  BY <1>2 DEF PlanSaved
<1>3. CASE PlanFails
  BY <1>3 DEF PlanFails
<1>4. CASE SkipCancelled
  BY <1>4 DEF SkipCancelled
<1>5. CASE Join
  BY <1>5 DEF Join, AllStopped
<1>6. CASE EndWave
  BY <1>6 DEF EndWave
<1>7. CASE EndRecovery
  BY <1>7 DEF EndRecovery
<1>8. CASE NextWave
  BY <1>8 DEF NextWave
<1>9. CASE FailedPlan
  BY <1>9 DEF FailedPlan
<1>10. CASE Validate
  BY <1>10 DEF Validate
<1>11. CASE SkipReview
  BY <1>11 DEF SkipReview
<1>12. CASE BeginReview
  BY <1>12 DEF BeginReview
<1>13. CASE ReviewApproves
  <2>1. PICK place \in {"drain", "finish"} : pc' = [pc EXCEPT ![Main] = place]
    BY <1>13 DEF ReviewApproves
  <2>2. pc[Main] = "review" /\ at' \in {at, "before-integration"}
        /\ UNCHANGED <<status, collected>>
    BY <1>13 DEF ReviewApproves
  <2> QED BY <2>1, <2>2
<1>14. CASE ReviewRejects
  BY <1>14 DEF ReviewRejects
<1>15. CASE EndRepairs
  BY <1>15 DEF EndRepairs
<1>16. CASE Integrate
  BY <1>16 DEF Integrate
<1>17. CASE CompleteJob
  BY <1>17 DEF CompleteJob
<1>18. CASE FinishFails
  BY <1>18 DEF FinishFails
<1>19. CASE HandleReplan
  BY <1>19 DEF HandleReplan
<1>20. CASE HandleError
  BY <1>20 DEF HandleError, EndStatus
<1>21. ASSUME NEW tasks \in SUBSET Workers, Dispatch(tasks) PROVE WaveInv'
  BY <1>21 DEF Dispatch, Threads
<1>22. ASSUME NEW w \in Workers, Collect(w) PROVE WaveInv'
  <2>1. CASE pc[w] = "done" /\ collected' = collected \cup {w}
             /\ UNCHANGED threadVars
    BY <1>22, <2>1 DEF Collect
  <2>2. CASE UNCHANGED collected /\ pc' = [pc EXCEPT ![Main] = "join"]
    BY <1>22, <2>2 DEF Collect
  <2> QED BY <1>22, <2>1, <2>2 DEF Collect
<1>23. ASSUME NEW w \in Workers, BeginRecovery(w) PROVE WaveInv'
  BY <1>23 DEF BeginRecovery
<1>24. ASSUME NEW w \in Workers, NextRepair(w) PROVE WaveInv'
  BY <1>24 DEF NextRepair
<1>25. ASSUME NEW tasks \in SUBSET Workers, NEW w \in tasks,
             ReviewRepairs(tasks, w)
      PROVE  WaveInv'
  BY <1>25 DEF ReviewRepairs
<1>26. CASE SetUpFails
  BY <1>26 DEF SetUpFails
<1> QED
  BY <1>1, <1>2, <1>3, <1>4, <1>5, <1>6, <1>7, <1>8, <1>9,
     <1>10, <1>11, <1>12, <1>13, <1>14, <1>15, <1>16, <1>17, <1>18,
     <1>19, <1>20, <1>21, <1>22, <1>23, <1>24, <1>25, <1>26
  DEF MainStep

\* What a step of a task can do besides its controls.
LEMMA TaskFrame ==
  ASSUME NEW w \in Workers, TaskStep(w)
  PROVE  /\ pc[w] \in {"queued", "invoke"}
         /\ \E place \in {"queued", "invoke", "done"} :
               pc' = [pc EXCEPT ![w] = place]
         /\ UNCHANGED <<durable, held, inPause, replan, err, base, collected,
                        at>>
BY DEF TaskStep, Invoke, Retry, EndTask, Goto, durable, mainVars

\* Every step keeps WaveInv.
LEMMA StepWave == TypeInv /\ WaveInv /\ [Next]_vars => WaveInv'
<1> SUFFICES ASSUME TypeInv, WaveInv, [Next]_vars PROVE WaveInv'
  OBVIOUS
<1>1. ASSUME NEW w \in Workers, TaskStep(w) PROVE WaveInv'
  <2>1. w # Main /\ pc[Main] \in {"collect", "join"}
        /\ (pc[Main] = "collect" \/ at = "recovery" => w \notin collected)
    BY <1>1, TaskFrame, WorkersAssumption DEF WaveInv, Quiet
  <2> QED
    BY <1>1, <2>1, TaskFrame DEF WaveInv, Quiet, TypeInv, TypeOK, Threads,
       durable
<1>2. ASSUME UNCHANGED <<pc, collected, status, at>> PROVE WaveInv'
  BY <1>2 DEF WaveInv
<1>3. ASSUME NEW c \in Clients, ClientStep(c) PROVE WaveInv'
  BY <1>2, <1>3 DEF ClientStep, Check, EnqueueCommand, RequestCancel, durable,
     threadVars, mainVars
<1>4. CASE Terminated \/ UNCHANGED vars
  BY <1>2, <1>4 DEF Terminated, vars, durable, threadVars, mainVars
<1> QED BY <1>1, <1>3, <1>4, ThreadWave, MainWave DEF Next

\* WaveInv holds of every behaviour.
LEMMA WaveInvariant == Spec => []WaveInv
<1>1. Init => WaveInv
  BY WorkersAssumption DEF Init, WaveInv, Quiet, Threads, TERMINAL_STATES
<1> QED BY <1>1, StepWave, TypeInvariant, PTL DEF Spec

\* When the job has a terminal status no task thread of the engine is still
\* invoking a model or handling a control (engine.py _execute_plan).
THEOREM TerminalIsQuiet == Spec => []TerminalQuiet
<1>1. WaveInv => TerminalQuiet
  BY DEF WaveInv, Quiet, TerminalQuiet
<1> QED BY <1>1, WaveInvariant, PTL

\* Where a thread has a request of the queue in its hand, or waits for the
\* status of the job to be written.
Handling ==
  {"act", "cancelling", "pausing", "resuming", "speed-write", "decide"}

\* What a step of the main thread between its boundaries can do to the threads.
LEMMA MainFrame ==
  ASSUME TypeInv, WaveInv, MainStep
  PROVE  /\ UNCHANGED <<control, steering, revision, base>>
         /\ pc[Main] \notin Handling /\ pc'[Main] \notin Handling
         /\ held' \in {held, [held EXCEPT ![Main] = 0]}
         /\ inPause' \in {inPause, [inPause EXCEPT ![Main] = FALSE]}
         /\ replan' \in {replan, [replan EXCEPT ![Main] = FALSE]}
         /\ \A w \in Workers : \/ pc'[w] = pc[w]
                               \/ /\ pc[Main] = "drain" /\ pc[w] \in Quiet
                                  /\ pc'[w] \in {"queued", "done"}
<1>0. /\ pc \in [Threads -> PCs] /\ Main \in Threads /\ Main \notin Workers
      /\ Workers \subseteq Threads
  BY WorkersAssumption DEF TypeInv, TypeOK, Threads
<1> USE <1>0 DEF Handling, Goto, Throw, StartDrain, Drained, DrainedAt, durable,
        threadVars
<1>1. CASE BeginPlan \/ PlanSaved \/ PlanFails \/ SkipCancelled
             \/ SetUpFails \/ Join \/ EndWave \/ EndRecovery
  BY <1>1 DEF BeginPlan, PlanSaved, PlanFails, SkipCancelled, SetUpFails,
     Join, EndWave, EndRecovery
<1>2. CASE NextWave \/ FailedPlan \/ Validate \/ SkipReview \/ BeginReview
  BY <1>2 DEF NextWave, FailedPlan, Validate, SkipReview, BeginReview
<1>3. CASE ReviewApproves \/ ReviewRejects \/ EndRepairs \/ Integrate
             \/ CompleteJob \/ FinishFails \/ HandleReplan \/ HandleError
  BY <1>3 DEF ReviewApproves, ReviewRejects, EndRepairs, Integrate,
     CompleteJob, FinishFails, HandleReplan, HandleError
<1>4. CASE \E tasks \in SUBSET Workers : Dispatch(tasks)
  BY <1>4 DEF Dispatch, WaveInv
<1>5. CASE \E w \in Workers : Collect(w) \/ BeginRecovery(w) \/ NextRepair(w)
  BY <1>5 DEF Collect, BeginRecovery, NextRepair
<1>6. CASE \E tasks \in SUBSET Workers : \E w \in tasks :
             ReviewRepairs(tasks, w)
  BY <1>6 DEF ReviewRepairs
<1> QED BY <1>1, <1>2, <1>3, <1>4, <1>5, <1>6 DEF MainStep

\* What a step of a command can do.
LEMMA ClientFrame ==
  ASSUME NEW c \in Clients, ClientStep(c)
  PROVE  UNCHANGED <<status, steering, revision, planSaw, threadVars, mainVars>>
BY DEF ClientStep, Check, EnqueueCommand, RequestCancel, durable

\* A step of one thread leaves the locals of the others alone.
LEMMA OthersKeep ==
  ASSUME TypeInv, NEW t \in Threads, ThreadStep(t), NEW u \in Threads, u # t
  PROVE  /\ pc'[u] = pc[u] /\ held'[u] = held[u] /\ base'[u] = base[u]
         /\ inPause'[u] = inPause[u] /\ replan'[u] = replan[u]
<1>1. pc'[u] = pc[u]
  BY ThreadFrame DEF TypeInv, TypeOK
<1> USE DEF TypeInv, TypeOK, Goto, Throw, Settle
<1>2. CASE ReadQueue(t) \/ TakeCancel(t) \/ ApplyCancel(t) \/ TakePause(t)
             \/ EnterPause(t) \/ TakeResume(t) \/ LeavePause(t)
             \/ PauseTimeout(t) \/ ReadPolicy(t)
  BY <1>1, <1>2 DEF ReadQueue, TakeCancel, ApplyCancel, TakePause, EnterPause,
     TakeResume, LeavePause, PauseTimeout, ReadPolicy
<1>3. CASE WritePolicy(t) \/ RecordSteering(t) \/ ControlFails(t)
             \/ Decide(t) \/ ReplanAtEnd(t) \/ Interrupt(t)
             \/ InvocationFails(t) \/ Reinvoke(t)
  BY <1>1, <1>3 DEF WritePolicy, RecordSteering, ControlFails, Decide,
     ReplanAtEnd, Interrupt, InvocationFails, Reinvoke
<1> QED BY <1>2, <1>3 DEF ThreadStep, Controls
=============================================================================
