------------------------- MODULE ControlEffectProofs -------------------------
(* What the controls of a job come to, for any number of waves and         *)
(* commands: a cancellation that was taken is not outrun by the completion *)
(* of the job, a replacement is planned for, steering that counts as       *)
(* applied is recorded, and in the order it was sent, a speed change makes *)
(* one revision, and nothing is invoked in a pause.  The last three, and   *)
(* the replacement, have a hypothesis, given where they begin.             *)
EXTENDS ControlBoundaryProofs, FiniteSetTheorems

-----------------------------------------------------------------------------
(* Cancellation.                                                           *)

CancelApplied ==
  \E i \in 1..Len(control.requests) :
     /\ control.requests[i].kind = "cancel"
     /\ control.requests[i].status = "applied"

\* The places of the main thread that a cancelled job cannot complete from.
Ending == {"cancelling", "join", "raised", "plan", "planning", "exit"}

\* The places of a drain that has met no cancellation.
Draining == {"drain", "act", "pausing", "resuming", "speed-write", "decide"}

\* The first boundary of an engine that found its job cancelled: after the
\* drain no wave starts.
FirstBoundary ==
  /\ cancelRequested
  /\ at = "before-wave"
  /\ pc[Main] \in Draining

\* Once a thread has taken a cancellation, the flag is set or about to be, and
\* the main thread is ending, or at its first boundary, or has yet to collect a
\* thread that raised.
CancelInv ==
  CancelApplied =>
    /\ cancelRequested \/ \E t \in Threads : pc[t] = "cancelling"
    /\ \/ pc[Main] \in Ending
       \/ FirstBoundary
       \/ /\ pc[Main] = "collect"
          /\ \E w \in Workers \ collected : pc[w] \in {"cancelling", "raised"}
    /\ status # "complete"

\* Deciding a request that is no cancellation applies none.
LEMMA SettleCancel ==
  ASSUME TypeInv, NEW t \in Threads, NEW d \in Decisions, NEW place,
         held[t] \in 1..Len(control.requests), Settle(t, d, place),
         HeldRequest(t).kind # "cancel", CancelApplied'
  PROVE  CancelApplied
BY CompleteInv DEF TypeInv, Settle, HeldRequest, CancelApplied

\* The steps of a thread that handle no cancellation.
LEMMA OtherCancel ==
  ASSUME TypeInv, NEW t \in Threads, ThreadStep(t),
         ~TakeCancel(t), ~ApplyCancel(t)
  PROVE  /\ CancelApplied' => CancelApplied
         /\ UNCHANGED cancelRequested
         /\ pc[t] # "cancelling"
<1>1. CASE UNCHANGED <<control, cancelRequested>> /\ pc[t] # "cancelling"
  BY <1>1 DEF CancelApplied
<1>2. ASSUME TakePause(t) \/ TakeResume(t) \/ Decide(t)
      PROVE  /\ held[t] \in 1..Len(control.requests)
             /\ HeldRequest(t).kind # "cancel"
             /\ \E d \in Decisions : \E place \in PCs : Settle(t, d, place)
             /\ UNCHANGED cancelRequested
             /\ pc[t] # "cancelling"
  <2>1. CASE TakePause(t)
    BY <2>1 DEF TakePause, Holds, Settle, TypeInv, HeldInv, Decisions, PCs
  <2>2. CASE TakeResume(t)
    BY <2>2 DEF TakeResume, Holds, Settle, TypeInv, HeldInv, Decisions, PCs
  <2>3. CASE Decide(t)
    BY <2>3 DEF Decide, Settle, TypeInv, HeldInv, Decisions, PCs
  <2> QED BY <1>2, <2>1, <2>2, <2>3
<1>3. CASE TakePause(t) \/ TakeResume(t) \/ Decide(t)
  BY <1>2, <1>3, SettleCancel
<1>4. CASE ReadQueue(t) \/ EnterPause(t) \/ LeavePause(t) \/ PauseTimeout(t)
             \/ ReadPolicy(t) \/ WritePolicy(t) \/ RecordSteering(t)
  BY <1>1, <1>4 DEF ReadQueue, EnterPause, LeavePause, PauseTimeout,
     ReadPolicy, WritePolicy, RecordSteering, Holds, durable
<1>5. CASE ControlFails(t) \/ ReplanAtEnd(t) \/ Interrupt(t) \/ Reinvoke(t)
             \/ InvocationFails(t)
  BY <1>1, <1>5 DEF ControlFails, ReplanAtEnd, Interrupt, Reinvoke, Drained,
     InvocationFails, Holds, durable
<1> QED BY <1>3, <1>4, <1>5 DEF ThreadStep, Controls

\* A drain of the main thread before a wave goes on or raises.
LEMMA FirstBoundaryFrame ==
  ASSUME TypeInv, FirstBoundary, ThreadStep(Main)
  PROVE  pc'[Main] \in Ending \/ FirstBoundary'
<1> USE DEF TypeInv, TypeOK, FirstBoundary, Draining, Ending, Settle, Goto,
            Throw, durable, mainVars, Threads
<1>1. CASE ReadQueue(Main) \/ TakeCancel(Main) \/ TakePause(Main)
             \/ EnterPause(Main) \/ TakeResume(Main) \/ LeavePause(Main)
  BY <1>1 DEF ReadQueue, TakeCancel, TakePause, EnterPause, TakeResume,
     LeavePause
<1>2. CASE ReadPolicy(Main) \/ WritePolicy(Main) \/ RecordSteering(Main)
             \/ Decide(Main)
  BY <1>2 DEF ReadPolicy, WritePolicy, RecordSteering, Decide
<1>3. CASE ApplyCancel(Main) \/ PauseTimeout(Main) \/ ControlFails(Main)
             \/ ReplanAtEnd(Main) \/ InvocationFails(Main)
  BY <1>3 DEF ApplyCancel, PauseTimeout, ControlFails, ReplanAtEnd,
     InvocationFails
<1>4. ~Interrupt(Main) /\ ~Reinvoke(Main)
  BY DEF Interrupt, Reinvoke
<1> QED BY <1>1, <1>2, <1>3, <1>4 DEF ThreadStep, Controls

\* The steps of a thread keep CancelInv.
LEMMA ThreadCancel ==
  ASSUME TypeInv, WaveInv, CancelInv, NEW t \in Threads, ThreadStep(t)
  PROVE  CancelInv'
<1>1. PICK place \in PCs \ {"collect", "join", "exit"} :
         pc' = [pc EXCEPT ![t] = place]
  BY ThreadFrame
<1>2. pc \in [Threads -> PCs] /\ Main \in Threads /\ Main \notin Workers
      /\ Workers \subseteq Threads
  BY WorkersAssumption DEF TypeInv, TypeOK, Threads
<1>3. /\ pc[t] \notin Quiet
      /\ pc[t] \notin {"collect", "join", "exit", "plan", "planning"}
      /\ UNCHANGED collected
      /\ status' = "complete" => status = "complete"
  BY ThreadFrame
<1>4. t \in Workers => /\ pc[Main] \in {"collect", "join"}
                       /\ pc[Main] = "collect" => t \notin collected
                       /\ pc'[Main] = pc[Main]
  BY <1>1, <1>2, <1>3 DEF WaveInv, Quiet
<1>5. status' # "complete"
  BY <1>3, <1>4 DEF WaveInv, Threads, TERMINAL_STATES
<1>6. CASE TakeCancel(t)
  <2>1. pc'[t] = "cancelling"
    BY <1>2, <1>6 DEF TakeCancel, Settle, Goto
  <2> QED
    BY <1>2, <1>3, <1>4, <1>5, <2>1 DEF CancelInv, Ending, Threads
<1>7. CASE ApplyCancel(t)
  <2>1. pc'[t] = "raised" /\ pc[t] = "cancelling" /\ cancelRequested' = TRUE
        /\ UNCHANGED control
    BY <1>2, <1>7 DEF ApplyCancel, Throw
  <2>2. CancelApplied' => CancelApplied
    BY <2>1 DEF CancelApplied
  <2>3. CASE t = Main
    BY <1>5, <2>1, <2>3 DEF CancelInv, Ending
  <2>4. CASE t \in Workers
    <3> SUFFICES ASSUME CancelApplied
                 PROVE  /\ pc[Main] = "collect"
                          => \E w \in Workers \ collected :
                               pc'[w] \in {"cancelling", "raised"}
      BY <1>3, <1>4, <1>5, <2>1, <2>2, <2>4 DEF CancelInv, Ending
    <3> QED BY <1>4, <2>1, <2>4
  <2> QED BY <2>3, <2>4 DEF Threads
<1>8. CASE ~TakeCancel(t) /\ ~ApplyCancel(t)
  <2>1. /\ CancelApplied' => CancelApplied
        /\ UNCHANGED cancelRequested
        /\ pc[t] # "cancelling"
    BY <1>8, OtherCancel
  <2>2. \A u \in Threads : pc[u] = "cancelling" => pc'[u] = "cancelling"
    BY <1>1, <1>2, <2>1
  <2>3. \A w \in Workers : pc[w] \in {"cancelling", "raised"} => pc'[w] = pc[w]
    BY <1>1, <1>2, <1>3, <2>1 DEF Quiet
  <2>4. CASE t = Main
    <3>1. FirstBoundary => pc'[Main] \in Ending \/ FirstBoundary'
      BY <2>4, FirstBoundaryFrame
    <3> QED BY <1>3, <1>5, <2>1, <2>2, <2>4, <3>1 DEF CancelInv, Ending, Quiet
  <2>5. CASE t \in Workers
    <3>1. ~FirstBoundary
      BY <1>4, <2>5 DEF FirstBoundary, Draining
    <3> QED
      BY <1>3, <1>4, <1>5, <2>1, <2>2, <2>3, <2>5, <3>1 DEF CancelInv, Ending
  <2> QED BY <2>4, <2>5 DEF Threads
<1> QED BY <1>6, <1>7, <1>8

\* Of the main thread's steps, only those that follow a boundary without an
\* exception could complete a job, and none of them is open to a cancelled one.
LEMMA MainCancel ==
  ASSUME TypeInv, WaveInv, CancelInv, MainStep
  PROVE  CancelInv'
<1>0. pc \in [Threads -> PCs] /\ Main \in Threads /\ Main \notin Workers
      /\ Workers \subseteq Threads
  BY WorkersAssumption DEF TypeInv, TypeOK, Threads
<1>1. /\ UNCHANGED <<control, cancelRequested>>
      /\ CancelApplied' => CancelApplied
  BY DEF MainStep, BeginPlan, PlanSaved, PlanFails, SkipCancelled, SetUpFails,
     Dispatch,
     Collect, Join, EndWave, BeginRecovery, EndRecovery, NextWave, FailedPlan,
     Validate, SkipReview, BeginReview, ReviewApproves, ReviewRejects,
     ReviewRepairs, NextRepair, EndRepairs, Integrate, CompleteJob,
     FinishFails, HandleReplan, HandleError, durable, CancelApplied
<1> SUFFICES ASSUME CancelApplied
             PROVE  /\ \/ cancelRequested
                       \/ \E t \in Threads : pc'[t] = "cancelling"
                    /\ \/ pc'[Main] \in Ending
                       \/ FirstBoundary'
                       \/ /\ pc'[Main] = "collect"
                          /\ \E w \in Workers \ collected' :
                               pc'[w] \in {"cancelling", "raised"}
                    /\ status' # "complete"
  BY <1>1 DEF CancelInv
<1>2. /\ cancelRequested \/ \E t \in Threads : pc[t] = "cancelling"
      /\ \/ pc[Main] \in Ending
         \/ FirstBoundary
         \/ /\ pc[Main] = "collect"
            /\ \E w \in Workers \ collected : pc[w] \in {"cancelling", "raised"}
      /\ status # "complete"
  BY DEF CancelInv
<1> USE <1>0, <1>2 DEF Ending, FirstBoundary, Draining, Goto, Throw, durable
<1>3. CASE BeginPlan
  BY <1>3 DEF BeginPlan
<1>4. CASE PlanFails
  BY <1>4 DEF PlanFails
<1>5. ASSUME NEW w \in Workers, Collect(w)
      PROVE  /\ cancelRequested \/ \E t \in Threads : pc'[t] = "cancelling"
             /\ \/ pc'[Main] \in Ending
                \/ /\ pc'[Main] = "collect"
                   /\ \E v \in Workers \ collected' :
                        pc'[v] \in {"cancelling", "raised"}
             /\ status' # "complete"
  <2>1. CASE pc[w] = "done" /\ collected' = collected \cup {w}
             /\ UNCHANGED threadVars
    BY <1>5, <2>1 DEF Collect, threadVars
  <2>2. CASE pc' = [pc EXCEPT ![Main] = "join"]
    BY <1>5, <2>2 DEF Collect
  <2> QED BY <1>5, <2>1, <2>2 DEF Collect
<1>6. CASE Join
  BY <1>6 DEF Join
<1>7. CASE HandleReplan
  BY <1>7 DEF HandleReplan
<1>8. CASE HandleError
  BY <1>8 DEF HandleError, EndStatus
<1>9. ~PlanSaved
  BY DEF PlanSaved, WaveInv, Quiet, Threads
<1>10. ~EndWave /\ \A w \in Workers : ~BeginRecovery(w)
  BY DEF EndWave, BeginRecovery
<1>11. /\ pc[Main] \notin {"invoke", "review", "finish"}
       /\ pc[Main] = "drain" => at = "before-wave" /\ cancelRequested
  OBVIOUS
<1>12. /\ ~EndRecovery /\ ~NextWave /\ ~FailedPlan /\ ~Validate /\ ~SkipReview
       /\ ~BeginReview /\ ~ReviewApproves /\ ~ReviewRejects /\ ~EndRepairs
       /\ ~Integrate /\ ~CompleteJob /\ ~FinishFails
  BY <1>11 DEF EndRecovery, NextWave, FailedPlan, Validate, SkipReview,
     BeginReview, ReviewApproves, ReviewRejects, EndRepairs, Integrate,
     CompleteJob, FinishFails, DrainedAt, Drained
<1>13. /\ \A tasks \in SUBSET Workers : ~Dispatch(tasks)
       /\ \A w \in Workers : ~NextRepair(w)
       /\ \A tasks \in SUBSET Workers :
            \A w \in tasks : ~ReviewRepairs(tasks, w)
  BY <1>11 DEF Dispatch, NextRepair, ReviewRepairs, DrainedAt, Drained
<1>14. CASE SkipCancelled \/ SetUpFails
  BY <1>1, <1>11, <1>14 DEF SkipCancelled, SetUpFails, DrainedAt, Drained
<1> QED
  BY <1>3, <1>4, <1>5, <1>6, <1>7, <1>8, <1>9, <1>10, <1>12, <1>13, <1>14
  DEF MainStep

\* The steps of the commands keep CancelInv: what they enqueue is pending.
LEMMA ClientCancel ==
  ASSUME TypeInv, CancelInv, NEW c \in Clients, ClientStep(c)
  PROVE  CancelInv'
<1>1. UNCHANGED <<pc, collected, status, at>>
      /\ (cancelRequested => cancelRequested')
  BY DEF ClientStep, Check, EnqueueCommand, RequestCancel, durable, threadVars,
     mainVars
<1>2. CancelApplied' => CancelApplied
  <2>1. CASE control' = control
    BY <2>1 DEF CancelApplied
  <2>2. CASE EnqueueCommand(c)
    <3>1. Cmd[c] \in Commands
      BY CmdAssumption DEF Command, Commands
    <3>2. Len(control.requests) \in Nat
      BY RequestsAreFunction DEF TypeInv, TypeOK
    <3>3. /\ Len(control'.requests) = Len(control.requests) + 1
          /\ control'.requests[Len(control.requests) + 1].status = "pending"
          /\ \A i \in 1..Len(control.requests) :
               /\ control'.requests[i].kind = control.requests[i].kind
               /\ control'.requests[i].status = "applied"
                    <=> control.requests[i].status = "applied"
      <4> DEFINE e == Enqueue(control, Cmd[c])
      <4>1. control' = e
        BY <2>2 DEF EnqueueCommand
      <4>2. QueueInv(control)
        BY DEF TypeInv
      <4>3. /\ Len(e.requests) = Len(control.requests) + 1
            /\ e.requests[Len(control.requests) + 1].status = "pending"
            /\ \A i \in 1..Len(control.requests) :
                 /\ e.requests[i].kind = control.requests[i].kind
                 /\ e.requests[i].status = "applied"
                      <=> control.requests[i].status = "applied"
        BY <3>1, <4>2, EnqueueInv
      <4> HIDE DEF e
      <4> QED BY <4>1, <4>3
    <3>4. ASSUME NEW i \in 1..Len(control'.requests),
                 control'.requests[i].kind = "cancel",
                 control'.requests[i].status = "applied"
          PROVE  CancelApplied
      <4>1. i # Len(control.requests) + 1
        BY <3>3, <3>4
      <4>2. i \in 1..Len(control.requests)
        BY <3>2, <3>3, <4>1
      <4> QED BY <3>3, <3>4, <4>2 DEF CancelApplied
    <3> QED BY <3>4 DEF CancelApplied
  <2> QED BY <2>1, <2>2 DEF ClientStep, Check, RequestCancel, durable
<1> QED BY <1>1, <1>2 DEF CancelInv, FirstBoundary

\* Every step keeps CancelInv.
LEMMA StepCancel == TypeInv /\ WaveInv /\ CancelInv /\ [Next]_vars => CancelInv'
<1> SUFFICES ASSUME TypeInv, WaveInv, CancelInv, [Next]_vars PROVE CancelInv'
  OBVIOUS
<1>1. ASSUME NEW w \in Workers, TaskStep(w) PROVE CancelInv'
  <2>1. /\ pc[w] \in {"queued", "invoke"}
        /\ \E place \in PCs : pc' = [pc EXCEPT ![w] = place]
        /\ UNCHANGED <<control, cancelRequested, status, collected, at>>
    BY <1>1, TaskFrame DEF PCs, durable
  <2>2. pc \in [Threads -> PCs] /\ w # Main /\ Workers \subseteq Threads
    BY WorkersAssumption DEF TypeInv, TypeOK, Threads
  <2>3. /\ \A t \in Threads : pc[t] = "cancelling" => pc'[t] = "cancelling"
        /\ pc'[Main] = pc[Main]
        /\ \A v \in Workers :
              pc[v] \in {"cancelling", "raised"} => pc'[v] = pc[v]
    BY <2>1, <2>2 DEF Threads
  <2> QED BY <2>1, <2>3 DEF CancelInv, CancelApplied, FirstBoundary
<1>2. CASE Terminated \/ UNCHANGED vars
  BY <1>2 DEF Terminated, vars, durable, threadVars, mainVars, CancelInv,
     CancelApplied, FirstBoundary
<1> QED BY <1>1, <1>2, ThreadCancel, MainCancel, ClientCancel DEF Next

\* A cancellation the engine has taken from the queue is never outrun by the
\* completion of the job, whichever thread took it and whatever the others did
\* (engine.py _process_controls, _wait_paused, run_store).
THEOREM CancelIsNotOutrun == Spec => []CancelNeverCompletes
<1>1. ASSUME Init PROVE CancelInv
  <2>1. CASE control = EmptyQueue
    <3>1. ~CancelApplied
      BY <2>1 DEF CancelApplied, EmptyQueue
    <3> QED BY <3>1 DEF CancelInv
  <2>2. CASE cancelRequested /\ status = "running" /\ pc[Main] = "drain"
    BY <1>1, <2>2 DEF Init, CancelInv, FirstBoundary, Draining
  <2> QED BY <1>1, <2>1, <2>2 DEF Init, Threads
<1>2. CancelInv => CancelNeverCompletes
  BY DEF CancelInv, CancelApplied, CancelNeverCompletes
<1> QED BY <1>1, <1>2, StepCancel, WaveInvariant, TypeInvariant, PTL DEF Spec

-----------------------------------------------------------------------------
(* Replacements.  A pause that a command asks for is waited out inside a   *)
(* drain, and that drain forgets a replacement that it meets there: what   *)
(* follows is about the jobs that nobody pauses.                           *)

\* No command pauses the job.
NoPauseSent == \A c \in Clients : Cmd[c].kind # "pause"

NeverPaused ==
  /\ \A i \in 1..Len(control.requests) : control.requests[i].kind # "pause"
  /\ \A t \in Threads : ~inPause[t] /\ pc[t] # "pausing"

\* What is recorded as steering is a request of the queue.
Recorded == \A i \in 1..Len(steering) : steering[i] \in 1..Len(control.requests)

\* The present plan was made before the direction of the job was replaced.
Unplanned ==
  \E i \in planSaw + 1 .. Len(steering) :
     IsReplace(control.requests[steering[i]])

\* The places of a drain.
Busy == Draining \cup {"cancelling"}

\* A thread that has recorded a replacement and will ask for a new plan.
Replanning(t) ==
  \/ pc[t] = "decide" /\ IsReplace(HeldRequest(t))
  \/ pc[t] \in Busy /\ replan[t]

\* A replacement that the plan does not know is in the hand of a thread that
\* will raise, or of the main thread on its way to a new plan or to the end.
ReplanInv ==
  Unplanned =>
    /\ status # "complete"
    /\ \/ pc[Main] \in {"join", "raised", "plan", "exit"}
       \/ Replanning(Main)
       \/ /\ pc[Main] = "collect"
          /\ \E w \in Workers \ collected : pc[w] = "raised" \/ Replanning(w)

\* Without a command to pause no thread waits in a pause.
LEMMA StepUnpaused ==
  ASSUME NoPauseSent, TypeInv, WaveInv, NeverPaused, [Next]_vars
  PROVE  NeverPaused'
<1>1. ASSUME NEW i \in 1..Len(control'.requests)
      PROVE  control'.requests[i].kind # "pause"
  <2>0. QueueInv(control) /\ Len(control.requests) \in Nat
    BY RequestsAreFunction DEF TypeInv, QueueInv
  <2>1. CASE Len(control'.requests) = Len(control.requests)
    BY <2>1, <1>1, RequestsKept DEF NeverPaused
  <2>2. ASSUME NEW c \in Clients, Cmd[c] \in Commands,
               control' = Enqueue(control, Cmd[c])
        PROVE  control'.requests[i].kind # "pause"
    <3>1. /\ Len(control'.requests) = Len(control.requests) + 1
          /\ control'.requests[Len(control.requests) + 1].kind = Cmd[c].kind
      BY <2>0, <2>2, EnqueueInv
    <3>2. CASE i = Len(control.requests) + 1
      BY <3>1, <3>2 DEF NoPauseSent
    <3>3. CASE i # Len(control.requests) + 1
      <4>1. i \in 1..Len(control.requests)
        BY <3>1, <3>3, <1>1, <2>0
      <4> QED BY <4>1, RequestsKept DEF NeverPaused
    <3> QED BY <3>2, <3>3
  <2>3. ASSUME NEW k \in 1..Len(control.requests), NEW d \in Decisions,
               control' = Complete(control, k, d)
        PROVE  Len(control'.requests) = Len(control.requests)
    BY <2>0, <2>3, CompleteInv
  <2> QED BY <2>1, <2>2, <2>3, QueueStep
<1>2. \A t \in Threads : ~inPause'[t] /\ pc'[t] # "pausing"
  <2>0. /\ pc \in [Threads -> PCs] /\ inPause \in [Threads -> BOOLEAN]
        /\ Main \in Threads /\ Workers \subseteq Threads
    BY DEF TypeInv, TypeOK, Threads
  <2>1. ASSUME NEW t \in Threads, ThreadStep(t)
        PROVE  \A u \in Threads : ~inPause'[u] /\ pc'[u] # "pausing"
    <3>1. ~TakePause(t) /\ ~EnterPause(t)
      BY DEF TakePause, EnterPause, Holds, HeldRequest, TypeInv, HeldInv,
         NeverPaused
    <3>2. /\ inPause' = inPause \/ inPause' = [inPause EXCEPT ![t] = FALSE]
          /\ \E place \in PCs \ {"pausing"} : pc' = [pc EXCEPT ![t] = place]
      <4> USE DEF Goto, Throw, PCs, durable
      <4>1. CASE ReadQueue(t) \/ TakeCancel(t) \/ TakeResume(t) \/ Decide(t)
        BY <4>1, <2>0 DEF ReadQueue, TakeCancel, TakeResume, Decide, Settle
      <4>2. CASE ApplyCancel(t) \/ LeavePause(t) \/ PauseTimeout(t)
                   \/ ControlFails(t) \/ ReplanAtEnd(t) \/ InvocationFails(t)
        BY <4>2 DEF ApplyCancel, LeavePause, PauseTimeout, ControlFails,
           ReplanAtEnd, InvocationFails
      <4>3. CASE ReadPolicy(t) \/ WritePolicy(t) \/ RecordSteering(t)
                   \/ Interrupt(t) \/ Reinvoke(t)
        BY <4>3 DEF ReadPolicy, WritePolicy, RecordSteering, Interrupt, Reinvoke
      <4> QED BY <2>1, <3>1, <4>1, <4>2, <4>3 DEF ThreadStep, Controls
    <3> QED BY <2>0, <3>2 DEF NeverPaused
  <2>2. ASSUME NEW w \in Workers, TaskStep(w)
        PROVE  \A u \in Threads : ~inPause'[u] /\ pc'[u] # "pausing"
    BY <2>0, <2>2, TaskFrame DEF NeverPaused
  <2>3. ASSUME MainStep
        PROVE  \A u \in Threads : ~inPause'[u] /\ pc'[u] # "pausing"
    BY <2>0, <2>3, MainFrame DEF NeverPaused, Handling, Threads
  <2>4. CASE UNCHANGED <<pc, inPause>>
    BY <2>4 DEF NeverPaused
  <2>5. ASSUME \/ \E c \in Clients : ClientStep(c)
               \/ Terminated \/ UNCHANGED vars
        PROVE  UNCHANGED <<pc, inPause>>
    BY <2>5, ClientFrame DEF Terminated, vars, threadVars
  <2> QED BY <2>1, <2>2, <2>3, <2>4, <2>5 DEF Next
<1> QED BY <1>1, <1>2 DEF NeverPaused

\* Steering changes only when a thread records the request in its hand.
LEMMA SteeringStep ==
  ASSUME TypeInv, WaveInv, [Next]_vars
  PROVE  \/ steering' = steering
         \/ \E t \in Threads :
              /\ RecordSteering(t)
              /\ steering' = Append(steering, held[t])
              /\ held[t] \in 1..Len(control.requests)
              /\ steering \in Seq(Nat)
<1>1. ASSUME NEW t \in Threads, RecordSteering(t)
      PROVE  /\ steering' = Append(steering, held[t])
             /\ held[t] \in 1..Len(control.requests)
             /\ steering \in Seq(Nat)
  BY <1>1 DEF RecordSteering, Holds, TypeInv, TypeOK, HeldInv
<1>2. ASSUME NEW t \in Threads, ThreadStep(t), ~RecordSteering(t)
      PROVE  steering' = steering
  BY <1>2 DEF ThreadStep, Controls, ReadQueue, TakeCancel, ApplyCancel,
     TakePause, EnterPause, TakeResume, LeavePause, PauseTimeout, ReadPolicy,
     WritePolicy, ControlFails, Decide, ReplanAtEnd, Interrupt,
     InvocationFails, Reinvoke, Settle, durable
<1> QED
  BY <1>1, <1>2, MainFrame, TaskFrame, ClientFrame
  DEF Next, Terminated, vars, durable

\* What is recorded stays a request of the queue.
LEMMA StepRecorded ==
  ASSUME TypeInv, WaveInv, Recorded, [Next]_vars
  PROVE  Recorded'
<1>1. CASE steering' = steering
  BY <1>1, RequestsKept DEF Recorded
<1>2. ASSUME NEW t \in Threads,
             steering' = Append(steering, held[t]),
             held[t] \in 1..Len(control.requests), steering \in Seq(Nat)
      PROVE  Recorded'
  BY <1>2, RequestsKept DEF Recorded
<1> QED BY <1>1, <1>2, SteeringStep

\* A thread that will ask for a new plan does so, or raises.
LEMMA ReplanningKept ==
  ASSUME TypeInv, NeverPaused, NEW t \in Threads, ThreadStep(t),
         NEW u \in Threads, Replanning(u)
  PROVE  Replanning(u)' \/ (u = t /\ pc'[u] = "raised")
<1>0. /\ pc \in [Threads -> PCs] /\ replan \in [Threads -> BOOLEAN]
      /\ held \in [Threads -> Nat]
  BY DEF TypeInv, TypeOK
<1>1. \A i \in 1..Len(control.requests) :
         IsReplace(control'.requests[i]) <=> IsReplace(control.requests[i])
  <2>1. [Next]_vars
    BY DEF Next
  <2> QED BY <2>1, RequestsKept
<1>2. CASE u # t
  <2>1. pc'[u] = pc[u] /\ replan'[u] = replan[u] /\ held'[u] = held[u]
    BY <1>2, OthersKeep
  <2>2. pc[u] = "decide" => held[u] \in 1..Len(control.requests)
    BY DEF TypeInv, HeldInv
  <2> QED BY <1>1, <2>1, <2>2 DEF Replanning, HeldRequest
<1>3. CASE u = t
  <2> USE <1>0, <1>3 DEF Replanning, Busy, Draining, Goto, Throw, Settle
  <2>1. CASE Decide(t)
    <3>1. replan'[t] = (replan[t] \/ IsReplace(HeldRequest(t)))
      BY <2>1 DEF Decide, NeverPaused
    <3>2. pc'[t] = "drain"
      BY <2>1 DEF Decide
    <3> QED BY <3>1, <3>2
  <2>2. CASE pc[t] # "decide" /\ replan' = replan
             /\ \E place \in Busy : pc' = [pc EXCEPT ![t] = place]
    BY <2>2
  <2>3. CASE pc' = [pc EXCEPT ![t] = "raised"]
    BY <2>3
  <2>4. CASE ReadQueue(t) \/ TakeCancel(t) \/ TakePause(t) \/ EnterPause(t)
               \/ TakeResume(t) \/ LeavePause(t) \/ ReadPolicy(t)
               \/ WritePolicy(t) \/ RecordSteering(t)
    BY <2>2, <2>4 DEF ReadQueue, TakeCancel, TakePause, EnterPause, TakeResume,
       LeavePause, ReadPolicy, WritePolicy, RecordSteering, Holds
  <2>5. CASE ApplyCancel(t) \/ PauseTimeout(t) \/ ControlFails(t)
               \/ ReplanAtEnd(t) \/ InvocationFails(t)
    BY <2>3, <2>5 DEF ApplyCancel, PauseTimeout, ControlFails, ReplanAtEnd,
       InvocationFails
  <2>6. ~Interrupt(t) /\ ~Reinvoke(t)
    BY DEF Interrupt, Reinvoke, Drained
  <2> QED BY <2>1, <2>4, <2>5, <2>6 DEF ThreadStep, Controls
<1> QED BY <1>2, <1>3

\* A thread's step keeps ReplanInv: a replacement it records is in its hand.
LEMMA ThreadReplan ==
  ASSUME TypeInv, WaveInv, NeverPaused, Recorded, ReplanInv,
         NEW t \in Threads, ThreadStep(t)
  PROVE  ReplanInv'
<1>0. /\ pc \in [Threads -> PCs] /\ Main \in Threads /\ Main \notin Workers
      /\ Workers \subseteq Threads
  BY WorkersAssumption DEF TypeInv, TypeOK, Threads
<1>1. PICK place \in PCs \ {"collect", "join", "exit"} :
         pc' = [pc EXCEPT ![t] = place]
  BY ThreadFrame
<1>2. /\ pc[t] \notin Quiet
      /\ pc[t] \notin {"collect", "join", "exit", "plan", "planning"}
      /\ UNCHANGED collected
      /\ status' = "complete" => status = "complete"
  BY ThreadFrame
<1>3. t \in Workers => /\ pc[Main] \in {"collect", "join"}
                       /\ pc[Main] = "collect" => t \notin collected
                       /\ pc'[Main] = pc[Main]
  BY <1>0, <1>1, <1>2 DEF WaveInv, Quiet
<1>4. status' # "complete"
  BY <1>2, <1>3 DEF WaveInv, Threads, TERMINAL_STATES
<1>5. \A u \in Threads :
         Replanning(u) => Replanning(u)' \/ (u = t /\ pc'[u] = "raised")
  BY ReplanningKept
<1>6. Unplanned' => Unplanned \/ Replanning(t)'
  <2>0. [Next]_vars
    BY DEF Next
  <2>1. \A i \in 1..Len(control.requests) :
           IsReplace(control'.requests[i]) <=> IsReplace(control.requests[i])
    BY <2>0, RequestsKept
  <2>2. planSaw' = planSaw
    BY DEF ThreadStep, Controls, ReadQueue, TakeCancel, ApplyCancel,
       TakePause, EnterPause, TakeResume, LeavePause, PauseTimeout, ReadPolicy,
       WritePolicy, RecordSteering, ControlFails, Decide, ReplanAtEnd,
       Interrupt, InvocationFails, Reinvoke, Settle, durable
  <2>3. CASE steering' = steering
    <3>1. \A i \in planSaw + 1 .. Len(steering) : i \in 1..Len(steering)
      BY DEF TypeInv, TypeOK
    <3>2. \A i \in planSaw + 1 .. Len(steering) :
             steering[i] \in 1..Len(control.requests)
      BY <3>1 DEF Recorded
    <3> QED BY <2>1, <2>2, <2>3, <3>2 DEF Unplanned
  <2>4. CASE RecordSteering(t)
    <3>1. /\ steering' = Append(steering, held[t]) /\ steering \in Seq(Nat)
          /\ control' = control /\ held' = held /\ pc'[t] = "decide"
          /\ held[t] \in Nat /\ planSaw \in Nat
      BY <1>0, <2>4 DEF RecordSteering, Goto, TypeInv, TypeOK
    <3>2. SUFFICES ASSUME NEW i \in planSaw + 1 .. Len(steering) + 1,
                          IsReplace(control.requests[steering'[i]])
                   PROVE  Unplanned \/ Replanning(t)'
      BY <2>2, <3>1 DEF Unplanned
    <3>3. CASE i = Len(steering) + 1
      BY <3>1, <3>2, <3>3 DEF Replanning, HeldRequest
    <3>4. CASE i \in planSaw + 1 .. Len(steering)
      BY <3>1, <3>2, <3>4 DEF Unplanned
    <3> QED BY <3>1, <3>3, <3>4
  <2>5. steering' = steering \/ RecordSteering(t)
    BY DEF ThreadStep, Controls, ReadQueue, TakeCancel, ApplyCancel,
       TakePause, EnterPause, TakeResume, LeavePause, PauseTimeout, ReadPolicy,
       WritePolicy, ControlFails, Decide, ReplanAtEnd, Interrupt,
       InvocationFails, Reinvoke, Settle, durable
  <2> QED BY <2>3, <2>4, <2>5
<1> SUFFICES ASSUME Unplanned'
             PROVE  \/ pc'[Main] \in {"join", "raised", "plan", "exit"}
                    \/ Replanning(Main)'
                    \/ /\ pc'[Main] = "collect"
                       /\ \E w \in Workers \ collected' :
                            pc'[w] = "raised" \/ Replanning(w)'
  BY <1>4 DEF ReplanInv
<1>7. CASE t = Main
  <2>1. ~(pc[Main] \in {"join", "raised", "plan", "exit", "collect"})
    BY <1>2, <1>7 DEF Quiet
  <2> QED BY <1>5, <1>6, <1>7, <2>1, <1>0 DEF ReplanInv
<1>8. CASE t \in Workers
  <2>1. CASE pc[Main] = "join"
    BY <1>3, <1>8, <2>1
  <2>2. CASE pc[Main] = "collect"
    <3>1. CASE Replanning(t)'
      BY <1>2, <1>3, <1>8, <2>2, <3>1
    <3>2. CASE Unplanned
      <4>1. ~Replanning(Main)
        BY <2>2 DEF Replanning, Busy, Draining
      <4>2. PICK w \in Workers \ collected : pc[w] = "raised" \/ Replanning(w)
        BY <3>2, <4>1, <2>2 DEF ReplanInv
      <4>3. pc'[w] = "raised" \/ Replanning(w)'
        BY <4>2, <1>0, <1>1, <1>2, <1>5 DEF Quiet
      <4> QED BY <1>2, <1>3, <1>8, <2>2, <4>2, <4>3
    <3> QED BY <1>6, <3>1, <3>2
  <2> QED BY <1>3, <1>8, <2>1, <2>2
<1> QED BY <1>7, <1>8 DEF Threads

\* The steps of the main thread keep ReplanInv: it leaves a wave by its end
\* only when no thread of it has raised, and a boundary only when its own drain
\* asks for no new plan; a new plan is made from all the steering.
LEMMA MainReplan ==
  ASSUME TypeInv, WaveInv, ReplanInv, MainStep
  PROVE  ReplanInv'
<1>0. /\ pc \in [Threads -> PCs] /\ Main \in Threads /\ Main \notin Workers
      /\ Workers \subseteq Threads
  BY WorkersAssumption DEF TypeInv, TypeOK, Threads
<1>1. /\ UNCHANGED <<control, steering>>
      /\ pc[Main] \notin Handling
  BY MainFrame
<1>2. CASE BeginPlan
  <2>1. planSaw' = Len(steering) /\ Len(steering) \in Nat
    BY <1>2 DEF BeginPlan, TypeInv, TypeOK
  <2>2. ~Unplanned'
    BY <1>1, <2>1 DEF Unplanned
  <2> QED BY <2>2 DEF ReplanInv
<1>3. CASE ~BeginPlan
  <2>1. planSaw' = planSaw
    BY <1>3 DEF MainStep, PlanSaved, PlanFails, SkipCancelled, SetUpFails,
       Dispatch, Collect, Join, EndWave, BeginRecovery, EndRecovery, NextWave,
       FailedPlan, Validate, SkipReview, BeginReview, ReviewApproves,
       ReviewRejects, ReviewRepairs, NextRepair, EndRepairs, Integrate,
       CompleteJob, FinishFails, HandleReplan, HandleError, durable
  <2>2. Unplanned' => Unplanned
    BY <1>1, <2>1 DEF Unplanned
  <2> SUFFICES ASSUME Unplanned
               PROVE  /\ status' # "complete"
                      /\ \/ pc'[Main] \in {"join", "raised", "plan", "exit"}
                         \/ /\ pc'[Main] = "collect"
                            /\ \E w \in Workers \ collected' :
                                 pc'[w] = "raised" \/ Replanning(w)'
    BY <2>2 DEF ReplanInv
  <2>3. /\ status # "complete"
        /\ \/ pc[Main] \in {"join", "raised", "plan", "exit"}
           \/ Replanning(Main)
           \/ /\ pc[Main] = "collect"
              /\ \E w \in Workers \ collected :
                   pc[w] = "raised" \/ Replanning(w)
    BY DEF ReplanInv
  <2>4. Replanning(Main) => pc[Main] = "drain" /\ replan[Main]
    BY <1>1 DEF Replanning, Busy, Draining, Handling
  <2>5. /\ ~Drained(Main) \/ pc[Main] # "drain"
        /\ \A place \in Places : ~DrainedAt(place)
    BY <2>3, <2>4 DEF Drained, DrainedAt
  <2>6. /\ ~EndRecovery /\ ~NextWave /\ ~FailedPlan /\ ~Validate /\ ~SkipReview
        /\ ~BeginReview /\ ~ReviewApproves /\ ~ReviewRejects /\ ~EndRepairs
        /\ ~Integrate /\ ~CompleteJob /\ ~FinishFails /\ ~SkipCancelled
        /\ ~SetUpFails /\ ~PlanSaved /\ ~PlanFails
    BY <2>3, <2>4, <2>5 DEF EndRecovery, NextWave, FailedPlan, Validate,
       SkipReview, BeginReview, ReviewApproves, ReviewRejects, EndRepairs,
       Integrate, CompleteJob, FinishFails, SkipCancelled, SetUpFails,
       PlanSaved, PlanFails, Places
  <2>7. /\ \A tasks \in SUBSET Workers : ~Dispatch(tasks)
        /\ \A w \in Workers : ~NextRepair(w)
        /\ \A tasks \in SUBSET Workers :
             \A w \in tasks : ~ReviewRepairs(tasks, w)
    BY <2>3, <2>4, <2>5 DEF Dispatch, NextRepair, ReviewRepairs, Places
  <2>8. ~EndWave /\ \A w \in Workers : ~BeginRecovery(w)
    BY <2>3, <2>4 DEF EndWave, BeginRecovery
  <2>9. CASE Join \/ HandleReplan
    BY <1>0, <2>3, <2>9 DEF Join, HandleReplan, Goto, durable
  <2>10. CASE HandleError
    BY <1>0, <2>3, <2>10 DEF HandleError, EndStatus, Goto
  <2>11. ASSUME NEW w \in Workers, Collect(w)
         PROVE  /\ status' # "complete"
                /\ \/ pc'[Main] = "join"
                   \/ /\ pc'[Main] = "collect"
                      /\ \E v \in Workers \ collected' :
                           pc'[v] = "raised" \/ Replanning(v)'
    <3>1. status' # "complete" /\ pc[Main] = "collect" /\ control' = control
      BY <2>3, <2>11 DEF Collect, durable
    <3>2. CASE pc' = [pc EXCEPT ![Main] = "join"]
      BY <1>0, <3>1, <3>2
    <3>3. CASE pc[w] = "done" /\ collected' = collected \cup {w}
               /\ UNCHANGED threadVars
      <4>1. PICK v \in Workers \ collected : pc[v] = "raised" \/ Replanning(v)
        BY <2>3, <2>4, <3>1
      <4>2. v # w
        BY <3>3, <4>1 DEF Replanning, Busy, Draining
      <4>3. pc'[v] = "raised" \/ Replanning(v)'
        BY <3>1, <3>3, <4>1 DEF Replanning, HeldRequest, threadVars
      <4> QED BY <3>1, <3>3, <4>1, <4>2, <4>3 DEF threadVars
    <3> QED BY <2>11, <3>2, <3>3 DEF Collect, Goto
  <2> QED
    BY <1>3, <2>6, <2>7, <2>8, <2>9, <2>10, <2>11 DEF MainStep
<1> QED BY <1>2, <1>3

\* Every step keeps ReplanInv.
LEMMA StepReplan ==
  ASSUME TypeInv, WaveInv, NeverPaused, Recorded, ReplanInv, [Next]_vars
  PROVE  ReplanInv'
<1>1. \A i \in 1..Len(control.requests) :
         IsReplace(control'.requests[i]) <=> IsReplace(control.requests[i])
  BY RequestsKept
<1>2. ASSUME UNCHANGED <<status, steering, planSaw, collected, held, replan>>,
             \A t \in Threads :
                pc[t] \in Busy \cup {"raised"} => pc'[t] = pc[t],
             pc'[Main] = pc[Main]
      PROVE  ReplanInv'
  <2>1. Unplanned' => Unplanned
    <3>1. \A i \in planSaw + 1 .. Len(steering) : i \in 1..Len(steering)
      BY DEF TypeInv, TypeOK
    <3>2. \A i \in planSaw + 1 .. Len(steering) :
             steering[i] \in 1..Len(control.requests)
      BY <3>1 DEF Recorded
    <3> QED BY <1>1, <1>2, <3>2 DEF Unplanned
  <2>2. \A t \in Threads : Replanning(t) => Replanning(t)'
    <3>1. \A t \in Threads :
             pc[t] = "decide" => held[t] \in 1..Len(control.requests)
      BY DEF TypeInv, HeldInv
    <3> QED
      BY <1>1, <1>2, <3>1 DEF Replanning, HeldRequest, Busy, Draining
  <2>3. Main \in Threads /\ Workers \subseteq Threads
    BY DEF Threads
  <2> QED BY <1>2, <2>1, <2>2, <2>3 DEF ReplanInv
<1>3. ASSUME NEW w \in Workers, TaskStep(w) PROVE ReplanInv'
  <2>1. /\ pc \in [Threads -> PCs] /\ w # Main /\ Workers \subseteq Threads
        /\ Main \in Threads
    BY WorkersAssumption DEF TypeInv, TypeOK, Threads
  <2>2. /\ pc[w] \notin Busy \cup {"raised"}
        /\ \E place \in PCs : pc' = [pc EXCEPT ![w] = place]
        /\ UNCHANGED <<status, steering, planSaw, collected, held, replan>>
    BY <1>3, TaskFrame DEF Busy, Draining, PCs, durable
  <2> QED BY <1>2, <2>1, <2>2
<1>4. CASE (\E c \in Clients : ClientStep(c)) \/ Terminated \/ UNCHANGED vars
  <2>1. UNCHANGED <<status, steering, planSaw, collected, held, replan, pc>>
    BY <1>4, ClientFrame DEF Terminated, vars, durable, threadVars, mainVars
  <2> QED BY <1>2, <2>1
<1> QED BY <1>3, <1>4, ThreadReplan, MainReplan DEF Next

\* A job that nobody pauses does not complete on a plan that was made before a
\* replacement of its direction was applied, whichever thread applied it and
\* whatever the other threads did (engine.py _process_controls, run_store).
THEOREM ReplacementIsPlanned ==
  ASSUME NoPauseSent
  PROVE  Spec => []ReplaceReplanned
<1> DEFINE Inv == NeverPaused /\ Recorded /\ ReplanInv
<1>1. ASSUME Init PROVE Inv
  <2>1. Recorded /\ ~Unplanned
    BY <1>1 DEF Init, Recorded, Unplanned
  <2>2. NeverPaused
    <3>1. \A t \in Threads : ~inPause[t] /\ pc[t] # "pausing"
      BY <1>1 DEF Init
    <3>2. control \in {EmptyQueue, CancelledBefore}
      BY <1>1 DEF Init
    <3>3. \A i \in 1..Len(CancelledBefore.requests) :
             CancelledBefore.requests[i].kind # "pause"
      BY CancelledBeforeInv
    <3>4. \A i \in 1..Len(EmptyQueue.requests) :
             EmptyQueue.requests[i].kind # "pause"
      BY DEF EmptyQueue
    <3> QED BY <3>1, <3>2, <3>3, <3>4 DEF NeverPaused
  <2> QED BY <2>1, <2>2 DEF ReplanInv
<1>2. TypeInv /\ WaveInv /\ Inv /\ [Next]_vars => Inv'
  BY StepUnpaused, StepRecorded, StepReplan
<1>3. Inv => ReplaceReplanned
  BY DEF ReplanInv, Unplanned, ReplaceReplanned
<1> QED BY <1>1, <1>2, <1>3, TypeInvariant, WaveInvariant, PTL DEF Spec

-----------------------------------------------------------------------------
(* The steps of a drain, and every other step.                             *)

\* Where a thread holds a request that it read from the queue.
InHand == {"act", "speed-write", "decide"}

\* What a thread does with a request it read.
Effect(t) ==
  \/ ReadQueue(t) \/ ReadPolicy(t) \/ WritePolicy(t) \/ RecordSteering(t)
  \/ TakeCancel(t) \/ TakePause(t) \/ TakeResume(t) \/ Decide(t)

\* No other step of the engine changes what the controls are about, or what a
\* thread has in its hand, but for giving it up.
LEMMA OtherStep ==
  ASSUME TypeInv, WaveInv, [Next]_vars,
         \A t \in Threads : ~Effect(t), \A c \in Clients : ~EnqueueCommand(c)
  PROVE  /\ UNCHANGED <<control, steering, revision>>
         /\ \A u \in Threads :
              pc'[u] \in InHand \/ pc[u] \in {"speed-write", "decide"} =>
                /\ pc'[u] = pc[u] /\ held'[u] = held[u] /\ base'[u] = base[u]
<1>0. /\ pc \in [Threads -> PCs] /\ Main \in Threads /\ Main \notin Workers
      /\ Workers \subseteq Threads
  BY WorkersAssumption DEF TypeInv, TypeOK, Threads
<1>1. ASSUME NEW t \in Threads, ThreadStep(t)
      PROVE  /\ UNCHANGED <<control, steering, revision>>
             /\ pc'[t] \notin InHand /\ pc[t] \notin {"speed-write", "decide"}
  <2>1. CASE ApplyCancel(t) \/ EnterPause(t) \/ LeavePause(t) \/ PauseTimeout(t)
               \/ ControlFails(t) \/ ReplanAtEnd(t) \/ Interrupt(t)
               \/ InvocationFails(t) \/ Reinvoke(t)
    BY <1>0, <2>1 DEF ApplyCancel, EnterPause, LeavePause, PauseTimeout,
       ControlFails, ReplanAtEnd, Interrupt, InvocationFails, Reinvoke,
       Drained, Goto, Throw, Holds, InHand, durable
  <2> QED BY <1>1, <2>1 DEF ThreadStep, Controls, Effect
<1>2. ASSUME NEW w \in Workers, TaskStep(w)
      PROVE  /\ UNCHANGED <<durable, held, base>>
             /\ \A u \in Threads : u # w => pc'[u] = pc[u]
             /\ pc'[w] \notin InHand /\ pc[w] \notin {"speed-write", "decide"}
  BY <1>0, <1>2, TaskFrame DEF InHand
<1>3. ASSUME MainStep
      PROVE  \A u \in Threads :
               pc'[u] \in InHand \/ pc[u] \in {"speed-write", "decide"} =>
                 /\ pc'[u] = pc[u] /\ held'[u] = held[u] /\ base'[u] = base[u]
  <2>1. held \in [Threads -> Nat]
    BY DEF TypeInv, TypeOK
  <2> QED
    BY <1>0, <1>3, <2>1, MainFrame DEF InHand, Handling, Quiet, Threads
<1>4. ASSUME NEW c \in Clients, ClientStep(c) PROVE control' = control
  BY <1>4 DEF ClientStep, Check, RequestCancel, durable
<1> QED
  BY <1>1, <1>2, <1>3, <1>4, OthersKeep, MainFrame, ClientFrame
  DEF Next, Terminated, vars, durable, threadVars

-----------------------------------------------------------------------------
(* What the queue reports of steering.                                     *)

IsRecorded(i) == \E k \in 1..Len(steering) : steering[k] = i

\* SteeringReported, and what a thread that completes a steering request knows:
\* that the request is recorded.
ReportInv ==
  /\ \A i \in 1..Len(control.requests) :
       /\ IsRecorded(i) => control.requests[i].kind = "steer"
       /\ /\ control.requests[i].kind = "steer"
          /\ control.requests[i].status = "applied"
          => IsRecorded(i)
       /\ IsRecorded(i) /\ IsPending(control.requests[i]) =>
            \E t \in Threads : pc[t] = "decide" /\ held[t] = i
  /\ \A t \in Threads :
       pc[t] = "decide" /\ HeldRequest(t).kind = "steer" => IsRecorded(held[t])

\* A thread records a steering request before it completes it.
LEMMA EffectReport ==
  ASSUME TypeInv, ReportInv, NEW t \in Threads, Effect(t)
  PROVE  ReportInv'
<1>0. /\ pc \in [Threads -> PCs] /\ held \in [Threads -> Nat]
      /\ QueueInv(control) /\ Len(control.requests) \in Nat
      /\ Pending(control) \subseteq 1..Len(control.requests)
      /\ steering \in Seq(Nat)
  BY RequestsAreFunction DEF TypeInv, TypeOK, QueueInv, Pending
<1>1. \A u \in Threads : u # t => pc'[u] = pc[u] /\ held'[u] = held[u]
  BY OthersKeep DEF Effect, ThreadStep, Controls
<1>2. \A u \in Threads :
         pc[u] \in InHand => held[u] \in 1..Len(control.requests)
  BY DEF TypeInv, HeldInv, InHand
<1>3. CASE ReadQueue(t) \/ ReadPolicy(t) \/ WritePolicy(t)
  <2>1. /\ UNCHANGED <<control, steering>> /\ pc[t] # "decide"
        /\ pc'[t] = "decide" =>
             held'[t] = held[t] /\ HeldRequest(t).kind # "steer"
    <3>1. CASE ReadQueue(t)
      BY <1>0, <3>1 DEF ReadQueue, Goto, durable
    <3>2. CASE ReadPolicy(t)
      BY <1>0, <3>2 DEF ReadPolicy, Goto, durable, Holds
    <3>3. CASE WritePolicy(t)
      <4>1. HeldRequest(t).kind # "steer"
        BY <3>3 DEF WritePolicy, TypeInv, HeldInv
      <4> QED BY <1>0, <3>3, <4>1 DEF WritePolicy, Goto
    <3> QED BY <1>3, <3>1, <3>2, <3>3
  <2> QED
    BY <1>1, <2>1 DEF ReportInv, IsRecorded, HeldRequest
<1>4. CASE RecordSteering(t)
  <2>1. /\ steering' = Append(steering, held[t])
        /\ control' = control /\ held' = held
        /\ pc[t] = "act" /\ pc'[t] = "decide" /\ HeldRequest(t).kind = "steer"
    BY <1>0, <1>4 DEF RecordSteering, Goto, Holds
  <2>2. /\ Len(steering') = Len(steering) + 1 /\ Len(steering) \in Nat
        /\ \A k \in 1..Len(steering) : steering'[k] = steering[k]
        /\ steering'[Len(steering) + 1] = held[t]
    BY <1>0, <2>1
  <2>3. \A i : IsRecorded(i)' <=> IsRecorded(i) \/ i = held[t]
    BY <2>2 DEF IsRecorded
  <2> QED BY <1>1, <2>1, <2>3 DEF ReportInv, HeldRequest
<1>5. CASE TakeCancel(t) \/ TakePause(t) \/ TakeResume(t) \/ Decide(t)
  <2>1. /\ steering' = steering /\ pc'[t] # "decide"
        /\ pc[t] \in {"act", "decide"}
        /\ \E d \in Decisions : control' = Complete(control, held[t], d)
        /\ pc[t] = "act" => HeldRequest(t).kind # "steer"
    BY <1>0, <1>5 DEF TakeCancel, TakePause, TakeResume, Decide, Settle, Goto,
       Holds, Decisions
  <2>2. held[t] \in 1..Len(control.requests)
    BY <1>2, <2>1 DEF InHand
  <2>3. PICK d \in Decisions : control' = Complete(control, held[t], d)
    BY <2>1
  <2>4. /\ Len(control'.requests) = Len(control.requests)
        /\ \A i \in 1..Len(control.requests) :
              /\ control'.requests[i].kind = control.requests[i].kind
              /\ control'.requests[i].status =
                   IF i = held[t] THEN d ELSE control.requests[i].status
    BY <1>0, <2>2, <2>3, CompleteInv
  <2>5. control.requests[held[t]].kind = "steer" => IsRecorded(held[t])
    BY <2>1 DEF ReportInv, HeldRequest
  <2>6. \A i : IsRecorded(i)' <=> IsRecorded(i)
    BY <2>1 DEF IsRecorded
  <2>7. ASSUME NEW i \in 1..Len(control.requests)
        PROVE  /\ IsRecorded(i) => control'.requests[i].kind = "steer"
               /\ /\ control'.requests[i].kind = "steer"
                  /\ control'.requests[i].status = "applied"
                  => IsRecorded(i)
               /\ IsRecorded(i) /\ IsPending(control'.requests[i]) =>
                    \E u \in Threads : pc'[u] = "decide" /\ held'[u] = i
    <3>1. CASE i = held[t]
      BY <2>4, <2>5, <3>1 DEF ReportInv, IsPending, Decisions
    <3>2. CASE i # held[t]
      BY <1>1, <2>4, <3>2 DEF ReportInv, IsPending
    <3> QED BY <3>1, <3>2
  <2>8. ASSUME NEW u \in Threads, pc'[u] = "decide",
               HeldRequest(u)'.kind = "steer"
        PROVE  IsRecorded(held'[u])
    <3>1. u # t /\ pc[u] = "decide" /\ held'[u] = held[u]
      BY <1>1, <2>1, <2>8
    <3>2. held[u] \in 1..Len(control.requests)
      BY <1>2, <3>1 DEF InHand
    <3> QED BY <2>4, <2>8, <3>1, <3>2 DEF ReportInv, HeldRequest
  <2> QED BY <2>4, <2>6, <2>7, <2>8 DEF ReportInv
<1> QED BY <1>3, <1>4, <1>5 DEF Effect

\* Every step keeps ReportInv.
LEMMA StepReport ==
  ASSUME TypeInv, WaveInv, Recorded, ReportInv, [Next]_vars
  PROVE  ReportInv'
<1>0. QueueInv(control) /\ Len(control.requests) \in Nat
  BY RequestsAreFunction DEF TypeInv, QueueInv
<1>1. ASSUME NEW c \in Clients, EnqueueCommand(c) PROVE ReportInv'
  <2>1. UNCHANGED <<steering, pc, held>>
    BY <1>1 DEF EnqueueCommand, threadVars
  <2>2. Cmd[c] \in Commands /\ control' = Enqueue(control, Cmd[c])
    BY <1>1, CmdAssumption DEF EnqueueCommand, Command, Commands
  <2>3. /\ Len(control'.requests) = Len(control.requests) + 1
        /\ control'.requests[Len(control.requests) + 1].status = "pending"
        /\ \A i \in 1..Len(control.requests) :
              /\ control'.requests[i].kind = control.requests[i].kind
              /\ IsPending(control'.requests[i])
                   => IsPending(control.requests[i])
              /\ control'.requests[i].status = "applied"
                   <=> control.requests[i].status = "applied"
    BY <1>0, <2>2, EnqueueInv
  <2>4. /\ ~IsRecorded(Len(control.requests) + 1)
        /\ \A i : IsRecorded(i)' <=> IsRecorded(i)
    BY <1>0, <2>1 DEF Recorded, IsRecorded
  <2>5. \A i \in 1..Len(control'.requests) :
           i \in 1..Len(control.requests) \/ i = Len(control.requests) + 1
    BY <1>0, <2>3
  <2>6. \A t \in Threads :
           pc[t] = "decide" => held[t] \in 1..Len(control.requests)
    BY DEF TypeInv, HeldInv
  <2>7. ASSUME NEW i \in 1..Len(control'.requests)
        PROVE  /\ IsRecorded(i) => control'.requests[i].kind = "steer"
               /\ /\ control'.requests[i].kind = "steer"
                  /\ control'.requests[i].status = "applied"
                  => IsRecorded(i)
               /\ IsRecorded(i) /\ IsPending(control'.requests[i]) =>
                    \E u \in Threads : pc[u] = "decide" /\ held[u] = i
    BY <2>3, <2>4, <2>5, <2>7 DEF ReportInv
  <2>8. ASSUME NEW u \in Threads, pc[u] = "decide",
               HeldRequest(u)'.kind = "steer"
        PROVE  IsRecorded(held[u])
    BY <2>1, <2>3, <2>6, <2>8 DEF ReportInv, HeldRequest
  <2> QED BY <2>1, <2>4, <2>7, <2>8 DEF ReportInv
<1>2. CASE /\ \A t \in Threads : ~Effect(t)
           /\ \A c \in Clients : ~EnqueueCommand(c)
  <2>1. /\ UNCHANGED <<control, steering>>
        /\ \A u \in Threads :
              pc'[u] = "decide" \/ pc[u] = "decide" =>
                pc'[u] = pc[u] /\ held'[u] = held[u]
    BY <1>2, OtherStep DEF InHand
  <2>2. \A u \in Threads : pc'[u] = "decide" => HeldRequest(u)' = HeldRequest(u)
    BY <2>1 DEF HeldRequest
  <2>3. \A i : IsRecorded(i)' <=> IsRecorded(i)
    BY <2>1 DEF IsRecorded
  <2>4. ASSUME NEW i \in 1..Len(control.requests),
               IsRecorded(i), IsPending(control.requests[i])
        PROVE  \E u \in Threads : pc'[u] = "decide" /\ held'[u] = i
    BY <2>1, <2>4 DEF ReportInv
  <2> QED BY <2>1, <2>2, <2>3, <2>4 DEF ReportInv
<1> QED BY <1>1, <1>2, EffectReport

\* What the queue reports of steering is what the next plan will be made from:
\* an instruction that counts as applied is recorded, and one that is recorded
\* waits only for the thread that recorded it, however many threads drain the
\* queue at once (engine.py _process_controls, _wait_paused).
THEOREM SteeringIsReported == Spec => []SteeringReported
<1>1. ASSUME Init PROVE Recorded /\ ReportInv
  <2>1. steering = << >> /\ \A t \in Threads : pc[t] # "decide"
    BY <1>1 DEF Init
  <2>2. \A i : ~IsRecorded(i)
    BY <2>1 DEF IsRecorded
  <2>3. \A i \in 1..Len(EmptyQueue.requests) :
           EmptyQueue.requests[i].kind # "steer"
    BY DEF EmptyQueue
  <2>4. \A i \in 1..Len(CancelledBefore.requests) :
           CancelledBefore.requests[i].kind # "steer"
    BY CancelledBeforeInv
  <2>5. \A i \in 1..Len(control.requests) : control.requests[i].kind # "steer"
    BY <1>1, <2>3, <2>4 DEF Init
  <2> QED BY <2>1, <2>2, <2>5 DEF Recorded, ReportInv
<1>2. TypeInv /\ WaveInv /\ Recorded /\ ReportInv /\ [Next]_vars
        => Recorded' /\ ReportInv'
  BY StepRecorded, StepReport
<1>3. ReportInv => SteeringReported
  BY DEF ReportInv, SteeringReported, IsRecorded
<1> QED BY <1>1, <1>2, <1>3, TypeInvariant, WaveInvariant, PTL DEF Spec

-----------------------------------------------------------------------------
(* One drain at a time.  No lock covers a drain; what keeps two threads    *)
(* from draining the queue at once is that at most one thread of a wave    *)
(* can be interrupted.  What follows is about the jobs where that is so.   *)

\* A wave has one task.
OneTask == \A v, w \in Workers : v = w

\* No command cancels the job: a cancellation interrupts every task.
NoCancelSent == \A c \in Clients : Cmd[c].kind # "cancel"

\* At most one thread of a wave can ever be interrupted.
OneInterrupted ==
  OneTask \/ (NoCancelSent /\ \A v, w \in Interruptible : v = w)

\* Without a command to cancel, only interruptible tasks are interrupted.
DrainInv ==
  NoCancelSent =>
    /\ \A i \in Pending(control) : control.requests[i].kind # "cancel"
    /\ \A w \in Workers : pc[w] \in Busy => w \in Interruptible

\* No two threads are inside a drain.
OneBusy == \A t, u \in Threads : pc[t] \in Busy /\ pc[u] \in Busy => t = u

\* The threads of a wave drain only while the main thread does not.
LEMMA DrainsApart ==
  ASSUME OneInterrupted, TypeInv, WaveInv, DrainInv
  PROVE  OneBusy
<1> SUFFICES ASSUME NEW t \in Threads, NEW u \in Threads,
                    pc[t] \in Busy, pc[u] \in Busy
             PROVE  t = u
  BY DEF OneBusy
<1>1. \A w \in Workers : pc[w] \in Busy => pc[Main] \notin Busy
  BY DEF WaveInv, Quiet, Busy, Draining
<1>2. CASE t = Main \/ u = Main
  BY <1>1, <1>2 DEF Threads
<1>3. CASE t \in Workers /\ u \in Workers
  BY <1>3 DEF OneInterrupted, OneTask, DrainInv
<1> QED BY <1>2, <1>3 DEF Threads

\* Only an interruption begins a drain in a thread of a wave.
LEMMA BusyStep ==
  ASSUME NEW t \in Threads, TypeInv, ThreadStep(t), pc'[t] \in Busy
  PROVE  pc[t] \in Busy \/ Interrupt(t)
<1>0. pc \in [Threads -> PCs]
  BY DEF TypeInv, TypeOK
<1> USE <1>0 DEF Busy, Draining, Throw, Goto
<1>1. CASE InvocationFails(t) \/ Reinvoke(t)
  BY <1>1 DEF InvocationFails, Reinvoke
<1>2. CASE Controls(t)
  BY <1>2 DEF Controls, ReadQueue, TakeCancel, ApplyCancel,
     TakePause, EnterPause, TakeResume, LeavePause, PauseTimeout, ReadPolicy,
     WritePolicy, RecordSteering, ControlFails, Decide, ReplanAtEnd, Holds
<1> QED BY <1>1, <1>2 DEF ThreadStep

\* What a step does to the pending requests.
LEMMA PendingStep ==
  ASSUME TypeInv, [Next]_vars
  PROVE  \A i \in Pending(control') :
           \/ /\ i \in Pending(control)
              /\ control'.requests[i].kind = control.requests[i].kind
           \/ /\ i = Len(control.requests) + 1
              /\ \E c \in Clients : control'.requests[i].kind = Cmd[c].kind
<1>0. /\ QueueInv(control) /\ Len(control.requests) \in Nat
      /\ Pending(control) \subseteq 1..Len(control.requests)
  BY RequestsAreFunction DEF TypeInv, QueueInv, Pending
<1>1. CASE control' = control
  BY <1>1
<1>2. ASSUME NEW k \in 1..Len(control.requests), NEW d \in Decisions,
             control' = Complete(control, k, d)
      PROVE  \A i \in Pending(control') :
                /\ i \in Pending(control)
                /\ control'.requests[i].kind = control.requests[i].kind
  <2>1. /\ Len(control'.requests) = Len(control.requests)
        /\ \A i \in 1..Len(control.requests) :
              /\ control'.requests[i].kind = control.requests[i].kind
              /\ control'.requests[i].status =
                   IF i = k THEN d ELSE control.requests[i].status
    BY <1>0, <1>2, CompleteInv
  <2> QED BY <2>1 DEF Pending, IsPending, Decisions
<1>3. ASSUME NEW c \in Clients, Cmd[c] \in Commands,
             control' = Enqueue(control, Cmd[c])
      PROVE  \A i \in Pending(control') :
               \/ /\ i \in Pending(control)
                  /\ control'.requests[i].kind = control.requests[i].kind
               \/ /\ i = Len(control.requests) + 1
                  /\ control'.requests[i].kind = Cmd[c].kind
  <2>1. /\ Len(control'.requests) = Len(control.requests) + 1
        /\ control'.requests[Len(control.requests) + 1].kind = Cmd[c].kind
        /\ \A i \in 1..Len(control.requests) :
              /\ control'.requests[i].kind = control.requests[i].kind
              /\ IsPending(control'.requests[i])
                   => IsPending(control.requests[i])
    BY <1>0, <1>3, EnqueueInv
  <2>2. \A i \in 1..Len(control'.requests) :
           i \in 1..Len(control.requests) \/ i = Len(control.requests) + 1
    BY <1>0, <2>1
  <2> QED BY <2>1, <2>2 DEF Pending
<1> QED BY <1>1, <1>2, <1>3, QueueStep

\* Every step keeps DrainInv.
LEMMA StepDrain ==
  ASSUME TypeInv, WaveInv, DrainInv, [Next]_vars
  PROVE  DrainInv'
<1>0. /\ pc \in [Threads -> PCs] /\ Main \in Threads /\ Main \notin Workers
      /\ Workers \subseteq Threads
  BY WorkersAssumption DEF TypeInv, TypeOK, Threads
<1> SUFFICES ASSUME NoCancelSent
             PROVE  /\ \A i \in Pending(control') :
                          control'.requests[i].kind # "cancel"
                    /\ \A w \in Workers : pc'[w] \in Busy => w \in Interruptible
  BY DEF DrainInv
<1>1. \A i \in Pending(control') : control'.requests[i].kind # "cancel"
  BY PendingStep DEF DrainInv, NoCancelSent
<1>2. ASSUME NEW w \in Workers, pc'[w] \in Busy, pc'[w] # pc[w]
      PROVE  w \in Interruptible
  <2>1. ASSUME NEW t \in Threads, ThreadStep(t) PROVE w \in Interruptible
    <3>1. t = w
      BY <1>0, <1>2, <2>1, ThreadFrame
    <3>2. pc[w] \in Busy \/ Interrupt(w)
      BY <1>2, <2>1, <3>1, BusyStep
    <3>3. CASE Interrupt(w)
      BY <1>0, <3>3 DEF Interrupt, InterruptReason, Task, DrainInv
    <3> QED BY <3>2, <3>3 DEF DrainInv
  <2>2. ASSUME NEW v \in Workers, TaskStep(v) PROVE FALSE
    BY <1>0, <1>2, <2>2, TaskFrame DEF Busy, Draining
  <2>3. ASSUME MainStep PROVE FALSE
    BY <1>2, <2>3, MainFrame DEF Busy, Draining
  <2>4. ASSUME \/ \E c \in Clients : ClientStep(c)
               \/ Terminated \/ UNCHANGED vars
        PROVE  FALSE
    BY <1>2, <2>4, ClientFrame DEF Terminated, vars, threadVars
  <2> QED BY <2>1, <2>2, <2>3, <2>4 DEF Next
<1>3. \A w \in Workers : pc'[w] \in Busy => w \in Interruptible
  BY <1>2 DEF DrainInv
<1> QED BY <1>1, <1>3

\* When at most one thread can be interrupted no two threads are ever inside
\* a drain, though no lock keeps them apart (engine.py _process_controls).
THEOREM OneDrainAtATime ==
  ASSUME OneInterrupted
  PROVE  Spec => []OneBusy
<1>1. ASSUME Init PROVE DrainInv
  <2>1. control \in {EmptyQueue, CancelledBefore}
    BY <1>1 DEF Init
  <2>2. \A i \in Pending(EmptyQueue) : FALSE
    BY DEF Pending, EmptyQueue
  <2>3. \A i \in Pending(CancelledBefore) :
           CancelledBefore.requests[i].kind # "cancel"
    BY CancelledBeforeInv DEF Pending
  <2>4. \A w \in Workers : pc[w] = "idle"
    BY <1>1, WorkersAssumption DEF Init, Threads
  <2> QED BY <2>1, <2>2, <2>3, <2>4 DEF DrainInv, Busy, Draining
<1> QED
  BY <1>1, StepDrain, DrainsApart, TypeInvariant, WaveInvariant, PTL DEF Spec

\* The recorded steering is in order and older than the steering requests that
\* wait, but for the one that a thread has recorded and not completed yet; a
\* thread has the oldest of them in its hand.
OrderInv ==
  /\ SteeringInOrder
  /\ \A i \in 1..Len(steering), j \in Pending(control) :
       control.requests[j].kind = "steer" =>
         \/ steering[i] < j
         \/ \E t \in Threads : pc[t] = "decide" /\ held[t] = j
  /\ \A t \in Threads : Holds(t, "steer") =>
       /\ \A i \in 1..Len(steering) : steering[i] < held[t]
       /\ \A j \in Pending(control) :
            control.requests[j].kind = "steer" => held[t] <= j

\* A thread that reads a steering request has the oldest one in its hand, and
\* records it after all the others (control.py pending).
LEMMA EffectOrder ==
  ASSUME TypeInv, OneBusy, Recorded, OrderInv, NEW t \in Threads, Effect(t)
  PROVE  OrderInv'
<1>0. /\ pc \in [Threads -> PCs] /\ held \in [Threads -> Nat]
      /\ QueueInv(control) /\ Len(control.requests) \in Nat
      /\ Pending(control) \subseteq 1..Len(control.requests)
      /\ steering \in Seq(Nat)
  BY RequestsAreFunction DEF TypeInv, TypeOK, QueueInv, Pending
<1>1. /\ pc[t] \in Busy
      /\ \A u \in Threads : u # t => pc[u] \notin Busy /\ pc'[u] = pc[u]
  <2>1. pc[t] \in Busy
    BY DEF Effect, ReadQueue, ReadPolicy, WritePolicy, RecordSteering,
       TakeCancel, TakePause, TakeResume, Decide, Holds, Busy, Draining
  <2> QED BY <2>1, OthersKeep DEF Effect, ThreadStep, Controls, OneBusy
<1>2. /\ \A u \in Threads : u # t => pc'[u] \notin Busy
      /\ \A u \in Threads : u # t =>
           pc[u] # "decide" /\ ~Holds(u, "steer") /\ ~Holds(u, "steer")'
  BY <1>1 DEF Busy, Draining, Holds
<1>3. CASE ReadQueue(t)
  <2>1. /\ UNCHANGED <<control, steering>>
        /\ pc[t] = "drain" /\ held'[t] = First(control) /\ pc'[t] = "act"
        /\ Pending(control) # {}
    BY <1>0, <1>3 DEF ReadQueue, Goto, durable
  <2>2. /\ First(control) \in Pending(control)
        /\ \A j \in Pending(control) \ {First(control)} :
              Before(control, First(control), j)
    BY <1>0, <2>1, FirstPending DEF QueueInv
  <2>3. \A i \in 1..Len(steering), j \in Pending(control) :
           control.requests[j].kind = "steer" => steering[i] < j
    BY <1>2, <2>1 DEF OrderInv
  <2>4. ASSUME control.requests[First(control)].kind = "steer",
               NEW j \in Pending(control), control.requests[j].kind = "steer"
        PROVE  First(control) <= j
    BY <1>0, <2>2, <2>4 DEF Before, Priority
  <2>5. SteeringInOrder'
    BY <2>1 DEF OrderInv, SteeringInOrder
  <2>6. Holds(t, "steer")' =>
          /\ control.requests[First(control)].kind = "steer"
          /\ \A i \in 1..Len(steering) : steering[i] < held'[t]
          /\ \A j \in Pending(control) :
               control.requests[j].kind = "steer" => held'[t] <= j
    BY <2>1, <2>2, <2>3, <2>4 DEF Holds, HeldRequest
  <2> QED BY <1>2, <2>1, <2>3, <2>5, <2>6 DEF OrderInv
<1>4. CASE RecordSteering(t)
  <2>1. /\ steering' = Append(steering, held[t])
        /\ control' = control /\ held' = held
        /\ pc'[t] = "decide" /\ Holds(t, "steer")
    BY <1>0, <1>4 DEF RecordSteering, Goto
  <2>2. /\ \A i \in 1..Len(steering) : steering[i] < held[t]
        /\ \A j \in Pending(control) :
             control.requests[j].kind = "steer" => held[t] <= j
    BY <2>1 DEF OrderInv
  <2>3. /\ Len(steering') = Len(steering) + 1 /\ Len(steering) \in Nat
        /\ \A i \in 1..Len(steering) :
              steering'[i] = steering[i] /\ steering[i] \in Nat
        /\ steering'[Len(steering) + 1] = held[t] /\ held[t] \in Nat
    BY <1>0, <2>1
  <2>4. SteeringInOrder'
    <3> SUFFICES ASSUME NEW i \in 1..Len(steering) + 1,
                        NEW j \in 1..Len(steering) + 1, i < j
                 PROVE  steering'[i] < steering'[j]
      BY <2>3 DEF SteeringInOrder
    <3>1. i \in 1..Len(steering)
      BY <2>3
    <3>2. CASE j = Len(steering) + 1
      BY <2>2, <2>3, <3>1, <3>2
    <3>3. CASE j \in 1..Len(steering)
      BY <2>3, <3>1, <3>3 DEF OrderInv, SteeringInOrder
    <3> QED BY <2>3, <3>2, <3>3
  <2>5. ASSUME NEW i \in 1..Len(steering'), NEW j \in Pending(control),
               control.requests[j].kind = "steer"
        PROVE  steering'[i] < j \/ (pc'[t] = "decide" /\ held'[t] = j)
    <3>1. j \in Nat /\ held[t] <= j
      BY <1>0, <2>2, <2>5
    <3>2. steering'[i] <= held[t] /\ steering'[i] \in Nat
      BY <2>2, <2>3
    <3> QED BY <2>1, <2>3, <3>1, <3>2
  <2>6. ~Holds(t, "steer")'
    BY <2>1 DEF Holds
  <2> QED BY <1>2, <2>1, <2>4, <2>5, <2>6 DEF OrderInv
<1>5. CASE ReadPolicy(t) \/ WritePolicy(t)
  <2>1. /\ UNCHANGED <<control, steering>> /\ pc[t] # "decide"
        /\ pc'[t] # "act"
    BY <1>0, <1>5 DEF ReadPolicy, WritePolicy, Goto, Holds, durable
  <2>2. SteeringInOrder' /\ ~Holds(t, "steer")'
    BY <2>1 DEF OrderInv, SteeringInOrder, Holds
  <2>3. \A i \in 1..Len(steering), j \in Pending(control) :
           control.requests[j].kind = "steer" => steering[i] < j
    BY <1>2, <2>1 DEF OrderInv
  <2> QED BY <1>2, <2>1, <2>2, <2>3 DEF OrderInv
<1>6. CASE TakeCancel(t) \/ TakePause(t) \/ TakeResume(t) \/ Decide(t)
  <2>1. /\ steering' = steering /\ pc'[t] \notin {"act", "decide"}
        /\ \E d \in Decisions : control' = Complete(control, held[t], d)
        /\ pc[t] \in {"act", "decide"}
    BY <1>0, <1>6 DEF TakeCancel, TakePause, TakeResume, Decide, Settle, Goto,
       Holds, Decisions
  <2>2. held[t] \in 1..Len(control.requests)
    BY <2>1 DEF TypeInv, HeldInv
  <2>3. /\ Len(control'.requests) = Len(control.requests)
        /\ \E d \in Decisions : \A i \in 1..Len(control.requests) :
              /\ control'.requests[i].kind = control.requests[i].kind
              /\ control'.requests[i].status =
                   IF i = held[t] THEN d ELSE control.requests[i].status
    <3>1. PICK d \in Decisions : control' = Complete(control, held[t], d)
      BY <2>1
    <3>2. /\ Len(control'.requests) = Len(control.requests)
          /\ \A i \in 1..Len(control.requests) :
                /\ control'.requests[i].kind = control.requests[i].kind
                /\ control'.requests[i].status =
                     IF i = held[t] THEN d ELSE control.requests[i].status
      BY <1>0, <2>2, <3>1, CompleteInv
    <3> QED BY <3>2
  <2>4. \A j \in Pending(control') :
           /\ j \in Pending(control) /\ j # held[t]
           /\ control'.requests[j].kind = control.requests[j].kind
    BY <2>3 DEF Pending, IsPending, Decisions
  <2>5. SteeringInOrder' /\ ~Holds(t, "steer")'
    BY <2>1 DEF OrderInv, SteeringInOrder, Holds
  <2>6. \A i \in 1..Len(steering), j \in Pending(control') :
           control'.requests[j].kind = "steer" => steering[i] < j
    BY <1>2, <2>4 DEF OrderInv
  <2> QED BY <1>2, <2>1, <2>5, <2>6 DEF OrderInv
<1> QED BY <1>3, <1>4, <1>5, <1>6 DEF Effect

\* Every step keeps OrderInv.
LEMMA StepOrder ==
  ASSUME TypeInv, WaveInv, OneBusy, Recorded, OrderInv, [Next]_vars
  PROVE  OrderInv'
<1>0. /\ QueueInv(control) /\ Len(control.requests) \in Nat
      /\ Pending(control) \subseteq 1..Len(control.requests)
      /\ steering \in Seq(Nat)
  BY RequestsAreFunction DEF TypeInv, TypeOK, QueueInv, Pending
<1>1. ASSUME NEW c \in Clients, EnqueueCommand(c) PROVE OrderInv'
  <2>1. UNCHANGED <<steering, pc, held>>
    BY <1>1 DEF EnqueueCommand, threadVars
  <2>2. \A j \in Pending(control') :
           \/ /\ j \in Pending(control)
              /\ control'.requests[j].kind = control.requests[j].kind
           \/ j = Len(control.requests) + 1
    BY PendingStep
  <2>3. \A i \in 1..Len(steering) : steering[i] < Len(control.requests) + 1
    BY <1>0 DEF Recorded
  <2>4. \A t \in Threads : Holds(t, "steer")' =>
           Holds(t, "steer") /\ held[t] < Len(control.requests) + 1
    <3>1. \A t \in Threads :
             pc[t] = "act" => held[t] \in 1..Len(control.requests)
      BY DEF TypeInv, HeldInv
    <3>2. \A i \in 1..Len(control.requests) :
             control'.requests[i].kind = control.requests[i].kind
      BY RequestsKept
    <3> QED BY <1>0, <2>1, <3>1, <3>2 DEF Holds, HeldRequest
  <2>5. SteeringInOrder'
    BY <2>1 DEF OrderInv, SteeringInOrder
  <2>6. \A i \in 1..Len(steering), j \in Pending(control') :
           control'.requests[j].kind = "steer" =>
             \/ steering[i] < j
             \/ \E t \in Threads : pc[t] = "decide" /\ held[t] = j
    BY <2>2, <2>3 DEF OrderInv
  <2>7. ASSUME NEW t \in Threads, Holds(t, "steer")'
        PROVE  /\ \A i \in 1..Len(steering) : steering[i] < held[t]
               /\ \A j \in Pending(control') :
                    control'.requests[j].kind = "steer" => held[t] <= j
    <3>1. Holds(t, "steer") /\ held[t] < Len(control.requests) + 1
          /\ held[t] \in Nat
      BY <2>4, <2>7 DEF TypeInv, TypeOK
    <3> QED BY <1>0, <2>2, <3>1 DEF OrderInv
  <2> QED BY <2>1, <2>5, <2>6, <2>7 DEF OrderInv
<1>2. CASE /\ \A t \in Threads : ~Effect(t)
           /\ \A c \in Clients : ~EnqueueCommand(c)
  <2>1. /\ UNCHANGED <<control, steering>>
        /\ \A u \in Threads :
              /\ pc'[u] = "act" => pc[u] = "act" /\ held'[u] = held[u]
              /\ pc[u] = "decide" => pc'[u] = "decide" /\ held'[u] = held[u]
    BY <1>2, OtherStep DEF InHand
  <2>2. SteeringInOrder'
    BY <2>1 DEF OrderInv, SteeringInOrder
  <2>3. \A u \in Threads :
           Holds(u, "steer")' => Holds(u, "steer") /\ held'[u] = held[u]
    BY <2>1 DEF Holds, HeldRequest
  <2> QED BY <2>1, <2>2, <2>3 DEF OrderInv
<1> QED BY <1>1, <1>2, EffectOrder

\* When at most one thread of a wave can be interrupted, steering is recorded
\* in the order in which it was sent, each request once (engine.py
\* _process_controls, control.py pending).
THEOREM SteeringIsOrdered ==
  ASSUME OneInterrupted
  PROVE  Spec => []SteeringInOrder
<1>1. Init => Recorded /\ OrderInv
  <2> SUFFICES ASSUME Init PROVE Recorded /\ OrderInv
    OBVIOUS
  <2>1. steering = << >> /\ \A t \in Threads : pc[t] # "act"
    BY DEF Init
  <2> QED BY <2>1 DEF Recorded, OrderInv, SteeringInOrder, Holds
<1>2. TypeInv /\ WaveInv /\ OneBusy /\ Recorded /\ OrderInv /\ [Next]_vars
        => Recorded' /\ OrderInv'
  BY StepRecorded, StepOrder
<1>3. OrderInv => SteeringInOrder
  BY DEF OrderInv
<1> QED
  BY <1>1, <1>2, <1>3, TypeInvariant, WaveInvariant, OneDrainAtATime, PTL
  DEF Spec

\* The speed changes of a queue that were applied.
Changes(q) ==
  {i \in 1..Len(q.requests) : /\ q.requests[i].kind = "speed-change"
                              /\ q.requests[i].status = "applied"}

\* A speed change whose revision is written and that is not completed yet.
Written(t) == pc[t] = "decide" /\ HeldRequest(t).kind = "speed-change"

\* A speed change that a thread has in its hand is undecided, the revision the
\* thread read is the present one, and between the policy and the queue only
\* the change that is written and not yet completed makes a difference.
RevisionInv ==
  /\ \A t \in Threads :
       pc[t] \in InHand /\ HeldRequest(t).kind = "speed-change" =>
         IsPending(HeldRequest(t))
  /\ \A t \in Threads :
       pc[t] = "speed-write" =>
         base[t] = revision /\ HeldRequest(t).kind = "speed-change"
  /\ revision = Cardinality(Changes(control))
                  + (IF \E t \in Threads : Written(t) THEN 2 ELSE 1)

\* How many changes were applied.
LEMMA ChangesCount ==
  ASSUME TypeInv
  PROVE  IsFiniteSet(Changes(control)) /\ Cardinality(Changes(control)) \in Nat
<1>1. Len(control.requests) \in Nat
  BY RequestsAreFunction DEF TypeInv, QueueInv
<1>2. IsFiniteSet(1..Len(control.requests))
  BY <1>1, FS_Interval
<1>3. IsFiniteSet(Changes(control))
  BY <1>2, FS_Subset DEF Changes
<1> QED BY <1>3, FS_CardinalityType

\* A thread reads the policy, writes its next revision and completes the
\* request, each in a step of its own and with no other drain between them
\* (engine.py _apply_speed_control).
LEMMA EffectRevision ==
  ASSUME TypeInv, OneBusy, RevisionInv, NEW t \in Threads, Effect(t)
  PROVE  RevisionInv'
<1>0. /\ pc \in [Threads -> PCs] /\ held \in [Threads -> Nat]
      /\ base \in [Threads -> Nat] /\ revision \in Nat
      /\ QueueInv(control) /\ Len(control.requests) \in Nat
      /\ Cardinality(Changes(control)) \in Nat
      /\ IsFiniteSet(Changes(control))
  BY RequestsAreFunction, ChangesCount DEF TypeInv, TypeOK, QueueInv
<1>1. /\ pc[t] \in Busy
      /\ \A u \in Threads : u # t => pc[u] \notin Busy /\ pc'[u] = pc[u]
  <2>1. pc[t] \in Busy
    BY DEF Effect, ReadQueue, ReadPolicy, WritePolicy, RecordSteering,
       TakeCancel, TakePause, TakeResume, Decide, Holds, Busy, Draining
  <2> QED BY <2>1, OthersKeep DEF Effect, ThreadStep, Controls, OneBusy
<1>2. \A u \in Threads : u # t =>
         /\ pc[u] \notin InHand /\ pc'[u] \notin InHand
         /\ ~Written(u) /\ ~Written(u)'
  BY <1>1 DEF Busy, Draining, InHand, Written
<1>3. ASSUME /\ pc'[t] \in InHand /\ HeldRequest(t)'.kind = "speed-change"
                  => IsPending(HeldRequest(t)')
             /\ pc'[t] = "speed-write" =>
                  /\ base'[t] = revision'
                  /\ HeldRequest(t)'.kind = "speed-change"
             /\ revision' = Cardinality(Changes(control'))
                              + (IF Written(t)' THEN 2 ELSE 1)
      PROVE  RevisionInv'
  <2>1. (\E u \in Threads : Written(u)') <=> Written(t)'
    BY <1>2
  <2>2. \A u \in Threads : pc'[u] \in InHand => u = t
    BY <1>2
  <2> QED BY <1>3, <2>1, <2>2 DEF RevisionInv, InHand
<1>4. /\ pc[t] \in InHand /\ HeldRequest(t).kind = "speed-change" =>
           IsPending(HeldRequest(t))
      /\ pc[t] = "speed-write" =>
           base[t] = revision /\ HeldRequest(t).kind = "speed-change"
      /\ revision = Cardinality(Changes(control))
                      + (IF Written(t) THEN 2 ELSE 1)
  <2>1. (\E u \in Threads : Written(u)) <=> Written(t)
    BY <1>2
  <2> QED BY <2>1 DEF RevisionInv
<1>5. CASE ReadQueue(t)
  <2>1. /\ UNCHANGED <<control, revision>> /\ Pending(control) # {}
        /\ held'[t] = First(control) /\ pc[t] = "drain" /\ pc'[t] = "act"
    BY <1>0, <1>5 DEF ReadQueue, Goto, durable
  <2>2. IsPending(control.requests[First(control)])
    BY <1>0, <2>1, FirstPending DEF QueueInv, Pending
  <2>3. ~Written(t) /\ ~Written(t)'
    BY <2>1 DEF Written
  <2> QED BY <1>3, <1>4, <2>1, <2>2, <2>3 DEF HeldRequest
<1>6. CASE ReadPolicy(t)
  <2>1. /\ UNCHANGED <<control, revision, held>> /\ base'[t] = revision
        /\ pc[t] = "act" /\ pc'[t] = "speed-write"
        /\ HeldRequest(t).kind = "speed-change"
    BY <1>0, <1>6 DEF ReadPolicy, Holds, Goto, durable
  <2>2. ~Written(t) /\ ~Written(t)' /\ HeldRequest(t)' = HeldRequest(t)
    BY <2>1 DEF Written, HeldRequest
  <2> QED BY <1>3, <1>4, <2>1, <2>2 DEF InHand
<1>7. CASE WritePolicy(t)
  <2>1. /\ UNCHANGED <<control, held>> /\ revision' = base[t] + 1
        /\ pc[t] = "speed-write" /\ pc'[t] = "decide"
    BY <1>0, <1>7 DEF WritePolicy, Goto
  <2>2. ~Written(t) /\ Written(t)' /\ HeldRequest(t)' = HeldRequest(t)
    BY <1>4, <2>1 DEF Written, HeldRequest
  <2>3. revision' = Cardinality(Changes(control)) + 2
    BY <1>0, <1>4, <2>1, <2>2
  <2> QED BY <1>3, <1>4, <2>1, <2>2, <2>3 DEF InHand
<1>8. CASE RecordSteering(t)
  <2>1. /\ UNCHANGED <<control, held, revision>>
        /\ pc[t] = "act" /\ pc'[t] = "decide" /\ HeldRequest(t).kind = "steer"
    BY <1>0, <1>8 DEF RecordSteering, Holds, Goto
  <2>2. ~Written(t) /\ ~Written(t)' /\ HeldRequest(t)' = HeldRequest(t)
    BY <2>1 DEF Written, HeldRequest
  <2> QED BY <1>3, <1>4, <2>1, <2>2
<1>9. CASE TakeCancel(t) \/ TakePause(t) \/ TakeResume(t) \/ Decide(t)
  <2>1. /\ revision' = revision /\ pc'[t] \notin InHand
        /\ pc[t] \in {"act", "decide"}
        /\ \E d \in Decisions : control' = Complete(control, held[t], d)
        /\ pc[t] = "act" => HeldRequest(t).kind # "speed-change"
        /\ pc[t] = "decide" => control' = Complete(control, held[t], "applied")
    BY <1>0, <1>9 DEF TakeCancel, TakePause, TakeResume, Decide, Settle, Goto,
       Holds, Decisions, InHand
  <2>2. held[t] \in 1..Len(control.requests)
    BY <2>1 DEF TypeInv, HeldInv
  <2>3. PICK d \in Decisions : /\ control' = Complete(control, held[t], d)
                               /\ pc[t] = "decide" => d = "applied"
    BY <2>1 DEF Decisions
  <2>4. /\ Len(control'.requests) = Len(control.requests)
        /\ \A i \in 1..Len(control.requests) :
              /\ control'.requests[i].kind = control.requests[i].kind
              /\ control'.requests[i].status =
                   IF i = held[t] THEN d ELSE control.requests[i].status
    BY <1>0, <2>2, <2>3, CompleteInv
  <2>5. ~Written(t)'
    BY <2>1 DEF Written, InHand
  <2>6. CASE Written(t)
    <3>1. Changes(control') = Changes(control) \cup {held[t]}
      BY <2>2, <2>3, <2>4, <2>6 DEF Changes, Written, HeldRequest
    <3>2. held[t] \notin Changes(control)
      BY <1>4, <2>6 DEF Changes, Written, HeldRequest, IsPending, InHand
    <3>3. Cardinality(Changes(control')) = Cardinality(Changes(control)) + 1
      BY <1>0, <3>1, <3>2, FS_AddElement
    <3>4. revision' = Cardinality(Changes(control')) + 1
      BY <1>0, <1>4, <2>1, <2>6, <3>3
    <3> QED BY <1>3, <2>1, <2>5, <3>4 DEF InHand
  <2>7. CASE ~Written(t)
    <3>1. control.requests[held[t]].kind # "speed-change"
      BY <2>1, <2>7 DEF Written, HeldRequest
    <3>2. Changes(control') = Changes(control)
      BY <2>4, <3>1 DEF Changes
    <3> QED BY <1>3, <1>4, <2>1, <2>5, <2>7, <3>2 DEF InHand
  <2> QED BY <2>6, <2>7
<1> QED BY <1>5, <1>6, <1>7, <1>8, <1>9 DEF Effect

\* Every step keeps RevisionInv.
LEMMA StepRevision ==
  ASSUME TypeInv, WaveInv, OneBusy, RevisionInv, [Next]_vars
  PROVE  RevisionInv'
<1>0. QueueInv(control) /\ Len(control.requests) \in Nat
  BY RequestsAreFunction DEF TypeInv, QueueInv
<1>1. ASSUME NEW c \in Clients, EnqueueCommand(c) PROVE RevisionInv'
  <2>1. UNCHANGED <<revision, pc, held, base>>
    BY <1>1 DEF EnqueueCommand, threadVars
  <2>2. Cmd[c] \in Commands /\ control' = Enqueue(control, Cmd[c])
    BY <1>1, CmdAssumption DEF EnqueueCommand, Command, Commands
  <2>3. /\ Len(control'.requests) = Len(control.requests) + 1
        /\ control'.requests[Len(control.requests) + 1].status = "pending"
        /\ \A i \in 1..Len(control.requests) :
              /\ control'.requests[i].kind = control.requests[i].kind
              /\ control'.requests[i].kind # "steer" =>
                   control'.requests[i].status = control.requests[i].status
              /\ control'.requests[i].status = "applied"
                   <=> control.requests[i].status = "applied"
    BY <1>0, <2>2, EnqueueInv
  <2>4. Changes(control') = Changes(control)
    <3>1. \A i \in 1..Len(control'.requests) :
             i \in 1..Len(control.requests) \/ i = Len(control.requests) + 1
      BY <1>0, <2>3
    <3>2. \A i \in 1..Len(control.requests) : i \in 1..Len(control'.requests)
      BY <1>0, <2>3
    <3> QED BY <2>3, <3>1, <3>2 DEF Changes
  <2>5. \A t \in Threads : pc[t] \in InHand =>
           /\ HeldRequest(t)'.kind = HeldRequest(t).kind
           /\ HeldRequest(t).kind = "speed-change" /\ IsPending(HeldRequest(t))
                => IsPending(HeldRequest(t)')
    <3>1. \A t \in Threads :
             pc[t] \in InHand => held[t] \in 1..Len(control.requests)
      BY DEF TypeInv, HeldInv, InHand
    <3> QED BY <2>1, <2>3, <3>1 DEF HeldRequest, IsPending
  <2>6. \A t \in Threads : Written(t)' <=> Written(t)
    BY <2>1, <2>5 DEF Written, InHand
  <2> QED BY <2>1, <2>4, <2>5, <2>6 DEF RevisionInv, InHand
<1>2. CASE /\ \A t \in Threads : ~Effect(t)
           /\ \A c \in Clients : ~EnqueueCommand(c)
  <2>1. /\ UNCHANGED <<control, revision>>
        /\ \A u \in Threads :
              pc'[u] \in InHand \/ pc[u] \in {"speed-write", "decide"} =>
                /\ pc'[u] = pc[u] /\ held'[u] = held[u] /\ base'[u] = base[u]
    BY <1>2, OtherStep
  <2>2. \A u \in Threads : pc'[u] \in InHand => HeldRequest(u)' = HeldRequest(u)
    BY <2>1 DEF HeldRequest
  <2>3. \A u \in Threads : Written(u)' <=> Written(u)
    BY <2>1, <2>2 DEF Written, InHand, HeldRequest
  <2> QED BY <2>1, <2>2, <2>3 DEF RevisionInv, InHand
<1> QED BY <1>1, <1>2, EffectRevision

\* When at most one thread of a wave can be interrupted, every speed change
\* that was applied made one revision of the policy of its own, and nothing
\* else did (engine.py _apply_speed_control).
THEOREM ChangeIsRevision ==
  ASSUME OneInterrupted
  PROVE  Spec => []RevisionPerChange
<1>1. ASSUME Init PROVE RevisionInv
  <2>1. \A t \in Threads : pc[t] \notin InHand
    BY <1>1 DEF Init, InHand
  <2>2. Changes(EmptyQueue) = {}
    BY DEF Changes, EmptyQueue
  <2>3. Changes(CancelledBefore) = {}
    BY CancelledBeforeInv DEF Changes
  <2>4. Changes(control) = {} /\ revision = 1
    BY <1>1, <2>2, <2>3 DEF Init
  <2>5. Cardinality(Changes(control)) = 0
    BY <2>4, FS_EmptySet
  <2> QED BY <2>1, <2>4, <2>5 DEF RevisionInv, Written, InHand
<1>2. TypeInv /\ WaveInv /\ OneBusy /\ RevisionInv /\ [Next]_vars
        => RevisionInv'
  BY StepRevision
<1>3. TypeInv /\ RevisionInv => RevisionPerChange
  <2> SUFFICES ASSUME TypeInv, RevisionInv,
                      \A t \in Threads : pc[t] \notin {"speed-write", "decide"}
               PROVE  revision = 1 + Cardinality(Changes(control))
    BY DEF RevisionPerChange, Changes
  <2>1. ~\E t \in Threads : Written(t)
    BY DEF Written
  <2> QED BY <2>1, ChangesCount DEF RevisionInv
<1> QED
  BY <1>1, <1>2, <1>3, TypeInvariant, WaveInvariant, OneDrainAtATime, PTL
  DEF Spec

\* A thread that waits in a pause is inside a drain, and a job is marked paused
\* only while one waits, or on the way from the wait to its end.
PauseInv ==
  /\ \A t \in Threads : inPause[t] => pc[t] \in Busy
  /\ pc[Main] = "join" => \E w \in Workers : pc[w] \in {"done", "raised"}
  /\ status = "paused" =>
       \/ pc[Main] \in {"join", "raised", "plan", "exit"}
       \/ \E t \in Threads : inPause[t]
       \/ /\ pc[Main] = "collect"
          /\ \E w \in Workers \ collected : pc[w] = "raised"

\* A thread that waits in a pause goes on waiting, or ends the pause, or raises.
LEMMA PauseFrame ==
  ASSUME TypeInv, PauseInv, NEW t \in Threads, ThreadStep(t)
  PROVE  /\ inPause'[t] => pc'[t] \in Busy
         /\ status' = "paused" =>
              /\ status = "paused" \/ inPause'[t]
              /\ inPause[t] => inPause'[t] \/ pc'[t] = "raised"
<1>0. pc \in [Threads -> PCs] /\ inPause \in [Threads -> BOOLEAN]
  BY DEF TypeInv, TypeOK
<1>1. inPause[t] => pc[t] \in Busy
  BY DEF PauseInv
<1> USE <1>0, <1>1 DEF Busy, Draining, Goto, Throw, Settle, durable
<1>2. CASE ReadQueue(t) \/ TakeCancel(t) \/ TakePause(t) \/ EnterPause(t)
             \/ TakeResume(t) \/ ReadPolicy(t) \/ WritePolicy(t)
             \/ RecordSteering(t) \/ Decide(t) \/ Interrupt(t)
  BY <1>2 DEF ReadQueue, TakeCancel, TakePause, EnterPause, TakeResume,
     ReadPolicy, WritePolicy, RecordSteering, Decide, Interrupt
<1>3. CASE LeavePause(t) \/ PauseTimeout(t)
  BY <1>3 DEF LeavePause, PauseTimeout
<1>4. CASE ApplyCancel(t) \/ ControlFails(t) \/ ReplanAtEnd(t)
             \/ InvocationFails(t)
  BY <1>4 DEF ApplyCancel, ControlFails, ReplanAtEnd, InvocationFails
<1>5. CASE Reinvoke(t)
  BY <1>5 DEF Reinvoke, Drained
<1> QED BY <1>2, <1>3, <1>4, <1>5 DEF ThreadStep, Controls

\* The steps of a thread keep PauseInv.
LEMMA ThreadPause ==
  ASSUME TypeInv, WaveInv, PauseInv, NEW t \in Threads, ThreadStep(t)
  PROVE  PauseInv'
<1>0. /\ pc \in [Threads -> PCs] /\ Main \in Threads /\ Main \notin Workers
      /\ Workers \subseteq Threads
  BY WorkersAssumption DEF TypeInv, TypeOK, Threads
<1>1. /\ pc[t] \notin Quiet
      /\ pc[t] \notin {"collect", "join", "exit", "plan", "planning"}
      /\ UNCHANGED collected
      /\ pc'[t] \notin {"collect", "join", "exit"}
  BY <1>0, ThreadFrame
<1>2. \A u \in Threads : u # t => pc'[u] = pc[u] /\ inPause'[u] = inPause[u]
  BY OthersKeep
<1>3. \A u \in Threads : inPause'[u] => pc'[u] \in Busy
  BY <1>2, PauseFrame DEF PauseInv
<1>4. pc'[Main] = "join" => \E w \in Workers : pc'[w] \in {"done", "raised"}
  <2>1. \A w \in Workers : pc[w] \in {"done", "raised"} => pc'[w] = pc[w]
    BY <1>0, <1>1, <1>2 DEF Quiet
  <2> QED BY <1>0, <1>1, <1>2, <2>1 DEF PauseInv
<1>5. ASSUME status' = "paused"
      PROVE  \/ pc'[Main] \in {"join", "raised", "plan", "exit"}
             \/ \E u \in Threads : inPause'[u]
             \/ /\ pc'[Main] = "collect"
                /\ \E w \in Workers \ collected' : pc'[w] = "raised"
  <2>1. CASE inPause'[t]
    BY <2>1
  <2>2. CASE /\ status = "paused"
             /\ pc[Main] \in {"join", "raised", "plan", "exit"}
    BY <1>0, <1>1, <1>2, <2>2 DEF Quiet
  <2>3. CASE \E u \in Threads : inPause[u]
    <3>1. PICK u \in Threads : inPause[u]
      BY <2>3
    <3>2. CASE u # t
      BY <1>2, <3>1, <3>2
    <3>3. CASE pc'[t] = "raised" /\ t = Main
      BY <3>3
    <3>4. CASE pc'[t] = "raised" /\ t \in Workers
      <4>1. /\ pc[Main] \in {"collect", "join"} /\ pc'[Main] = pc[Main]
            /\ pc[Main] = "collect" => t \notin collected
        BY <1>0, <1>1, <1>2, <3>4 DEF WaveInv, Quiet
      <4> QED BY <1>1, <3>4, <4>1
    <3> QED BY <1>5, <2>1, <3>1, <3>2, <3>3, <3>4, PauseFrame DEF Threads
  <2>4. CASE /\ pc[Main] = "collect"
             /\ \E w \in Workers \ collected : pc[w] = "raised"
    BY <1>0, <1>1, <1>2, <2>4 DEF Quiet
  <2> QED BY <1>5, <2>1, <2>2, <2>3, <2>4, PauseFrame DEF PauseInv
<1> QED BY <1>3, <1>4, <1>5 DEF PauseInv

\* The steps of the main thread keep PauseInv: what follows a pause that ended
\* in an exception is the end of the wave and of the engine, or a new plan.
LEMMA MainPause ==
  ASSUME TypeInv, WaveInv, PauseInv, MainStep
  PROVE  PauseInv'
<1>0. /\ pc \in [Threads -> PCs] /\ Main \in Threads /\ Main \notin Workers
      /\ Workers \subseteq Threads /\ inPause \in [Threads -> BOOLEAN]
  BY WorkersAssumption DEF TypeInv, TypeOK, Threads
<1>1. ~inPause[Main]
  <2>1. pc[Main] = "drain" => ~inPause[Main]
    BY DEF MainStep, BeginPlan, PlanSaved, PlanFails, SkipCancelled,
       SetUpFails, Dispatch, Collect, Join, EndWave, BeginRecovery,
       EndRecovery, NextWave, FailedPlan, Validate, SkipReview, BeginReview,
       ReviewApproves, ReviewRejects, ReviewRepairs, NextRepair, EndRepairs,
       Integrate, CompleteJob, FinishFails, HandleReplan, HandleError,
       DrainedAt, Drained
  <2>2. pc[Main] \notin Handling
    BY MainFrame
  <2> QED BY <1>0, <2>1, <2>2 DEF PauseInv, Busy, Draining, Handling
<1>2. \A u \in Threads : inPause'[u] => u # Main /\ inPause[u] /\ pc'[u] = pc[u]
  BY <1>0, <1>1, MainFrame DEF Threads, PauseInv, Quiet, Busy, Draining
<1>3. \A u \in Threads : inPause'[u] => pc'[u] \in Busy
  BY <1>2 DEF PauseInv
<1>4. \A u \in Threads :
         inPause[u] => inPause'[u] /\ pc[Main] \in {"collect", "join"}
  BY <1>0, <1>1, MainFrame DEF Threads, PauseInv, WaveInv, Quiet, Busy, Draining
<1>5. ASSUME NEW w \in Workers, Collect(w)
      PROVE  /\ UNCHANGED status /\ pc[Main] = "collect"
             /\ \A v \in Workers : pc'[v] = pc[v]
             /\ \/ pc'[Main] = "join" /\ pc[w] \in {"done", "raised"}
                \/ /\ pc'[Main] = "collect" /\ pc[w] = "done"
                   /\ collected' = collected \cup {w}
  BY <1>0, <1>5 DEF Collect, Goto, threadVars, durable
<1>6. ASSUME \A w \in Workers : ~Collect(w)
      PROVE  pc'[Main] # "join"
  BY <1>0, <1>6 DEF MainStep, BeginPlan, PlanSaved, PlanFails, SkipCancelled,
     SetUpFails, Dispatch, Join, EndWave, BeginRecovery, EndRecovery, NextWave,
     FailedPlan, Validate, SkipReview, BeginReview, ReviewApproves,
     ReviewRejects, ReviewRepairs, NextRepair, EndRepairs, Integrate,
     CompleteJob, FinishFails, HandleReplan, HandleError, Goto, Throw,
     StartDrain, threadVars
<1>7. pc'[Main] = "join" => \E w \in Workers : pc'[w] \in {"done", "raised"}
  BY <1>5, <1>6
<1>8. ASSUME status' = "paused"
      PROVE  \/ pc'[Main] \in {"join", "raised", "plan", "exit"}
             \/ \E u \in Threads : inPause'[u]
             \/ /\ pc'[Main] = "collect"
                /\ \E w \in Workers \ collected' : pc'[w] = "raised"
  <2>1. CASE Join \/ HandleReplan \/ HandleError
    BY <1>0, <2>1 DEF Join, HandleReplan, HandleError, Goto
  <2>2. ASSUME NEW w \in Workers, Collect(w)
        PROVE  \/ pc'[Main] = "join"
               \/ \E u \in Threads : inPause'[u]
               \/ /\ pc'[Main] = "collect"
                  /\ \E v \in Workers \ collected' : pc'[v] = "raised"
    BY <1>4, <1>5, <1>8, <2>2 DEF PauseInv
  <2>3. CASE /\ ~Join /\ ~HandleReplan /\ ~HandleError
             /\ \A w \in Workers : ~Collect(w)
    <3>1. \/ pc'[Main] = "raised"
          \/ /\ status' = status
             /\ pc[Main] \notin {"join", "raised", "plan", "exit"}
             /\ pc[Main] = "collect" => collected = Workers
      <4> USE <1>0, <1>8 DEF Goto, Throw, StartDrain, DrainedAt, Drained,
              durable
      <4>1. CASE BeginPlan \/ PlanSaved \/ PlanFails \/ SkipCancelled
                   \/ SetUpFails \/ EndWave \/ EndRecovery \/ NextWave
                   \/ FailedPlan
        BY <4>1 DEF BeginPlan, PlanSaved, PlanFails, SkipCancelled, SetUpFails,
           EndWave, EndRecovery, NextWave, FailedPlan
      <4>2. CASE Validate \/ SkipReview \/ BeginReview \/ ReviewApproves
                   \/ ReviewRejects \/ EndRepairs \/ Integrate \/ CompleteJob
                   \/ FinishFails
        BY <4>2 DEF Validate, SkipReview, BeginReview, ReviewApproves,
           ReviewRejects, EndRepairs, Integrate, CompleteJob, FinishFails
      <4>3. CASE \/ \E tasks \in SUBSET Workers : Dispatch(tasks)
                 \/ \E w \in Workers : BeginRecovery(w) \/ NextRepair(w)
                 \/ \E tasks \in SUBSET Workers : \E w \in tasks :
                       ReviewRepairs(tasks, w)
        BY <4>3 DEF Dispatch, BeginRecovery, NextRepair, ReviewRepairs
      <4> QED BY <2>3, <4>1, <4>2, <4>3 DEF MainStep
    <3>2. CASE /\ status = "paused"
               /\ pc[Main] \notin {"join", "raised", "plan", "exit"}
      BY <1>4, <3>1, <3>2 DEF PauseInv
    <3> QED BY <1>8, <3>1, <3>2
  <2> QED BY <2>1, <2>2, <2>3
<1> QED BY <1>3, <1>7, <1>8 DEF PauseInv

\* Every step keeps PauseInv.
LEMMA StepPause ==
  ASSUME TypeInv, WaveInv, PauseInv, [Next]_vars
  PROVE  PauseInv'
<1>1. ASSUME UNCHANGED <<status, inPause, collected>>, pc'[Main] = pc[Main],
             \A t \in Threads : pc[t] \in Busy \cup {"done", "raised"} =>
                                  pc'[t] = pc[t]
      PROVE  PauseInv'
  BY <1>1 DEF PauseInv, Threads
<1>2. ASSUME NEW w \in Workers, TaskStep(w) PROVE PauseInv'
  <2>1. /\ pc \in [Threads -> PCs] /\ w # Main /\ Workers \subseteq Threads
        /\ Main \in Threads
    BY WorkersAssumption DEF TypeInv, TypeOK, Threads
  <2>2. /\ pc[w] \notin Busy \cup {"done", "raised"}
        /\ \E place \in PCs : pc' = [pc EXCEPT ![w] = place]
        /\ UNCHANGED <<status, inPause, collected>>
    BY <1>2, TaskFrame DEF Busy, Draining, PCs, durable
  <2> QED BY <1>1, <2>1, <2>2
<1>3. CASE (\E c \in Clients : ClientStep(c)) \/ Terminated \/ UNCHANGED vars
  <2>1. UNCHANGED <<status, inPause, collected, pc>>
    BY <1>3, ClientFrame DEF Terminated, vars, durable, threadVars, mainVars
  <2> QED BY <1>1, <2>1
<1> QED BY <1>2, <1>3, ThreadPause, MainPause DEF Next

\* In a job of one task at a time, what is paused invokes nothing.
LEMMA PausedInvokesNothing ==
  ASSUME OneTask, TypeInv, WaveInv, OneBusy, PauseInv, [Next]_vars,
         NEW t \in Threads, pc[t] # "invoke", pc'[t] = "invoke"
  PROVE  status # "paused"
<1>0. /\ pc \in [Threads -> PCs] /\ Main \in Threads /\ Main \notin Workers
      /\ Workers \subseteq Threads
  BY WorkersAssumption DEF TypeInv, TypeOK, Threads
<1> SUFFICES ASSUME status = "paused" PROVE FALSE
  OBVIOUS
<1>1. \/ pc[Main] \in {"join", "raised", "plan", "exit"}
      \/ \E u \in Threads : inPause[u]
      \/ pc[Main] = "collect" /\ \E w \in Workers \ collected : pc[w] = "raised"
  BY DEF PauseInv
<1>2. ASSUME NEW w \in Workers, pc[w] \notin Quiet
      PROVE  /\ pc[Main] = "collect"
             /\ \E u \in Threads : inPause[u]
  <2>1. pc[Main] \in {"collect", "join"}
    BY <1>2 DEF WaveInv
  <2>2. \A v \in Workers : pc[v] \notin {"done", "raised"}
    BY <1>2 DEF OneTask, Quiet
  <2> QED BY <1>1, <2>1, <2>2 DEF PauseInv
<1>3. ASSUME NEW u \in Threads, ThreadStep(u) PROVE FALSE
  <2>1. t = u /\ Reinvoke(t)
    <3>1. t = u
      BY <1>3, OthersKeep
    <3>2. pc'[t] = "invoke" => Reinvoke(t)
      BY <1>0, <1>3, <3>1 DEF ThreadStep, Controls, ReadQueue, TakeCancel,
         ApplyCancel, TakePause, EnterPause, TakeResume, LeavePause,
         PauseTimeout, ReadPolicy, WritePolicy, RecordSteering, ControlFails,
         Decide, ReplanAtEnd, Interrupt, InvocationFails, Settle, Goto, Throw
    <3> QED BY <3>1, <3>2
  <2>2. pc[t] = "drain" /\ ~inPause[t]
    BY <2>1 DEF Reinvoke, Drained
  <2>3. \E v \in Threads : inPause[v]
    BY <1>0, <1>1, <1>2, <2>2 DEF Threads, Quiet
  <2> QED BY <2>2, <2>3 DEF OneBusy, PauseInv, Busy, Draining
<1>4. ASSUME NEW w \in Workers, TaskStep(w) PROVE FALSE
  <2>1. pc[w] \in {"queued", "invoke"}
    BY <1>4, TaskFrame
  <2>2. pc[Main] = "collect" /\ \E u \in Threads : inPause[u]
    BY <1>2, <2>1 DEF Quiet
  <2>3. \A u \in Threads : u = Main \/ u = w
    BY DEF Threads, OneTask
  <2> QED BY <2>1, <2>2, <2>3 DEF PauseInv, Busy, Draining
<1>5. ASSUME MainStep PROVE FALSE
  <2>1. t = Main
    BY <1>5, MainFrame DEF Threads
  <2>2. \/ \E w \in Workers : BeginRecovery(w)
        \/ \E tasks \in SUBSET Workers : \E w \in tasks :
              ReviewRepairs(tasks, w)
    BY <1>0, <1>5, <2>1 DEF MainStep, BeginPlan, PlanSaved, PlanFails,
       SkipCancelled, SetUpFails, Dispatch, Collect, Join, EndWave,
       EndRecovery, NextWave, FailedPlan, Validate, SkipReview, BeginReview,
       ReviewApproves, ReviewRejects, NextRepair, EndRepairs, Integrate,
       CompleteJob, FinishFails, HandleReplan, HandleError, Goto, Throw,
       StartDrain, threadVars
  <2>3. \/ pc[Main] = "collect" /\ collected = Workers
        \/ pc[Main] = "review"
    BY <2>2 DEF BeginRecovery, ReviewRepairs
  <2>4. PICK u \in Threads : inPause[u]
    BY <1>1, <2>3
  <2>5. u \in Workers /\ pc[u] \notin Quiet
    BY <2>3, <2>4 DEF PauseInv, Threads, Busy, Draining, Quiet
  <2>6. pc[Main] = "collect" /\ pc[u] = "done"
    BY <1>2, <2>3, <2>5 DEF WaveInv
  <2> QED BY <2>5, <2>6 DEF Quiet
<1>6. ASSUME (\E c \in Clients : ClientStep(c)) \/ Terminated \/ UNCHANGED vars
      PROVE  FALSE
  BY <1>6, ClientFrame DEF Terminated, vars, threadVars
<1> QED BY <1>3, <1>4, <1>5, <1>6 DEF Next

\* In a job of one task at a time no model invocation starts while the job is
\* paused: neither the task that waits out the pause nor the main thread begins
\* one (engine.py _wait_paused).
THEOREM PauseHolds ==
  ASSUME OneTask
  PROVE  Spec => PausedStartsNothing
<1>0. OneInterrupted
  BY DEF OneInterrupted
<1>1. Init => PauseInv
  BY WorkersAssumption DEF Init, PauseInv, Threads
<1>2. TypeInv /\ WaveInv /\ PauseInv /\ [Next]_vars => PauseInv'
  BY StepPause
<1>3. TypeInv /\ WaveInv /\ OneBusy /\ PauseInv /\ [Next]_vars
        => [\A t \in Threads :
              pc[t] # "invoke" /\ pc'[t] = "invoke" => status # "paused"]_vars
  BY PausedInvokesNothing
<1> QED
  BY <1>0, <1>1, <1>2, <1>3, TypeInvariant, WaveInvariant, OneDrainAtATime, PTL
  DEF Spec, PausedStartsNothing
=============================================================================
