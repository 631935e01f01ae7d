--------------------------- MODULE ControlBoundary ---------------------------
(***************************************************************************)
(* Live controls inside one running engine                                 *)
(* (scripts/orchestrator/engine.py, run_store and below).                  *)
(*                                                                         *)
(* The main thread of the engine plans, dispatches a wave of task threads, *)
(* joins them, reviews, repairs, integrates and completes the job.  Users  *)
(* run CLI commands meanwhile, which only append to the control queue.     *)
(* The engine drains that queue (_process_controls) at its boundaries; but *)
(* a task thread whose invocation is interrupted drains it too, so several *)
(* threads can be inside _process_controls, and inside _wait_paused, at    *)
(* once.  No lock covers a drain: the queue and the state are locked for   *)
(* one call at a time, and every such call is a step of its own here.      *)
(*                                                                         *)
(* Not here: the death of the controller and everything before its engine  *)
(* starts (JobLifecycle), what a task does, and which tasks of a wave are  *)
(* prepared (any subset may be).  desired_status and last_control_seq are  *)
(* written by this code and read by none; they are left out.               *)
(***************************************************************************)
EXTENDS ControlQueue, FiniteSets

CONSTANTS
  Workers,        \* the task threads of a wave, one per task
  Main,           \* the thread that runs run_store
  NoTask,         \* no task is under repair
  Interruptible,  \* tasks that only read or write in a worktree of their own
  Waves,          \* waves of the plan
  Retries,        \* further invocations a failed task of a wave may get
  Clients,        \* the CLI commands run while the engine runs, one each
  Cmd,            \* what each of them enqueues: [kind, mode, boundary]
  Casts           \* bound: which of them may run in one behaviour

Threads == Workers \cup {Main}

Command == [kind : CONTROL_KINDS, mode : Modes, boundary : Boundaries]

ASSUME WorkersAssumption == 
  IsFiniteSet(Workers) /\ Main \notin Workers /\ NoTask \notin Workers
ASSUME InterruptibleAssumption == Interruptible \subseteq Workers
ASSUME WavesAssumption == Waves \in Nat \ {0}
ASSUME RetriesAssumption == Retries \in Nat
ASSUME CmdAssumption == Cmd \in [Clients -> Command]
ASSUME CastsAssumption == Casts \subseteq SUBSET Clients

TERMINAL_STATES == {"complete", "blocked", "cancelled"}

\* The statuses an engine that is past its start gives a job.
Statuses ==
  {"planning", "running", "validating", "reviewing", "repairing",
   "integrating", "paused", "interrupted"} \cup TERMINAL_STATES

\* Where a thread is.  "drain" is the head of the loop of _process_controls
\* or, when inPause, of _wait_paused; "act" holds the request it read there.
PCs ==
  {"plan", "planning", "drain", "act", "cancelling", "pausing", "resuming",
   "speed-write", "decide", "queued", "invoke", "collect", "join", "review",
   "finish", "raised", "idle", "done", "exit"}

\* Where the main thread drains the queue: at four boundaries, and when the
\* invocation of a recovery or a repair, which it runs itself, is interrupted.
Places == {"before-wave", "recovery", "after-wave", "before-review", "repair",
           "before-integration"}

\* JobCancelled, ControllerInterrupted, ReplanRequested, any other exception.
Errors == {"cancel", "interrupted", "replan", "error", "none"}

VARIABLES
  control,          \* control.json
  status,           \* state.json: status
  cancelRequested,  \* state.json: cancel_requested
  steering,         \* state.json: the requests recorded in steering, in order
  revision,         \* speed-policy.json: revision
  planRevision,     \* state.json: plan_revision
  planSaw,          \* how many steering records the current plan was made from
  pc, held, inPause, replan, err, base,   \* the locals of each thread
  at, wave, collected, failed, ultraUsed, \* the locals of the main thread
  reviewPass, repair, toRepair,
  tries,            \* invocations each task of the wave may still get
  client            \* the progress of each CLI command

durable == <<control, status, cancelRequested, steering, revision,
             planRevision, planSaw>>
threadVars == <<pc, held, inPause, replan, err, base>>
extraVars == <<tries, ultraUsed, reviewPass, repair, toRepair>>
mainVars == <<at, wave, collected, failed, extraVars>>
vars == <<durable, threadVars, mainVars, client>>

TypeOK ==
  /\ QueueTypeOK(control)
  /\ status \in Statuses
  /\ cancelRequested \in BOOLEAN
  /\ steering \in Seq(Nat)
  /\ revision \in Nat
  /\ planRevision \in Nat
  /\ planSaw \in Nat
  /\ pc \in [Threads -> PCs]
  /\ held \in [Threads -> Nat]
  /\ inPause \in [Threads -> BOOLEAN]
  /\ replan \in [Threads -> BOOLEAN]
  /\ err \in [Threads -> Errors]
  /\ base \in [Threads -> Nat]
  /\ at \in Places
  /\ wave \in 1..Waves
  /\ collected \subseteq Workers
  /\ failed \in BOOLEAN
  /\ ultraUsed \in BOOLEAN
  /\ reviewPass \in 1..2
  /\ repair \in Workers \cup {NoTask}
  /\ toRepair \subseteq Workers
  /\ tries \in [Workers -> 0..Retries]
  /\ client \in [Clients -> {"start", "checked", "enqueued", "done"}]

\* control.json after a controller died between recording a cancellation and
\* ending the job, and a `resume` launched the next one.
CancelledBefore ==
  LET cancel == [kind |-> "cancel", mode |-> "none", boundary |-> "immediate"]
      resume == [kind |-> "resume", mode |-> "none", boundary |-> "safe"]
  IN  Complete(Enqueue(Enqueue(EmptyQueue, cancel), resume), 1, "applied")

\* A new job, or a job with a plan whose last controller died in a cancellation.
Init ==
  /\ \E resumed \in BOOLEAN :
       /\ control = IF resumed THEN CancelledBefore ELSE EmptyQueue
       /\ status = IF resumed THEN "running" ELSE "planning"
       /\ cancelRequested = resumed
       /\ planRevision = IF resumed THEN 1 ELSE 0
       /\ pc = [t \in Threads |-> IF t # Main THEN "idle"
                                 ELSE IF resumed THEN "drain" ELSE "plan"]
  /\ steering = << >>
  /\ revision = 1
  /\ planSaw = 0
  /\ held = [t \in Threads |-> 0]
  /\ inPause = [t \in Threads |-> FALSE]
  /\ replan = [t \in Threads |-> FALSE]
  /\ err = [t \in Threads |-> "none"]
  /\ base = [t \in Threads |-> 0]
  /\ at = "before-wave"
  /\ wave = 1
  /\ collected = {}
  /\ failed = FALSE
  /\ ultraUsed = FALSE
  /\ reviewPass = 1
  /\ repair = NoTask
  /\ toRepair = {}
  /\ tries = [w \in Workers |-> 0]
  /\ \E cast \in Casts :
       client = [c \in Clients |-> IF c \in cast THEN "start" ELSE "done"]

-----------------------------------------------------------------------------
(* CLI commands: one durable call each step.                               *)

\* steer, speed and resume refuse a terminal job; pause and cancel do not
\* look.  Nothing holds the status between this look and the enqueue.
Check(c) ==
  /\ client[c] = "start"
  /\ client' = [client EXCEPT ![c] =
       IF Cmd[c].kind \in {"steer", "speed-change", "resume"}
          /\ status \in TERMINAL_STATES
       THEN "done" ELSE "checked"]
  /\ UNCHANGED <<durable, threadVars, mainVars>>

EnqueueCommand(c) ==
  /\ client[c] = "checked"
  /\ control' = Enqueue(control, Cmd[c])
  /\ client' = [client EXCEPT ![c] =
                  IF Cmd[c].kind = "cancel" THEN "enqueued" ELSE "done"]
  /\ UNCHANGED <<status, cancelRequested, steering, revision, planRevision,
                 planSaw, threadVars, mainVars>>

\* The second half of `cancel`: JobStore.request_cancel.
RequestCancel(c) ==
  /\ client[c] = "enqueued"
  /\ cancelRequested' = TRUE
  /\ client' = [client EXCEPT ![c] = "done"]
  /\ UNCHANGED <<control, status, steering, revision, planRevision, planSaw,
                 threadVars, mainVars>>

-----------------------------------------------------------------------------
(* Steps of a thread inside the engine.                                    *)

Goto(t, place) == pc' = [pc EXCEPT ![t] = place]

\* An exception leaves _process_controls (and _wait_paused) at once.
Throw(t, e) ==
  /\ pc' = [pc EXCEPT ![t] = "raised"]
  /\ err' = [err EXCEPT ![t] = e]
  /\ held' = [held EXCEPT ![t] = 0]
  /\ inPause' = [inPause EXCEPT ![t] = FALSE]
  /\ replan' = [replan EXCEPT ![t] = FALSE]
  /\ UNCHANGED base

\* The task whose invocation thread t waits for.
Task(t) == IF t = Main THEN repair ELSE t

HeldRequest(t) == control.requests[held[t]]

Holds(t, kind) == pc[t] = "act" /\ HeldRequest(t).kind = kind

\* queue.pending()[0], in the loop of _process_controls or of _wait_paused.
ReadQueue(t) ==
  /\ pc[t] = "drain"
  /\ Pending(control) # {}
  /\ held' = [held EXCEPT ![t] = First(control)]
  /\ Goto(t, "act")
  /\ UNCHANGED <<durable, inPause, replan, err, base, mainVars, client>>

\* complete() of the request in hand, and on to place.
Settle(t, decision, place) ==
  /\ control' = Complete(control, held[t], decision)
  /\ held' = [held EXCEPT ![t] = 0]
  /\ Goto(t, place)
  /\ UNCHANGED <<status, cancelRequested, steering, revision, planRevision,
                 planSaw, inPause, err, base, mainVars, client>>

TakeCancel(t) ==
  Holds(t, "cancel") /\ Settle(t, "applied", "cancelling") /\ UNCHANGED replan

\* After the cancellation is recorded nothing else of the queue is looked at.
ApplyCancel(t) ==
  /\ pc[t] = "cancelling"
  /\ cancelRequested' = TRUE
  /\ Throw(t, "cancel")
  /\ UNCHANGED <<control, status, steering, revision, planRevision, planSaw,
                 mainVars, client>>

TakePause(t) ==
  /\ Holds(t, "pause")
  /\ IF inPause[t]
     THEN Settle(t, "superseded", "drain")
     ELSE Settle(t, "applied", "pausing")
  /\ UNCHANGED replan

\* Mutant: the job is marked paused and the drain goes on.
PauseWithoutWaiting(t) ==
  /\ pc[t] = "pausing"
  /\ status' = "paused"
  /\ Goto(t, "drain")
  /\ UNCHANGED <<control, cancelRequested, steering, revision, planRevision,
                 planSaw, held, inPause, replan, err, base, mainVars, client>>

\* _wait_paused, its first transition.
EnterPause(t) ==
  /\ pc[t] = "pausing"
  /\ status' = "paused"
  /\ inPause' = [inPause EXCEPT ![t] = TRUE]
  /\ Goto(t, "drain")
  /\ UNCHANGED <<control, cancelRequested, steering, revision, planRevision,
                 planSaw, held, replan, err, base, mainVars, client>>

TakeResume(t) ==
  /\ Holds(t, "resume")
  /\ Settle(t, "applied", IF inPause[t] THEN "resuming" ELSE "drain")
  /\ UNCHANGED replan

\* The end of _wait_paused: the drain it was called from goes on.
LeavePause(t) ==
  /\ pc[t] = "resuming"
  /\ status' = "running"
  /\ inPause' = [inPause EXCEPT ![t] = FALSE]
  /\ Goto(t, "drain")
  /\ UNCHANGED <<control, cancelRequested, steering, revision, planRevision,
                 planSaw, held, replan, err, base, mainVars, client>>

\* Mutant: a pause without a deadline.
NoDeadline(t) == FALSE /\ pc[t] = "drain"

\* The deadline of _wait_paused; it is looked at before the queue is.
PauseTimeout(t) ==
  /\ pc[t] = "drain"
  /\ inPause[t]
  /\ status' = "interrupted"
  /\ Throw(t, "interrupted")
  /\ UNCHANGED <<control, cancelRequested, steering, revision, planRevision,
                 planSaw, mainVars, client>>

\* _apply_speed_control: the policy is read, then written back as a whole.
ReadPolicy(t) ==
  /\ Holds(t, "speed-change")
  /\ base' = [base EXCEPT ![t] = revision]
  /\ Goto(t, "speed-write")
  /\ UNCHANGED <<durable, held, inPause, replan, err, mainVars, client>>

\* Mutant: the revision is not advanced.
WriteSameRevision(t) ==
  /\ pc[t] = "speed-write"
  /\ base' = [base EXCEPT ![t] = 0]
  /\ Goto(t, "decide")
  /\ UNCHANGED <<durable, held, inPause, replan, err, mainVars, client>>

WritePolicy(t) ==
  /\ pc[t] = "speed-write"
  /\ revision' = base[t] + 1
  /\ base' = [base EXCEPT ![t] = 0]
  /\ Goto(t, "decide")
  /\ UNCHANGED <<control, status, cancelRequested, steering, planRevision,
                 planSaw, held, inPause, replan, err, mainVars, client>>

\* Mutant: the record is lost, and the drain goes on.
LoseSteering(t) ==
  /\ Holds(t, "steer")
  /\ Goto(t, "decide")
  /\ UNCHANGED <<durable, held, inPause, replan, err, base, mainVars, client>>

RecordSteering(t) ==
  /\ Holds(t, "steer")
  /\ steering' = Append(steering, held[t])
  /\ Goto(t, "decide")
  /\ UNCHANGED <<control, status, cancelRequested, revision, planRevision,
                 planSaw, held, inPause, replan, err, base, mainVars, client>>

\* The matrix of a speed change or the file of an instruction is not valid: the
\* exception leaves the request pending.
ControlFails(t) ==
  /\ Holds(t, "speed-change") \/ Holds(t, "steer")
  /\ Throw(t, "error")
  /\ UNCHANGED <<durable, mainVars, client>>

\* Mutant: a replacement is treated as an addition.
DecideLikeAdd(t) ==
  /\ pc[t] = "decide"
  /\ Settle(t, "applied", "drain")
  /\ UNCHANGED replan

\* The effect is durable; now the request is completed.  Only a drain that is
\* not paused remembers that a replacement asks for a new plan.
Decide(t) ==
  /\ pc[t] = "decide"
  /\ replan' = [replan EXCEPT ![t] =
                  @ \/ (IsReplace(HeldRequest(t)) /\ ~inPause[t])]
  /\ Settle(t, "applied", "drain")

ReplanAtEnd(t) ==
  /\ pc[t] = "drain"
  /\ ~inPause[t]
  /\ Pending(control) = {}
  /\ replan[t]
  /\ Throw(t, "replan")
  /\ UNCHANGED <<durable, mainVars, client>>

Controls(t) ==
  \/ ReadQueue(t)  \/ TakeCancel(t) \/ ApplyCancel(t)
  \/ TakePause(t)  \/ EnterPause(t) \/ TakeResume(t) \/ LeavePause(t)
  \/ PauseTimeout(t)
  \/ ReadPolicy(t) \/ WritePolicy(t) \/ RecordSteering(t) \/ ControlFails(t)
  \/ Decide(t)
  \/ ReplanAtEnd(t)

\* The queue is empty and nothing asks for a new plan: _process_controls
\* returns.
Drained(t) ==
  pc[t] = "drain" /\ ~inPause[t] /\ Pending(control) = {} /\ ~replan[t]

-----------------------------------------------------------------------------
(* Task threads (_run_task), and the main thread when it repairs a task.   *)

\* _immediate_interrupt_reason gives a reason to stop the invocation of t.
InterruptReason(t) ==
  \E i \in Pending(control) :
     LET r == control.requests[i] IN
     \/ r.kind = "cancel"
     \/ /\ r.boundary = "immediate"
        /\ Task(t) \in Interruptible
        /\ r.kind \in {"pause", "steer", "speed-change"}

\* The runner kills the worker process; its thread drains the queue itself.
Interrupt(t) ==
  /\ pc[t] = "invoke"
  /\ InterruptReason(t)
  /\ Goto(t, "drain")
  /\ UNCHANGED <<durable, held, inPause, replan, err, base, mainVars, client>>

\* The worker process cannot be started, or not be stopped.
InvocationFails(t) ==
  /\ pc[t] = "invoke"
  /\ Throw(t, "error")
  /\ UNCHANGED <<durable, mainVars, client>>

\* A thread that drained the queue after an interruption invokes again.
Reinvoke(t) ==
  /\ Drained(t)
  /\ t # Main \/ at \in {"recovery", "repair"}
  /\ Goto(t, "invoke")
  /\ UNCHANGED <<durable, held, inPause, replan, err, base, mainVars, client>>

\* The pool has room for the thread of a task, or the next attempt of a task
\* begins.  Neither looks at the queue first.
Invoke(w) ==
  /\ pc[w] = "queued"
  /\ Goto(w, "invoke")
  /\ UNCHANGED <<durable, held, inPause, replan, err, base, mainVars, client>>

\* The implementation or the reasoning failed, and an attempt is left.
Retry(w) ==
  /\ pc[w] = "invoke"
  /\ tries[w] > 0
  /\ ~cancelRequested
  /\ tries' = [tries EXCEPT ![w] = @ - 1]
  /\ Goto(w, "queued")
  /\ UNCHANGED <<durable, held, inPause, replan, err, base, at, wave, collected,
                 failed, ultraUsed, reviewPass, repair, toRepair, client>>

\* The invocation ends by itself; a job that was cancelled meanwhile counts
\* its result as cancelled, whatever it was.
EndTask(w) ==
  /\ pc[w] = "invoke"
  /\ Goto(w, "done")
  /\ failed' \in {failed, TRUE}
  /\ cancelRequested => failed'
  /\ UNCHANGED <<durable, held, inPause, replan, err, base, at, wave,
                 collected, extraVars, client>>

TaskStep(w) == Invoke(w) \/ Retry(w) \/ EndTask(w)

-----------------------------------------------------------------------------
(* The main thread: run_store, _execute_plan, _review_and_integrate.       *)

StartDrain(place) == at' = place /\ Goto(Main, "drain")

\* The plan is made from the task and the steering recorded so far.
BeginPlan ==
  /\ pc[Main] = "plan"
  /\ status' = "planning"
  /\ planSaw' = Len(steering)
  /\ Goto(Main, "planning")
  /\ UNCHANGED <<control, cancelRequested, steering, revision, planRevision,
                 held, inPause, replan, err, base, mainVars, client>>

PlanSaved ==
  /\ pc[Main] = "planning"
  /\ ~cancelRequested
  /\ planRevision' = planRevision + 1
  /\ status' = "running"
  /\ wave' = 1
  /\ failed' = FALSE
  /\ StartDrain("before-wave")
  /\ UNCHANGED <<control, cancelRequested, steering, revision, planSaw, held,
                 inPause, replan, err, base, collected, extraVars, client>>

\* The planner fails, times out or is cancelled.
PlanFails ==
  /\ pc[Main] = "planning"
  /\ Throw(Main, "error")
  /\ UNCHANGED <<durable, mainVars, client>>

DrainedAt(place) == Drained(Main) /\ at = place

\* After the drain a cancelled job starts no wave.
SkipCancelled ==
  /\ DrainedAt("before-wave")
  /\ cancelRequested
  /\ Throw(Main, "cancel")
  /\ UNCHANGED <<durable, mainVars, client>>

\* A worktree or a snapshot cannot be made.
SetUpFails ==
  /\ DrainedAt("before-wave") \/ DrainedAt("before-review")
  /\ Throw(Main, "error")
  /\ UNCHANGED <<durable, mainVars, client>>

\* The tasks of the wave that are prepared: neither done already nor blocked
\* by a dependency.  The others have their results and need no thread.
Dispatch(tasks) ==
  /\ DrainedAt("before-wave")
  /\ ~cancelRequested
  /\ pc' = [t \in Threads |-> IF t = Main THEN "collect"
                              ELSE IF t \in tasks THEN "queued" ELSE "done"]
  /\ collected' = Workers \ tasks
  /\ tries' = [w \in Workers |-> Retries]
  /\ UNCHANGED <<durable, held, inPause, replan, err, base, at, wave, failed,
                 ultraUsed, reviewPass, repair, toRepair, client>>

\* Mutant: the exception of a task is only one more result.
CollectAnything(w) ==
  /\ pc[Main] = "collect"
  /\ w \notin collected
  /\ pc[w] \in {"done", "raised"}
  /\ collected' = collected \cup {w}
  /\ UNCHANGED <<durable, threadVars, at, wave, failed, extraVars, client>>

\* future.result() of the next task to complete; an exception of it, or a
\* worktree the task left unclean, ends the loop, and leaving the executor
\* waits for the other threads.
Collect(w) ==
  /\ pc[Main] = "collect"
  /\ w \notin collected
  /\ \/ /\ pc[w] = "done"
        /\ collected' = collected \cup {w}
        /\ UNCHANGED threadVars
     \/ /\ \/ pc[w] = "raised" /\ err' = [err EXCEPT ![Main] = err[w]]
           \/ pc[w] = "done" /\ err' = [err EXCEPT ![Main] = "error"]
        /\ Goto(Main, "join")
        /\ UNCHANGED <<held, inPause, replan, base, collected>>
  /\ UNCHANGED <<durable, at, wave, failed, extraVars, client>>

AllStopped == \A w \in Workers : pc[w] \in {"done", "raised"}

\* Mutant: an exception leaves the executor without waiting for its threads.
JoinNothing ==
  /\ pc[Main] = "join"
  /\ Goto(Main, "raised")
  /\ UNCHANGED <<durable, held, inPause, replan, err, base, mainVars, client>>

Join ==
  /\ pc[Main] = "join"
  /\ AllStopped
  /\ Goto(Main, "raised")
  /\ UNCHANGED <<durable, held, inPause, replan, err, base, mainVars, client>>

EndWave ==
  /\ pc[Main] = "collect"
  /\ collected = Workers
  /\ StartDrain("after-wave")
  /\ UNCHANGED <<durable, held, inPause, replan, err, base, wave, collected,
                 failed, extraVars, client>>

\* A task that failed for lack of coordination may run once more, in the main
\* thread and at Ultra, once in the life of the engine.
BeginRecovery(w) ==
  /\ pc[Main] = "collect"
  /\ collected = Workers
  /\ failed
  /\ ~ultraUsed
  /\ ultraUsed' = TRUE
  /\ repair' = w
  /\ at' = "recovery"
  /\ Goto(Main, "invoke")
  /\ UNCHANGED <<durable, held, inPause, replan, err, base, wave, collected,
                 failed, tries, reviewPass, toRepair, client>>

EndRecovery ==
  /\ pc[Main] = "invoke"
  /\ at = "recovery"
  /\ repair' = NoTask
  /\ failed' \in BOOLEAN
  /\ cancelRequested => failed'
  /\ Goto(Main, "collect")
  /\ UNCHANGED <<durable, held, inPause, replan, err, base, at, wave, collected,
                 tries, ultraUsed, reviewPass, toRepair, client>>

\* Mutant: one wave too many.
NextWaveOffByOne ==
  /\ DrainedAt("after-wave")
  /\ wave <= Waves
  /\ wave' = wave + 1
  /\ StartDrain("before-wave")
  /\ UNCHANGED <<durable, held, inPause, replan, err, base, collected, failed,
                 extraVars, client>>

NextWave ==
  /\ DrainedAt("after-wave")
  /\ wave < Waves
  /\ wave' = wave + 1
  /\ StartDrain("before-wave")
  /\ UNCHANGED <<durable, held, inPause, replan, err, base, collected, failed,
                 extraVars, client>>

FailedPlan ==
  /\ DrainedAt("after-wave")
  /\ wave = Waves
  /\ failed
  /\ Throw(Main, "error")
  /\ UNCHANGED <<durable, mainVars, client>>

Validate ==
  /\ DrainedAt("after-wave")
  /\ wave = Waves
  /\ ~failed
  /\ status' = "validating"
  /\ StartDrain("before-review")
  /\ UNCHANGED <<control, cancelRequested, steering, revision, planRevision,
                 planSaw, held, inPause, replan, err, base, wave, collected,
                 failed, extraVars, client>>

\* A low-risk plan without worktrees needs no reviewer.
SkipReview ==
  /\ DrainedAt("before-review")
  /\ Goto(Main, "finish")
  /\ UNCHANGED <<durable, held, inPause, replan, err, base, mainVars, client>>

BeginReview ==
  /\ DrainedAt("before-review")
  /\ status' = "reviewing"
  /\ reviewPass' = 1
  /\ Goto(Main, "review")
  /\ UNCHANGED <<control, cancelRequested, steering, revision, planRevision,
                 planSaw, held, inPause, replan, err, base, at, wave,
                 collected, failed, tries, ultraUsed, repair, toRepair,
                 client>>

\* The reviewer approves; with worktrees the integration comes next.
ReviewApproves ==
  /\ pc[Main] = "review"
  /\ ~cancelRequested
  /\ \/ Interruptible # {} /\ StartDrain("before-integration")
     \/ Goto(Main, "finish") /\ UNCHANGED at
  /\ UNCHANGED <<durable, held, inPause, replan, err, base, wave, collected,
                 failed, extraVars, client>>

\* Not approved, no valid review, cancelled, timed out or budget exhausted.
ReviewRejects ==
  /\ pc[Main] = "review"
  /\ Throw(Main, "error")
  /\ UNCHANGED <<durable, mainVars, client>>

\* The first review asks for repairs: the main thread runs them, in order.
ReviewRepairs(tasks, first) ==
  /\ pc[Main] = "review"
  /\ reviewPass = 1
  /\ ~cancelRequested
  /\ status' = "repairing"
  /\ repair' = first
  /\ toRepair' = tasks \ {first}
  /\ at' = "repair"
  /\ Goto(Main, "invoke")
  /\ UNCHANGED <<control, cancelRequested, steering, revision, planRevision,
                 planSaw, held, inPause, replan, err, base, wave, collected,
                 failed, tries, ultraUsed, reviewPass, client>>

\* One repair ends and the next begins; a failed one is remembered.
NextRepair(w) ==
  /\ pc[Main] = "invoke"
  /\ at = "repair"
  /\ w \in toRepair
  /\ repair' = w
  /\ toRepair' = toRepair \ {w}
  /\ failed' \in {failed, TRUE}
  /\ cancelRequested => failed'
  /\ UNCHANGED <<durable, threadVars, at, wave, collected, tries, ultraUsed,
                 reviewPass, client>>

\* The last repair ends; the second review follows only if all succeeded.
EndRepairs ==
  /\ pc[Main] = "invoke"
  /\ at = "repair"
  /\ toRepair = {}
  /\ repair' = NoTask
  /\ \/ /\ ~failed
        /\ ~cancelRequested
        /\ status' = "reviewing"
        /\ reviewPass' = 2
        /\ Goto(Main, "review")
        /\ UNCHANGED <<held, inPause, replan, err, base>>
     \/ /\ Throw(Main, "error")
        /\ UNCHANGED <<status, reviewPass>>
  /\ UNCHANGED <<control, cancelRequested, steering, revision, planRevision,
                 planSaw, at, wave, collected, failed, tries, ultraUsed,
                 toRepair, client>>

Integrate ==
  /\ DrainedAt("before-integration")
  /\ status' = "integrating"
  /\ Goto(Main, "finish")
  /\ UNCHANGED <<control, cancelRequested, steering, revision, planRevision,
                 planSaw, held, inPause, replan, err, base, mainVars, client>>

\* The integration, the diff check and the clean-up succeed; the cancellation
\* flag is not looked at any more.
CompleteJob ==
  /\ pc[Main] = "finish"
  /\ status' = "complete"
  /\ Goto(Main, "exit")
  /\ UNCHANGED <<control, cancelRequested, steering, revision, planRevision,
                 planSaw, held, inPause, replan, err, base, mainVars, client>>

FinishFails ==
  /\ pc[Main] = "finish"
  /\ Throw(Main, "error")
  /\ UNCHANGED <<durable, mainVars, client>>

-----------------------------------------------------------------------------
(* The exception handlers of run_store.                                    *)

\* `except ReplanRequested` guards _execute_plan only.
InExecutePlan == at \in {"before-wave", "recovery", "after-wave"}

HandleReplan ==
  /\ pc[Main] = "raised"
  /\ err[Main] = "replan"
  /\ InExecutePlan
  /\ err' = [err EXCEPT ![Main] = "none"]
  /\ Goto(Main, "plan")
  /\ UNCHANGED <<durable, held, inPause, replan, base, mainVars, client>>

\* The status a job ends in for what reached run_store.
EndStatus ==
  CASE err[Main] = "cancel" -> "cancelled"
    [] err[Main] = "interrupted" -> "interrupted"
    [] OTHER -> IF cancelRequested THEN "cancelled" ELSE "blocked"

HandleError ==
  /\ pc[Main] = "raised"
  /\ ~(err[Main] = "replan" /\ InExecutePlan)
  /\ status' = EndStatus
  /\ Goto(Main, "exit")
  /\ UNCHANGED <<control, cancelRequested, steering, revision, planRevision,
                 planSaw, held, inPause, replan, err, base, mainVars, client>>

MainStep ==
  \/ BeginPlan \/ PlanSaved \/ PlanFails
  \/ SkipCancelled \/ SetUpFails
  \/ (\E tasks \in SUBSET Workers : Dispatch(tasks))
  \/ (\E w \in Workers : Collect(w)) \/ Join \/ EndWave
  \/ (\E w \in Workers : BeginRecovery(w)) \/ EndRecovery
  \/ NextWave \/ FailedPlan \/ Validate
  \/ SkipReview \/ BeginReview \/ ReviewApproves \/ ReviewRejects
  \/ (\E tasks \in SUBSET Workers : \E w \in tasks : ReviewRepairs(tasks, w))
  \/ (\E w \in Workers : NextRepair(w)) \/ EndRepairs
  \/ Integrate \/ CompleteJob \/ FinishFails
  \/ HandleReplan \/ HandleError

ThreadStep(t) ==
  Controls(t) \/ Interrupt(t) \/ InvocationFails(t) \/ Reinvoke(t)

ClientStep(c) == Check(c) \/ EnqueueCommand(c) \/ RequestCancel(c)

\* The engine has returned and every command has been run.
Terminated ==
  /\ pc[Main] = "exit"
  /\ \A c \in Clients : client[c] = "done"
  /\ UNCHANGED vars

Next ==
  \/ \E t \in Threads : ThreadStep(t)
  \/ \E w \in Workers : TaskStep(w)
  \/ MainStep
  \/ \E c \in Clients : ClientStep(c)
  \/ Terminated

Spec == Init /\ [][Next]_vars

\* The engine's threads run, and every wait of theirs has a deadline: an
\* invocation its timeout, a pause its idle limit.  Nobody has to send a
\* command.
Fairness ==
  /\ WF_vars(MainStep)
  /\ WF_vars(ThreadStep(Main))
  /\ \A w \in Workers : WF_vars(ThreadStep(w) \/ TaskStep(w))

FairSpec == Spec /\ Fairness

-----------------------------------------------------------------------------
(* Safety.                                                                 *)

\* The control queue keeps its order and its supersession rule while engine
\* threads complete requests they read earlier (control.py enqueue, complete).
QueueOK == SeqsDense(control) /\ ReplaceCutsOff(control)

\* A cancellation the engine has taken from the queue is never outrun by the
\* completion of the job, whichever thread took it and whatever the other
\* threads of the wave raised or returned (engine.py _process_controls,
\* _wait_paused, run_store).
CancelNeverCompletes ==
  (\E r \in {control.requests[i] : i \in 1..Len(control.requests)} :
      r.kind = "cancel" /\ r.status = "applied")
  => status # "complete"

\* When the job has a terminal status no task thread of the engine is still
\* invoking a model or handling a control: every exit of run_store joined the
\* wave first, also when a thread raised (engine.py _execute_plan).
TerminalQuiet ==
  status \in TERMINAL_STATES =>
     \A w \in Workers : pc[w] \in {"idle", "done", "raised"}

\* Steering is recorded in the order in which it was sent, each request once
\* (engine.py _process_controls, pending() order).
SteeringInOrder ==
  \A i, j \in 1..Len(steering) : i < j => steering[i] < steering[j]

\* What the queue reports of steering is what the next plan will be made from:
\* an instruction that counts as applied is recorded, and one that is recorded
\* waits only for the thread that recorded it, however many threads drain the
\* queue (engine.py _process_controls, _wait_paused: record, then complete).
SteeringReported ==
  \A i \in 1..Len(control.requests) :
     LET r == control.requests[i]
         recorded == \E k \in 1..Len(steering) : steering[k] = i
     IN  /\ recorded => r.kind = "steer"
         /\ r.kind = "steer" /\ r.status = "applied" => recorded
         /\ recorded /\ IsPending(r) =>
              \E t \in Threads : pc[t] = "decide" /\ held[t] = i

\* No model invocation starts while the job is paused
\* (engine.py _wait_paused; "Pauses at a safe boundary").
PausedStartsNothing ==
  [][\A t \in Threads :
       pc[t] # "invoke" /\ pc'[t] = "invoke" => status # "paused"]_vars

\* A job does not complete on a plan that was made before a replacement of
\* its direction was applied ("Sol Max replans").
ReplaceReplanned ==
  status = "complete" =>
     \A i \in planSaw + 1 .. Len(steering) :
        ~IsReplace(control.requests[steering[i]])

\* Every speed change that was applied made one revision of the policy of its
\* own, and nothing else did (engine.py _apply_speed_control, which reads the
\* policy and writes it back).
RevisionPerChange ==
  (\A t \in Threads : pc[t] \notin {"speed-write", "decide"}) =>
     revision = 1 + Cardinality({i \in 1..Len(control.requests) :
                      /\ control.requests[i].kind = "speed-change"
                      /\ control.requests[i].status = "applied"})

\* Whatever is sent, and however many threads wait in a pause, the engine
\* returns: no wait lasts for ever and no control is handled for ever.
EngineStops == <>(pc[Main] = "exit")
=============================================================================
