---------------------------- MODULE JobLifecycle ----------------------------
(***************************************************************************)
(* One durable job and every process that touches it: the command that     *)
(* starts it, the speed-setup page, the controllers and their lease, the   *)
(* engine each of them runs, and the CLI commands of the user              *)
(* (scripts/orchestrate.py, orchestrator/controller.py, orchestrator/      *)
(* state.py, and run_store of orchestrator/engine.py).                     *)
(*                                                                         *)
(* The processes share state.json, control.json, speed-policy.json,        *)
(* plan.json and the lease file, and nothing else.  Each call of JobStore  *)
(* or ControlQueue holds a file lock and is one step; what a process read  *)
(* before is a local of it and may be stale when it is used.               *)
(*                                                                         *)
(* The engine is coarse here: one thread (ControlBoundary has the others), *)
(* and "reviewing" stands for every status between the last wave and the   *)
(* end of the job, which no other process tells apart.  Steering and speed *)
(* changes of a running job do not touch its life and are left out.        *)
(***************************************************************************)
EXTENDS ControlQueue

CONSTANTS
  Controllers,   \* the `_controller` processes that may be launched
  Foreground,    \* the engine inside a foreground `run`
  Uis,           \* the `_speed-ui` processes that may be launched
  Starter,       \* the `start` or `run` command that creates the job
  Clients,       \* the later CLI commands, one each
  Role,          \* what each of them is
  StartModes,    \* how the job may be started
  Casts,         \* bound: which of the commands may run, for each of them
  Waves,         \* waves of the plan
  Crashes,       \* may a process be killed from outside
  None           \* no process

Engines == Controllers \cup {Foreground}

\* The processes that may launch a controller.
Launchers == Clients \cup Uis \cup {Starter}

Roles == {"status", "cancel", "resume", "pause", "speed"}

ASSUME RoleAssumption == Role \in [Clients -> Roles]
ASSUME StartModesAssumption ==
  StartModes \subseteq {"start", "start-setup", "run", "run-setup"}
ASSUME CastsAssumption == Casts \in [StartModes -> SUBSET SUBSET Clients]
ASSUME WavesAssumption == Waves \in Nat \ {0}
ASSUME CrashesAssumption == Crashes \in BOOLEAN
ASSUME ProcessesAssumption ==
  /\ Foreground \notin Controllers
  /\ None \notin Engines \cup Launchers
  /\ Starter \notin Clients \cup Uis
  /\ Clients \cap Uis = {}

TERMINAL_STATES == {"complete", "blocked", "cancelled"}
PAUSED_STATES == {"waiting_for_speed", "paused", "interrupted"}
ACTIVE_STATES == {"planning", "running", "reviewing"} \cup PAUSED_STATES

EnginePCs ==
  {"off", "spawned", "leased", "starting", "waking", "store", "plan",
   "planning", "ready", "boundary", "paused", "working", "review", "finish",
   "failing", "cancelling", "leaving", "exited"}

\* The places of a controller that holds the lease.
Holding == EnginePCs \ {"off", "spawned", "exited"}

\* The places inside the try block of run_store.
InStore == {"plan", "planning", "ready", "boundary", "paused", "working",
            "review", "finish", "failing", "cancelling"}

LauncherPCs ==
  {"off", "begin", "policy", "spawn", "record", "launch-ui", "record-ui",
   "serve", "planning", "cancelled", "mark", "enqueue", "flag", "look",
   "stop-ui", "done"}

VARIABLES
  status, cancelRequested,   \* state.json
  ctrlPid, setupPid,         \* state.json: controller.pid, .setup_pid
  hbFresh,                   \* is heartbeat_at less than 15 seconds old
  policy,                    \* does speed-policy.json exist
  planned,                   \* does plan.json exist, with plan_revision > 0
  control,                   \* control.json
  lease,                     \* who has the lock on .controller.lock
  pc, left,                  \* engines: place, and waves not yet run
  cli, child, launch         \* launchers: place, process launched, and
                             \* whether a controller is to be launched

jobVars == <<status, cancelRequested, ctrlPid, setupPid, hbFresh, policy,
             planned, control>>
engineVars == <<lease, pc, left>>
cliVars == <<cli, child, launch>>
vars == <<jobVars, engineVars, cliVars>>

TypeOK ==
  /\ status \in ACTIVE_STATES \cup TERMINAL_STATES
  /\ cancelRequested \in BOOLEAN
  /\ ctrlPid \in Controllers \cup {None}
  /\ setupPid \in Uis \cup {None}
  /\ hbFresh \in BOOLEAN
  /\ policy \in BOOLEAN
  /\ planned \in BOOLEAN
  /\ QueueTypeOK(control)
  /\ lease \in Controllers \cup {None}
  /\ pc \in [Engines -> EnginePCs]
  /\ left \in [Engines -> 0..Waves]
  /\ cli \in [Launchers -> LauncherPCs]
  /\ child \in [Launchers -> Controllers \cup Uis \cup {None}]
  /\ launch \in [Launchers -> BOOLEAN]

\* JobStore.create has returned; the start command goes on.
Init ==
  /\ \E mode \in StartModes : \E cast \in Casts[mode] :
       /\ status = IF mode \in {"start", "run"} THEN "planning"
                   ELSE "waiting_for_speed"
       /\ cli = [l \in Launchers |->
                   IF l \in cast THEN "begin"
                   ELSE IF l \in Clients THEN "done"
                   ELSE IF l \in Uis THEN "off"
                   ELSE CASE mode \in {"start", "run"} -> "policy"
                          [] mode = "start-setup" -> "launch-ui"
                          [] mode = "run-setup" -> "serve"]
       /\ launch = [l \in Launchers |-> l = Starter /\ mode = "start"]
  /\ cancelRequested = FALSE
  /\ ctrlPid = None
  /\ setupPid = None
  /\ hbFresh = FALSE
  /\ policy = FALSE
  /\ planned = FALSE
  /\ control = EmptyQueue
  /\ lease = None
  /\ pc = [e \in Engines |-> "off"]
  /\ left = [e \in Engines |-> Waves]
  /\ child = [l \in Launchers |-> None]

-----------------------------------------------------------------------------
(* What the processes share.                                               *)

\* Mutant: every transition is allowed.
MayAlways(s) == s \in ACTIVE_STATES \cup TERMINAL_STATES

\* JobStore.transition raises on a terminal job that would change.
MayBecome(s) == status \in TERMINAL_STATES => status = s

Running(e) == pc[e] \notin {"off", "exited"}

\* The engines whose heartbeat thread runs.
Beating(c) == c \in Controllers /\ pc[c] \in Holding \ {"leased", "leaving"}

\* _controller_is_stale: an old heartbeat, and no process behind the pid.
Stale == ~hbFresh /\ (ctrlPid = None \/ ~Running(ctrlPid))

\* 15 seconds pass without a heartbeat: nobody writes it any more, or the
\* machine slept.  Nothing here relies on a heartbeat that is in time.
HeartbeatAges ==
  /\ hbFresh
  /\ hbFresh' = FALSE
  /\ UNCHANGED <<status, cancelRequested, ctrlPid, setupPid, policy, planned,
                 control, engineVars, cliVars>>

-----------------------------------------------------------------------------
(* The commands.                                                           *)

At(l, place) == cli[l] = place

Goto(l, place) == cli' = [cli EXCEPT ![l] = place]

IsClient(l, role) == l \in Clients /\ Role[l] = role

\* A run in the foreground calls run_store in its own process: no lease, no
\* heartbeat, no record of its pid.
RunInForeground(l) ==
  /\ Goto(l, "done")
  /\ pc' = [pc EXCEPT ![Foreground] = "store"]

\* set_speed_policy: `start` with a resolved profile, or the text fallback.
SetSpeedPolicy(l) ==
  /\ At(l, "policy")
  /\ policy' = TRUE
  /\ IF l = Starter /\ ~launch[l]
     THEN RunInForeground(l)
     ELSE /\ Goto(l, IF l = Starter THEN "spawn" ELSE "planning")
          /\ UNCHANGED pc
  /\ UNCHANGED <<status, cancelRequested, ctrlPid, setupPid, hbFresh, planned,
                 control, lease, left, child, launch>>

\* The user saves the setup page, which writes the policy; a `run` serves the
\* page itself and goes on to run_store.
SavePage(l) ==
  /\ At(l, "serve")
  /\ policy' = TRUE
  /\ IF l = Starter THEN RunInForeground(l)
                    ELSE Goto(l, "planning") /\ UNCHANGED pc
  /\ UNCHANGED <<status, cancelRequested, ctrlPid, setupPid, hbFresh, planned,
                 control, lease, left, child, launch>>

\* The user cancels the page, or it times out and the job keeps waiting.
ClosePage(l) ==
  /\ At(l, "serve")
  /\ \E place \in {"cancelled", "done"} : Goto(l, place)
  /\ UNCHANGED <<jobVars, engineVars, child, launch>>

\* transition("planning") after setup, before the controller is launched.
SetPlanning(l) ==
  /\ At(l, "planning")
  /\ IF MayBecome("planning")
     THEN status' = "planning" /\ Goto(l, "spawn")
     ELSE Goto(l, "done") /\ UNCHANGED status
  /\ UNCHANGED <<cancelRequested, ctrlPid, setupPid, hbFresh, policy, planned,
                 control, engineVars, child, launch>>

\* launch_controller: the process is started, then its pid is recorded.
Spawn(l) ==
  /\ At(l, "spawn")
  /\ \E c \in Controllers :
       /\ pc[c] = "off"
       /\ pc' = [pc EXCEPT ![c] = "spawned"]
       /\ child' = [child EXCEPT ![l] = c]
  /\ Goto(l, "record")
  /\ UNCHANGED <<jobVars, lease, left, launch>>

RecordController(l) ==
  /\ At(l, "record")
  /\ ctrlPid' = child[l]
  /\ child' = [child EXCEPT ![l] = None]
  /\ Goto(l, "done")
  /\ UNCHANGED <<status, cancelRequested, setupPid, hbFresh, policy, planned,
                 control, engineVars, launch>>

\* _launch_speed_ui: the same two steps for a setup page.
LaunchUi(l) ==
  /\ At(l, "launch-ui")
  /\ \E u \in Uis :
       /\ cli[u] = "off"
       /\ cli' = [cli EXCEPT ![l] = "record-ui", ![u] = "serve"]
       /\ child' = [child EXCEPT ![l] = u]
  /\ UNCHANGED <<jobVars, engineVars, launch>>

RecordUi(l) ==
  /\ At(l, "record-ui")
  /\ setupPid' = child[l]
  /\ child' = [child EXCEPT ![l] = None]
  /\ Goto(l, "done")
  /\ UNCHANGED <<status, cancelRequested, ctrlPid, hbFresh, policy, planned,
                 control, engineVars, launch>>

\* _stop_speed_setup kills the recorded page wherever it is; then the page is
\* replaced (resume), the policy set (speed), or the job cancelled (cancel).
StopUi(l) ==
  /\ At(l, "stop-ui")
  /\ LET next == CASE Role[l] = "resume" -> "launch-ui"
                   [] Role[l] = "speed" -> "policy"
                   [] OTHER -> "cancelled"
         kill == IF setupPid = None \/ cli[setupPid] = "off" THEN {}
                 ELSE {setupPid}
     IN cli' = [p \in Launchers |-> IF p = l THEN next
                                    ELSE IF p \in kill THEN "done" ELSE cli[p]]
  /\ UNCHANGED <<jobVars, engineVars, child, launch>>

\* transition("cancelled") of a cancelled page or of `cancel`.
SetCancelled(l) ==
  /\ At(l, "cancelled")
  /\ status' = IF MayBecome("cancelled") THEN "cancelled" ELSE status
  /\ Goto(l, "done")
  /\ UNCHANGED <<cancelRequested, ctrlPid, setupPid, hbFresh, policy, planned,
                 control, engineVars, child, launch>>

\* `status`: an active job without a live controller is to be marked.
ReadStatus(l) ==
  /\ At(l, "begin") /\ IsClient(l, "status")
  /\ Goto(l, IF status \in ACTIVE_STATES \ PAUSED_STATES /\ Stale
             THEN "mark" ELSE "done")
  /\ UNCHANGED <<jobVars, engineVars, child, launch>>

MarkInterrupted(l) ==
  /\ At(l, "mark")
  /\ status' = IF MayBecome("interrupted") THEN "interrupted" ELSE status
  /\ Goto(l, "done")
  /\ UNCHANGED <<cancelRequested, ctrlPid, setupPid, hbFresh, policy, planned,
                 control, engineVars, child, launch>>

\* `pause` and `cancel` start with their request; neither reads the status.
EnqueuePause(l) ==
  /\ At(l, "begin") /\ IsClient(l, "pause")
  /\ control' = Enqueue(control, [kind |-> "pause", mode |-> "none",
                                  boundary |-> "safe"])
  /\ Goto(l, "done")
  /\ UNCHANGED <<status, cancelRequested, ctrlPid, setupPid, hbFresh, policy,
                 planned, engineVars, child, launch>>

EnqueueCancel(l) ==
  /\ At(l, "begin") /\ IsClient(l, "cancel")
  /\ control' = Enqueue(control, [kind |-> "cancel", mode |-> "none",
                                  boundary |-> "immediate"])
  /\ Goto(l, "flag")
  /\ UNCHANGED <<status, cancelRequested, ctrlPid, setupPid, hbFresh, policy,
                 planned, engineVars, child, launch>>

RequestCancel(l) ==
  /\ At(l, "flag")
  /\ cancelRequested' = TRUE
  /\ Goto(l, "look")
  /\ UNCHANGED <<status, ctrlPid, setupPid, hbFresh, policy, planned, control,
                 engineVars, child, launch>>

\* Only a job that waits for its speed policy is ended by `cancel` itself.
LookAfterCancel(l) ==
  /\ At(l, "look")
  /\ Goto(l, IF status = "waiting_for_speed" THEN "stop-ui" ELSE "done")
  /\ UNCHANGED <<jobVars, engineVars, child, launch>>

\* `resume`: what is read here decides whether a controller is launched.
ReadResume(l) ==
  /\ At(l, "begin") /\ IsClient(l, "resume")
  /\ Goto(l, IF status \in TERMINAL_STATES THEN "done"
             ELSE IF status = "waiting_for_speed" THEN "stop-ui"
             ELSE "enqueue")
  /\ launch' = [launch EXCEPT ![l] = status = "interrupted" \/ Stale]
  /\ UNCHANGED <<jobVars, engineVars, child>>

EnqueueResume(l) ==
  /\ At(l, "enqueue")
  /\ control' = Enqueue(control, [kind |-> "resume", mode |-> "none",
                                  boundary |-> "safe"])
  /\ Goto(l, IF launch[l] THEN "spawn" ELSE "done")
  /\ UNCHANGED <<status, cancelRequested, ctrlPid, setupPid, hbFresh, policy,
                 planned, engineVars, child, launch>>

\* `speed` on a job in setup is the text fallback; on any other job it only
\* enqueues a speed change.
ReadSpeed(l) ==
  /\ At(l, "begin") /\ IsClient(l, "speed")
  /\ Goto(l, IF status = "waiting_for_speed" THEN "stop-ui" ELSE "done")
  /\ UNCHANGED <<jobVars, engineVars, child, launch>>

LauncherDies(l) ==
  /\ Crashes
  /\ cli[l] \notin {"off", "begin", "done"}
  /\ Goto(l, "done")
  /\ UNCHANGED <<jobVars, engineVars, child, launch>>

Command(l) ==
  \/ SetSpeedPolicy(l) \/ SavePage(l) \/ ClosePage(l) \/ SetPlanning(l)
  \/ Spawn(l) \/ RecordController(l) \/ LaunchUi(l) \/ RecordUi(l)
  \/ StopUi(l) \/ SetCancelled(l) \/ ReadStatus(l) \/ MarkInterrupted(l)
  \/ EnqueuePause(l) \/ EnqueueCancel(l) \/ RequestCancel(l)
  \/ LookAfterCancel(l) \/ ReadResume(l) \/ EnqueueResume(l) \/ ReadSpeed(l)

-----------------------------------------------------------------------------
(* The controller: JobController.run.                                      *)

Move(e, place) == pc' = [pc EXCEPT ![e] = place]

\* The files of the job stay as they are, but for what is written.
JobUnchangedBut(written) ==
  /\ "status" \notin written => UNCHANGED status
  /\ "cancelRequested" \notin written => UNCHANGED cancelRequested
  /\ "control" \notin written => UNCHANGED control
  /\ UNCHANGED <<ctrlPid, setupPid, hbFresh, policy, planned>>

\* Mutant: only the pid in the job is looked at, not a lock.
TryPid(c) ==
  /\ c \in Controllers
  /\ pc[c] = "spawned"
  /\ IF ctrlPid \in {None, c} \/ ~Running(ctrlPid)
     THEN lease' = c /\ Move(c, "leased")
     ELSE Move(c, "exited") /\ UNCHANGED lease
  /\ UNCHANGED <<jobVars, left, cliVars>>

\* The lease is tried once; who does not get it gives up.
TryLease(c) ==
  /\ c \in Controllers
  /\ pc[c] = "spawned"
  /\ IF lease = None
     THEN lease' = c /\ Move(c, "leased")
     ELSE Move(c, "exited") /\ UNCHANGED lease
  /\ UNCHANGED <<jobVars, left, cliVars>>

\* A terminal job needs no controller.  Otherwise this one writes itself into
\* the job and starts its heartbeat.
TakeJob(c) ==
  /\ pc[c] = "leased"
  /\ IF status \in TERMINAL_STATES
     THEN /\ Move(c, "exited")
          /\ lease' = None
          /\ UNCHANGED <<ctrlPid, hbFresh>>
     ELSE /\ Move(c, "starting")
          /\ ctrlPid' = c
          /\ hbFresh' = TRUE
          /\ UNCHANGED lease
  /\ UNCHANGED <<status, cancelRequested, setupPid, policy, planned, control,
                 left, cliVars>>

\* The heartbeat thread writes the pid again, over any other.
Heartbeat(c) ==
  /\ Beating(c)
  /\ hbFresh' = TRUE
  /\ ctrlPid' = c
  /\ UNCHANGED <<status, cancelRequested, setupPid, policy, planned, control,
                 engineVars, cliVars>>

ReadJob(c) ==
  /\ pc[c] = "starting"
  /\ Move(c, IF status = "interrupted" THEN "waking" ELSE "store")
  /\ UNCHANGED <<jobVars, lease, left, cliVars>>

Wake(c) ==
  /\ pc[c] = "waking"
  /\ IF MayBecome("running")
     THEN status' = "running" /\ Move(c, "store")
     ELSE Move(c, "leaving") /\ UNCHANGED status
  /\ JobUnchangedBut({"status"})
  /\ UNCHANGED <<lease, left, cliVars>>

\* The `finally` of run(), and the end of the process.
Leave(e) ==
  /\ pc[e] = "leaving"
  /\ Move(e, "exited")
  /\ lease' = IF lease = e THEN None ELSE lease
  /\ UNCHANGED <<jobVars, left, cliVars>>

\* The process is killed; the system drops its lock.
EngineDies(e) ==
  /\ Crashes
  /\ Running(e)
  /\ Move(e, "exited")
  /\ lease' = IF lease = e THEN None ELSE lease
  /\ UNCHANGED <<jobVars, left, cliVars>>

-----------------------------------------------------------------------------
(* The engine: run_store.                                                  *)

\* Mutant: the engine plans without a speed policy.
EnterStoreAnyway(e) ==
  /\ pc[e] = "store"
  /\ Move(e, "plan")
  /\ UNCHANGED <<jobVars, lease, left, cliVars>>

\* A controller first builds its engine, which may fail (no valid command, no
\* model catalog); and without a speed policy run_store raises before its try
\* block.  Neither exception is handled: the job keeps its status.
EnterStore(e) ==
  /\ pc[e] = "store"
  /\ \/ policy /\ Move(e, "plan")
     \/ (~policy \/ e \in Controllers) /\ Move(e, "leaving")
  /\ UNCHANGED <<jobVars, lease, left, cliVars>>

\* transition(s), and on to place; the RuntimeError of a terminal job goes to
\* the handler.
EngineSets(e, s, place) ==
  /\ IF MayBecome(s)
     THEN status' = s /\ Move(e, place)
     ELSE Move(e, "failing") /\ UNCHANGED status
  /\ JobUnchangedBut({"status"})
  /\ UNCHANGED <<lease, left, cliVars>>

BeginPlan(e) ==
  pc[e] = "plan" /\ ~planned /\ EngineSets(e, "planning", "planning")

SavePlan(e) ==
  /\ pc[e] = "planning"
  /\ ~cancelRequested
  /\ planned' = TRUE
  /\ Move(e, "ready")
  /\ UNCHANGED <<status, cancelRequested, ctrlPid, setupPid, hbFresh, policy,
                 control, lease, left, cliVars>>

\* With the plan just saved, or the one that an earlier engine saved.
BeginRun(e) ==
  /\ pc[e] = "ready" \/ (pc[e] = "plan" /\ planned)
  /\ EngineSets(e, "running", "boundary")

\* _process_controls and _wait_paused, one request at a time.
Takes(e, kind, place, decision) ==
  /\ pc[e] = place
  /\ Pending(control) # {}
  /\ control.requests[First(control)].kind = kind
  /\ control' = Complete(control, First(control), decision)

AppliesCancel(e) ==
  /\ \E place \in {"boundary", "paused"} : Takes(e, "cancel", place, "applied")
  /\ cancelRequested' = TRUE
  /\ Move(e, "cancelling")
  /\ JobUnchangedBut({"control", "cancelRequested"})
  /\ UNCHANGED <<lease, left, cliVars>>

AppliesPause(e) ==
  /\ Takes(e, "pause", "boundary", "applied")
  /\ IF MayBecome("paused")
     THEN status' = "paused" /\ Move(e, "paused")
     ELSE Move(e, "failing") /\ UNCHANGED status
  /\ JobUnchangedBut({"control", "status"})
  /\ UNCHANGED <<lease, left, cliVars>>

\* A second pause of a paused job, or a resume of a running one.
SettlesNeedless(e) ==
  /\ \/ Takes(e, "pause", "paused", "superseded")
     \/ Takes(e, "resume", "boundary", "applied")
  /\ JobUnchangedBut({"control"})
  /\ UNCHANGED <<pc, lease, left, cliVars>>

AppliesResume(e) ==
  /\ Takes(e, "resume", "paused", "applied")
  /\ IF MayBecome("running")
     THEN status' = "running" /\ Move(e, "boundary")
     ELSE Move(e, "failing") /\ UNCHANGED status
  /\ JobUnchangedBut({"control", "status"})
  /\ UNCHANGED <<lease, left, cliVars>>

\* The idle limit of a pause: ControllerInterrupted ends the engine.
PauseTimesOut(e) ==
  pc[e] = "paused" /\ EngineSets(e, "interrupted", "leaving")

\* Mutant: one wave too many.
StartWaveOffByOne(e) ==
  /\ pc[e] = "boundary"
  /\ Pending(control) = {}
  /\ Move(e, IF cancelRequested THEN "cancelling" ELSE "working")
  /\ UNCHANGED <<jobVars, lease, left, cliVars>>

\* Nothing is pending: a wave starts unless the job was cancelled.
StartWave(e) ==
  /\ pc[e] = "boundary"
  /\ left[e] > 0
  /\ Pending(control) = {}
  /\ Move(e, IF cancelRequested THEN "cancelling" ELSE "working")
  /\ UNCHANGED <<jobVars, lease, left, cliVars>>

\* Every task of the wave has a result; cancelled ones are failures that the
\* next boundary or the end of the plan deals with.
EndWave(e) ==
  /\ pc[e] = "working"
  /\ left' = [left EXCEPT ![e] = @ - 1]
  /\ Move(e, "boundary")
  /\ UNCHANGED <<jobVars, lease, cliVars>>

\* A low-risk plan is not reviewed, and then nothing looks at the flag again.
BeginReview(e) ==
  /\ pc[e] = "boundary"
  /\ left[e] = 0
  /\ Pending(control) = {}
  /\ \E place \in {"review", "finish"} : EngineSets(e, "reviewing", place)

\* The review approves; integration is its last boundary.
Approve(e) ==
  /\ pc[e] = "review"
  /\ ~cancelRequested
  /\ Move(e, "finish")
  /\ UNCHANGED <<jobVars, lease, left, cliVars>>

CompleteJob(e) == pc[e] = "finish" /\ EngineSets(e, "complete", "leaving")

\* Planning, a task, the review, the integration or the clean-up fails.
Fails(e) ==
  /\ \/ pc[e] \in {"plan", "planning", "review", "finish"}
     \/ pc[e] = "boundary" /\ left[e] = 0 /\ Pending(control) = {}
  /\ Move(e, "failing")
  /\ UNCHANGED <<jobVars, lease, left, cliVars>>

\* Mutant: a cancellation leaves the status as it is.
HandleOnlyErrors(e) ==
  /\ pc[e] \in {"failing", "cancelling"}
  /\ status' = IF status \in TERMINAL_STATES \/ pc[e] = "cancelling"
               THEN status ELSE "blocked"
  /\ Move(e, "leaving")
  /\ JobUnchangedBut({"status"})
  /\ UNCHANGED <<lease, left, cliVars>>

\* The handlers of JobCancelled and of any other exception leave a terminal
\* status alone.
HandleFailure(e) ==
  /\ pc[e] \in {"failing", "cancelling"}
  /\ status' = IF status \in TERMINAL_STATES THEN status
               ELSE IF pc[e] = "cancelling" \/ cancelRequested THEN "cancelled"
               ELSE "blocked"
  /\ Move(e, "leaving")
  /\ JobUnchangedBut({"status"})
  /\ UNCHANGED <<lease, left, cliVars>>

ControllerStep(c) ==
  TryLease(c) \/ TakeJob(c) \/ ReadJob(c) \/ Wake(c)

EngineStep(e) ==
  \/ EnterStore(e) \/ BeginPlan(e) \/ SavePlan(e) \/ BeginRun(e)
  \/ AppliesCancel(e) \/ AppliesPause(e) \/ SettlesNeedless(e)
  \/ AppliesResume(e) \/ PauseTimesOut(e) \/ StartWave(e) \/ EndWave(e)
  \/ BeginReview(e) \/ Approve(e) \/ CompleteJob(e) \/ Fails(e)
  \/ HandleFailure(e) \/ Leave(e)

\* Every process has ended.
Terminated ==
  /\ \A l \in Launchers : cli[l] \in {"off", "done"}
  /\ \A e \in Engines : ~Running(e)
  /\ UNCHANGED vars

Next ==
  \/ \E l \in Launchers : Command(l) \/ LauncherDies(l)
  \/ \E c \in Controllers : ControllerStep(c) \/ Heartbeat(c)
  \/ \E e \in Engines : EngineStep(e) \/ EngineDies(e)
  \/ HeartbeatAges
  \/ Terminated

Spec == Init /\ [][Next]_vars

\* Controllers and engines run, every call of theirs has a deadline, and a
\* command that was begun goes on; whether one is begun is up to the user.
Fairness ==
  /\ \A c \in Controllers : WF_vars(ControllerStep(c))
  /\ \A e \in Engines : WF_vars(EngineStep(e))
  /\ \A l \in Launchers : WF_vars(cli[l] # "begin" /\ Command(l))

FairSpec == Spec /\ Fairness

-----------------------------------------------------------------------------
(* Safety.                                                                 *)

\* Of the controllers that are launched for a job, by whichever commands and
\* after whatever crashes, at most one is past its lease
\* (controller.py JobController.run).
OneController ==
  \A c \in Controllers : pc[c] \in Holding => lease = c

\* The engine is the single owner of its job: no two engines are inside
\* run_store at once (SKILL.md, "the single owner of every orchestrated job").
OneEngine ==
  \A e, f \in Engines : pc[e] \in InStore /\ pc[f] \in InStore => e = f

\* The job keeps the promise of its durable state, whatever stale reads the
\* processes act on: it leaves setup only with a speed policy, nothing works
\* without one, and it ends once (state.py transition, engine.py run_store).
Promise == INSTANCE JobPromise WITH
  Setup <- "waiting_for_speed",
  Open <- ACTIVE_STATES \ {"waiting_for_speed"},
  Working <- {"reviewing", "paused"},
  Terminal <- TERMINAL_STATES

KeepsPromise == Promise!Spec

-----------------------------------------------------------------------------
(* Liveness.                                                               *)

\* A cancellation ends the job while there is an engine to see it.
CancelSeen ==
  (cancelRequested /\ \E e \in Engines : pc[e] \in InStore)
     ~> (status \in TERMINAL_STATES \cup {"interrupted"})

\* `cancel` ends the job: it is what `start` names as the way out of a
\* workspace whose job is not terminal.
CancelEnds == cancelRequested ~> status \in TERMINAL_STATES
=============================================================================
