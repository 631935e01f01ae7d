# Formal model of the auto-orchestrator runner

This directory holds TLA+ modules for the runner in `src/scripts/`: the CLI
(`orchestrate.py`), and the package `orchestrator/` with the durable job, the
controller and the engine. TLC checks the modules on small instances, and TLAPS
proves the most important invariants for instances of every size. Three views
of one job are modelled: how it is controlled while it runs (ControlBoundary),
who may run it (JobLifecycle), and what it does to the user's repository and to
the outside world (JobWork).

Contents: [the system](#the-system), [the modules](#the-modules),
[runs](#runs), [fairness](#fairness), [proofs](#proofs),
[findings](#findings), [not modelled](#not-modelled), [plan](#plan).

## The system

A **job** is a directory with JSON files. Many short processes (CLI commands),
at most one speed-setup page and at most one controller share it. There is no
server: processes interact only through these files, two kinds of file locks,
and process signals.

| Component | Source | State it keeps | Operations |
|---|---|---|---|
| Job store | `state.py` | `state.json`: `status`, `cancel_requested`, `controller`, `setup_pid`, tasks, processes, steering, `plan_revision`; `plan.json`, `speed-policy.json` | `create`, `transition` (refuses to change a terminal job), `request_cancel`, `mutate` (read, change and write under the lock; all others use it), `set_speed_policy`, `set_task`, `register_process`, `record_external_action`, `find_active_job`, `prune_runs` |
| Control queue | `control.py` | `control.json`: `next_seq`, requests with a status | `enqueue` (a replacement supersedes waiting steering), `pending` (by priority), `complete` |
| Controller | `controller.py` | the lease (`.controller.lock`), a heartbeat thread | `run`, `launch_controller` |
| Engine | `engine.py` | locals of its threads; everything durable is in the store | `run_store`: plan (`_save_plan`), waves of task threads, review, repair, integration, completion; `_process_controls`, `_wait_paused` |
| Task execution | `engine.py` `_run_task` | per task: attempts, budgets, upgrades, results | invoke, retry, upgrade, interrupt, reconcile external actions |
| Worker process | `process_runner.py` | child process, evidence files, session id | start, wait with timeout, stop on cancel or interrupt, tier fallback |
| Workspaces | `workspace.py` | git worktrees, snapshots, the user's repository | create, check cleanliness, integrate, clean up |
| CLI | `orchestrate.py` | none; reads and writes the job | `start`, `run`, `status`, `steer`, `speed`, `pause`, `resume`, `cancel`, `followup`, `profiles`, `report` |
| Speed setup page | `speed_ui.py` | one HTTP server per page, profiles file | save, cancel, time out |
| Policy functions | `schemas.py`, `speed_profiles.py`, `model_catalog.py` | none | validate plans and results, resolve profiles, choose models |
| Infrastructure | `util.py` | lock files | `exclusive_file_lock`, `try_exclusive_file_lock`, `atomic_write_json`, process identity, `terminate_process_tree` |

How they interact: `start` creates the job and launches the setup page or the
controller; the page writes the speed policy and launches the controller; the
controller takes the lease, records itself and calls the engine; CLI commands
append to the control queue, which the engine drains at boundaries; every other
decision of a command is made on a *read* of `state.json` that may be old when
it is acted on.

The hard behaviours, and what makes each component correct:

- **Control queue.** Several engine threads drain it without a common lock. The
  queue must keep its numbering and never leave an instruction pending behind a
  replacement of it; steering must be recorded once and in order.
- **Engine.** Exceptions of task threads, cancellations, pauses and replans race
  with the main thread. No job may complete after a cancellation was taken from
  the queue; nothing may run when the job is over; a pause must stop model
  calls; a replaced direction must be planned again; every wait must end.
- **Job life.** Crashes, stale reads and several launchers. At most one
  controller; a terminal status is final; no work without a speed policy; a
  cancellation must end the job.
- **External actions.** A task with permissions outside of the workspace may
  have acted when its worker, or the engine, dies. The ledger, the session id,
  the result and the end of the entry are separate writes. Nothing that may have
  been done may be done again unseen, and no entry may claim what has not been.
- **Workers.** A worker outlives its engine, and may outlive the signals it is
  sent. Before it can act it must be in `state.json`, and the next engine must
  not work beside it.
- **Workspaces.** The user commits and edits while the job works. The checkout
  gets all the reviewer approved or nothing, loses no commit of the user, and no
  worktree or branch with work of a task is removed.
- **Plan and results.** Retries, repairs, an Ultra run and restarts change the
  results that decide what starts next and whether the job is complete.

The file `PROJECT.json` lists all hazards at their source lines, with the
properties that cover them.

## The modules

```
ControlQueue                     the value of control.json, as operators
  |-- ControlBoundary            one engine: main thread, task threads, commands
  |     `-- MCControlBoundary    instances for TLC
  `-- JobLifecycle               one job: commands, pages, controllers, engines
        |-- MCJobLifecycle       instances for TLC
        `-- JobPromise           abstract: what state.json shows (INSTANCE)

PlanPolicy                       plans: what is valid, what is made of a valid one
  `-- Workspace                  checkout, worktrees, branches, integration, cleanup
        `-- TaskRun              one task: attempts, ledger, worker, orphans
              `-- JobWork        the engine's main thread over all of it, and crashes
                    |-- MCJobWork    instances for TLC
                    `-- WorkPromise  abstract: results and checkout (INSTANCE)

ControlQueueProofs  <- ControlBoundaryProofs <- ControlEffectProofs
                    <- JobLifecycleProofs
PlanPolicyProofs    <- JobWorkTypes <- JobWorkProofs <- WorkPromiseProofs
```

**ControlQueue** is `control.py`. Every call of the class reads, changes and
replaces the file under an exclusive lock, so `Enqueue`, `First` (the head of
`pending()`) and `Complete` are operators on the value of the file. A request is
named by its sequence number; of its payload only the steering mode is kept.

**ControlBoundary** is one engine from the first plan to its exit, at the grain
of locked calls. Durable variables are the files; `pc, held, inPause, replan,
err, base` are the locals of each thread; the others are locals of the main
thread. A thread in `_process_controls` is at `"drain"` (the head of the loop),
reads a request (`ReadQueue`, to `"act"`) and applies it by the actions named
for each branch: `TakeCancel`/`ApplyCancel`, `TakePause`/`EnterPause`,
`TakeResume`/`LeavePause`, `ReadPolicy`/`WritePolicy`/`Decide`,
`RecordSteering`/`Decide`. The same actions with `inPause` are `_wait_paused`.
`Interrupt` is `_immediate_interrupt_reason` stopping an invocation, after which
*that thread* drains the queue. The main thread's actions follow `run_store`,
`_execute_plan` and `_review_and_integrate`, and its handlers are `HandleReplan`
and `HandleError`. Which tasks a wave prepares, what models answer, and when a
queued thread is given a slot of the pool are nondeterministic. A behaviour
begins with a new job, or with the engine that a `resume` launched after the
last controller had died in the middle of a cancellation (`CancelledBefore`).

**JobLifecycle** is one job and every process. Each launcher (command or page)
has a place `cli`, each engine a place `pc`; a step is one locked call, or one
read whose result the process then carries in its place. `TryLease`, `TakeJob`,
`ReadJob`, `Wake`, `Leave` are `JobController.run`; `Heartbeat` the heartbeat
thread; `EngineDies` and `LauncherDies` a killed process (the system drops its
lock). The engine here has one thread and no reviews in detail: `"reviewing"`
stands for every status from the last wave to the end. A few pairs of locked
calls of the engine (`AppliesCancel`, `AppliesPause`, `AppliesResume`: complete
the request, then write the status) are one step here; ControlBoundary has them
apart. Heartbeats may age at any moment, so nothing relies on their timing.

**JobPromise** is the abstract specification: of a job one sees its status and
whether its speed policy is fixed. It leaves setup only with a policy, only
with a policy is it reviewed, paused or completed, and it ends once.
(`running` is not in that list: a resumed controller writes it before
`run_store` looks for the policy, and then gives up.)

**PlanPolicy** is what `validate_plan`, `apply_authority_ceiling` (`schemas.py`)
and `_apply_workspace_policy` (`engine.py`) decide and change, as operators on a
plan: waves, dependencies, writers, mode, permissions. The shape of the JSON is
not an issue here. `ForWorkspace` splits the waves of a shared workspace; what a
planner may answer with (`RawPlan`) has not been split yet. Of the ids of waves
one thing matters: splitting adds "-reads" to them, so that ids which are valid
may be too long for the second `validate_plan` (`Ids`), and the job is blocked.

**Workspace** is `workspace.py`. A commit is its author and round, a head the
set of commits it contains: `merge-base --is-ancestor` is `\subseteq`, a merge
is `\cup`. Creating a worktree is two steps (`git worktree add`, `_persist`), so
are `apply_integration` (look, merge) and `cleanup` (worktrees, branches); the
user may act, or the engine die, between them.

**TaskRun** is `_run_task` with `process_runner.py` and the records of
`state.py`: one write of `state.json`, or of a result, is one step of the
thread. `RecoverExternalAction` is the verification before the first attempt,
`BeginAttempt` chooses the session and writes the task's record, `RecordStart`
the ledger, `Spawn`, `Register` and `Prompt` are the start of a worker in that
order, `SaveSession` the reader thread, `Collect`, `Timeout` and `Interrupt` its
ends, `Reconcile` the verification after an attempt, `Keep`, `Mark` and `Settle`
the three writes of a success, `Drop` those of a failure. A thread may also
end in an exception with its worker still registered: the write of the prompt
breaks (`PromptFails`), or the worker outlives the two signals it is sent
(`OutlivesSignals`, the second `wait` of `process_runner.py:253`). The worker is
external: it names its thread (`Announce`), does its work (`Work`), exits with
or without an output (`Exit`); one that does not read its prompt is `"deaf"`, and
its engine waits for it without a deadline, until it reads (`Heed`). `ThreadsDie`
is what a kill of the engine leaves, `ReconcileOrphan` is
`_reconcile_orphan_processes` of the next controller: it sends a worker one
signal and forgets it, whether it ends or not. One that does not, or gets no
signal because its identity is not known or its command line is another, becomes
a *stray*: in the variable `stray` it goes on, and the engine knows nothing of it.
Sessions need identity only as far as they can be resumed: a task has at most
two such, all older ones are `Forgotten`.

**JobWork** is the main thread: `run_store`, `_plan`, `_execute_plan`,
`_review_and_integrate`; `engine` holds its locals, `engine.at` its place. It
makes or loads the plan, gives writers their worktrees, starts a wave, joins it,
tries one failure of coordination with Ultra, has the result reviewed, repaired
once and reviewed again, integrates, checks, cleans up, and writes the status.
`Failed` is the path of an exception. `Crash` kills the engine at any step,
`Launch` is the next controller.

**WorkPromise** is the abstract specification: who reads only results and
checkout sees tasks accepted in the order of their dependencies, work that lands
only when all is accepted, a complete job that has all of it, and no change
after the end.

What JobWork assumes of the outside, all of it visible in the actions named:

- A *tame* worker reads its prompt, ends when it is told to, and is recognised
  in the table of processes. A setting says whether all workers are tame;
  nothing in the code makes sure of it. Properties that rest on it say so
  (`setting.tame => ...`): `NoOrphanBesideEngine`, `OneWriterInRoot`,
  `ApprovedIsLanded`, `LandsWhole`, `NoBlindRepeat` and `EngineEnds`. All
  others hold of any worker.
- A verification does not err; it may fail to find out (`Verdicts`).
- A worker names its thread before it acts, acts once per session, and does not
  claim a success it has not had (`Announce`, `Work`, `Exit`). A worker that got
  no prompt exits when its stdin closes, also when its engine is killed
  (`ThreadsDie`).
- The entry in `state.json` of an orphan with another command line is skipped at
  every recovery; it is dropped from the model at the first. The worker is a stray.
- The reviewer approves only what it has merged (`Approve`); it may merge and
  edit at will before that. What it and the planner leave running when the
  engine dies does nothing.
- A worktree that is missing is made in any order; the code follows the plan.

Constants are declared with the weakest assumptions the modules need; the `MC`
modules only define which commands are sent (`Cmd`, `Role`) and the symmetry.
Definitions marked "Mutant" are wrong variants of the definition that follows
them, used to see that each property can fail.

## Runs

| Run | Instance | Shows |
|---|---|---|
| `two_workers` | 2 task threads, 2 waves; either replace, add and speed change, or pause, resume and cancel | `TypeOK`; `QueueOK`: the queue keeps its order and supersession; `TerminalQuiet`: no thread outlives the job; `SteeringReported`: steering that counts as applied is recorded; `ReplaceReplanned`: without pauses, no completion on an old plan; `CancelNeverCompletes`; `EngineStops` (liveness) |
| `one_task_at_a_time` | 1 task thread, 2 waves, a retry; pause, 2 additions, speed change, resume | `SteeringInOrder`, `RevisionPerChange`, `PausedStartsNothing` when one task thread runs at a time |
| `lifecycle` | 3 controllers, 2 pages, crashes; every kind of start; cancel, speed fallback and resume in setup, status, pause and resume otherwise | `TypeOK`; `OneController`, `KeepsPromise`: through recovery from any crash, and through the races at the end of setup |
| `cancel_is_seen` | 2 controllers; cancel, pause, resume | `CancelSeen` (liveness): an engine that runs ends a cancelled job |
| `pause_two_workers` | 2 task threads, one interruptible; pause, resume, cancel | violates `PausedStartsNothing` (finding) |
| `replace_in_pause` | pause, replace, resume | violates `ReplaceReplanned` (finding) |
| `foreground_resumed` | a foreground run and a resume | violates `OneEngine` (finding) |
| `cancel_leaves_job_open` | cancel and pause | violates `CancelEnds` (finding) |
| `job_work` | 2 tasks in nine settings: external actions, worktrees, a shared checkout, Ultra, retries, repairs, crashes, an active user, workers that are not tame | `TypeOK`; workers: `ActingIsRegistered`, `NoOrphanBesideEngine`, `OneWriterInRoot`; results: `SuccessIsReal`, `DependenciesFirst`, `KeepsPromise`; external actions: `LedgerTruthful`, `NoBlindRepeat`; repository: `WorkKept`, `ApprovedIsLanded`, `LandsWhole`, `UserWorkKept`; `EngineEnds` (liveness) |
| `uncertain_action_repeated` | one external action; a crash, an interruption, an edit of the user | violates `NeverRepeatUncertain` (finding) |
| `dirty_checkout_shared` | 2 writers in a wave; a crash, an edit of the user | violates `SharedWritesSerialized` (finding) |
| `completed_action_repeated` | one external action; two crashes | violates `CompletedNotRepeated` (finding) |

Bounds and why they are enough for the questions asked:

- **Task threads, 2**: the races are between a task thread and the main thread
  or another task thread. The proved properties hold for any number.
- **Waves, 1 or 2**: two waves let an event be taken in one and have its effect
  in the next; a replan starts again from wave 1.
- **Retries, 0 or 1**: a retry is one more way into an invocation; its number
  adds no new order of steps.
- **Commands, 1 to 5 in one behaviour, each sent once**, at any time: the queue
  grows to at most 5 requests, enough for every pair of priorities, for
  supersession with a request in hand, and for a second request of a kind behind
  the first. `Casts` says which commands may meet in one behaviour; in JobLifecycle
  it depends on how the job was started.
- **Controllers, 1 to 3; pages, 0 or 2**: one controller for each process of the
  run that may launch one (the start, the text fallback, a resume, a page), so
  none of them is ever short of a process to launch.
- **Symmetry** permutes controllers and pages, which the specification never
  tells apart; it is used in safety runs only.

- **JobWork**: a behaviour starts with one `Setting`, which bounds all that may
  go wrong in it: the plans the planner may answer with, retries, the failures
  workers report, whether the reviewer may ask for repairs, and how many
  crashes, interruptions, commits and edits of the user there are. The settings
  of `AllSettings` in `MCJobWork` are chosen for what they make happen together:
  an external action with two crashes (the second kills the recovery from the
  first) or with a crash, an interruption and an edit; two waves whose
  permissions are taken away; two worktrees and a user who commits; a task in the
  checkout beside one in a worktree; a shared checkout with a chain, with an
  invalid plan before a valid one, and with a pair that is split, or cannot be
  because of an id; Ultra with every kind of failure, a retry and a crash; workers
  that are not tame (`Wild`), with an external action and with a worktree, a crash
  and an interruption. Two tasks suffice for dependencies, waves
  and writers that meet; a task has two rounds because the code repairs once.

No run switches deadlock checking off: the specifications have an explicit
`Terminated` or `Over` step for the states where all has ended.

## Fairness

- *ControlBoundary*: weak fairness of each thread's steps and of the main
  thread's. An invocation has a timeout (its thread is then at `EndTask`,
  `Retry` or `InvocationFails`), a pause an idle limit (`PauseTimeout`, the
  `deadline` of `_wait_paused`), a planner and a reviewer their timeouts. The
  threads are those of one operating-system process. Commands need not be sent.
- *JobLifecycle*: weak fairness of each controller, of each engine and of every
  command that was begun. No fairness for beginning a command, for heartbeats
  or for crashes.

- *JobWork*: weak fairness of `EngineStep`, the steps of the engine's threads
  and of the reconciliation before them. A tame worker owes nothing but to read
  its prompt, which is no step of its own: what it does not do in time `Timeout`
  ends, which is one of these steps and enabled as long as the worker runs.
  `EngineEnds` is about tame workers, because the deadline of an invocation is
  set only after the prompt is written (`process_runner.py:200`, `:232`).
  Workers, reviewer, user and crashes have no fairness. `EngineEnds` needs no
  bound on the user, as no step of the engine waits for him.

`EngineStops` depends on `PauseTimeout`: without it a pause that nobody ends
lasts for ever. It also shows that several threads that wait in a pause, when
one of them takes the only resume, still all return, by their own deadlines.

## Proofs

All theorems but `SplitStaysValid` are of the form `Spec => ...`, and all hold
for every value of the constants that satisfies the named assumptions (finite
set of task threads, at least one wave, commands of the right type, pairwise
distinct processes).

- **ControlQueueProofs**: lemmas on the queue's operators. `EnqueueInv` and
  `CompleteInv`: they keep `QueueInv` (types, dense numbering, and no steering
  pending before a replacement) and the kinds of the requests. `FirstPending`:
  `First` returns a pending request. Its argument (`LeastOf`) maps priority and
  arrival to one number and takes the least.
- **ControlBoundaryProofs**: `TypeCorrect`, `QueueIsOrdered`, `TerminalIsQuiet`.
  The invariant `TypeInv` adds to the types `QueueInv` and `HeldInv`: the request
  a thread has in hand exists, and what a thread applies in two steps is a speed
  change or steering. `WaveInv`: task threads run only while the main thread
  collects or joins them, and what was collected is done.
- **ControlEffectProofs**: what the controls come to. Its steps of a drain
  (`Effect`, `OtherStep`) say once what each branch of `_process_controls`
  does to queue, steering and revision; the invariants below are then shown step by
  step from them.
  - `CancelIsNotOutrun` from `CancelInv`. The property alone is not inductive: the
    main thread might be about to complete. `CancelInv` says where it can be once
    a cancellation is applied: it is ending itself, or at the first boundary of a
    resumed engine with the flag set, or it is still collecting and a thread it has
    not collected is about to raise or has raised. That `Collect` of such a thread
    cannot be avoided is the core of the argument, and it needs `WaveInv`; that
    planning a second time cannot succeed needs the flag.
  - `ReplacementIsPlanned` from `ReplanInv`, by the same argument: a replacement
    the plan has not seen is in the hand of a thread that will raise, or of
    the main thread on its way to a new plan. Hypothesis `NoPauseSent`, because
    with a pause it is false (finding 2).
  - `SteeringIsReported` from `ReportInv`, without a hypothesis: two drains may
    handle one request, but each records before it completes.
  - `OneDrainAtATime`. No lock covers a drain. What keeps two threads apart is
    that only one can be interrupted: the hypothesis `OneInterrupted` is that a
    wave has one task, or that nobody cancels (a cancellation interrupts every
    thread) and at most one task is isolated. The main thread drains only while no
    task thread does (`WaveInv`).
  - From it `SteeringIsOrdered` (`OrderInv`: what is recorded is older than all
    that waits, but for the request in the hand of the one drain) and
    `ChangeIsRevision` (`RevisionInv`: the revision counts the applied changes,
    and one more between the write of the policy and the completion of the
    request; the revision a thread has read is still the present one). Both are
    false with two drains.
  - `PauseHolds` from `PauseInv` (who waits in a pause is inside a drain; a
    job is marked paused only while one waits, or on the way to its end).
    Hypothesis `OneTask`, because with a second task it is false (finding 1).
- **JobLifecycleProofs**: `TypeCorrect`, and `LeaseIsExclusive`: whoever is past
  its lease owns it; that invariant is inductive with the types.
  `BackgroundIsExclusive` draws from it that one engine is at work, `OneEngine`, in
  a job that is started in the background (`NoForeground`): no command but the one
  that started the job can put an engine in the foreground. `PromiseIsKept`
  (JobLifecycle implements JobPromise) and `TerminalIsFinal`: the strengthening is
  `PolicyInv` (nobody is past the speed gate without a policy) and `SetupInv`
  (while the job waits for its policy there is no plan, no controller, and no
  command that believes the job to be in another status). Without `SetupInv` the
  step of a stale command, say `MarkInterrupted` after an old read, could take the
  job out of setup.

- **PlanPolicyProofs**: `SplitStaysValid`: what `_apply_workspace_policy` makes
  of a valid plan has the same tasks and is valid, unless a wave id grows too
  long by "-reads", and then it is not. The waves are built by `FlattenSeq`, a
  fold, and no induction principle of the library can be used on a fold here.
  The proof goes by the least index at which a claim fails: `FlattenSeq` of the
  first k+1 waves is that of the first k with the next wave appended, so there
  is none. From it follow what it contains, in which order and how often, and
  that serial waves hold one writer each (`SplitApart`).
- **JobWorkTypes**: `TypesKept`, for any plan and any settings. `TypeInv` is
  `TypeOK` without the waves of the plan and without the budgets;
  `TypeCorrect` of JobWorkProofs is all of `TypeOK`.
- **JobWorkProofs**: `WorkInv` = `TypeInv`, `AliveInv` and `LedgerInv`.
  - `AliveInv` says where threads and workers can be, given the place of the main
    thread: a busy thread means that the main thread waits for it; a worker that
    can act is registered and, once orphans are reconciled, has its thread waiting,
    or had one that has given it up (`GivenUp`), and then the main thread is
    about to take up that exception, or on its way to the end of the job
    (`Leaving`); there are strays only of workers that are not tame.
    From it: `ActingAnnounced`, for any worker, and `OrphansGone`, for tame ones.
    What `OrphansGone` shows is that every orphan of any crash is found and told to
    end; that it does end is an assumption.
  - `LedgerInv` follows one action through all its writes (`TaskLedger`), strays
    included: whoever has been told of it finds it in the ledger, what reports a
    success comes after the work, and a repair comes after a success.
    `SuccessesReal` and `LedgerIsTruthful` alone are not inductive: the file
    from which the next attempt takes its outcome, the thread about to keep it
    and the worker that has not yet exited must be in the invariant. From it
    also `NeverBlindlyRepeats`: the only way past `NeedsRecovery` with an open
    entry is a session to resume. Its one clause about tame workers is that what
    has been verified as not applied has not been: a stray may act after the
    verification. `UserWorkStays` needs the types only.
  - `PlanInv` says that the plan in `plan.json` is valid and, when it was split,
    has at most one task per wave where one writes; `WaveInv` that the main thread
    is at a wave of it and waits for tasks of that wave only. With them and
    `AliveInv`: `SerialApart`. Beside an engine at work every tame worker has a
    thread of the present wave, or of the one repair, waiting for it; beside none, or
    before its orphans are gone, workers end and none is started. `CleanInv` is
    about plans that were not split: if nobody else edits the checkout and nothing is
    repaired, it stays without edits, and every writer is in a worktree. Both
    together are `WritersApart`; finding 6 is what they leave.
  - `NothingUncertainRepeated`: `NeverRepeatUncertain`, which finding 5
    violates, of tame workers and for the jobs `Undisturbed`: the user leaves
    the checkout alone and the reviewer asks for no repair; engines may still be
    killed, and tasks interrupted and retried, any number of times. `PlaceInv`:
    all engines find the checkout with edits, or all without, so that a task
    always runs in the same place and a session that can be resumed is. That it
    needs no repairs came out of the proof (finding 5).
- **WorkPromiseProofs**: `OrderInv` says that a task that is running has all it
  depends on, and that the main thread is in the review, or declares the job
  complete, with all successes, or knows that a repair has lost one. With it
  `DependenciesComeFirst` and `WorkIsPromised`: JobWork implements WorkPromise,
  step by step. Both hold of any workers. `LandInv` carries what the reviewer
  was shown from its approval through the merge to the verdict (`ApprovalLands`,
  `LandsAtOnce`): the interesting case is "nothing to merge", where the
  integration must already be in the checkout. These two are about tame workers:
  another may commit to a branch after the reviewer was shown it. `TreeInv` adds
  to `WorkKept` that a worktree has its branch (`WorkIsKept`, for any worker:
  what is not merged is kept, whoever has committed it).

Seven theorems have a hypothesis: `NoPauseSent`, `OneInterrupted` and `OneTask`
about the commands and tasks of a job, `NoForeground` about its start,
`Undisturbed` about its user and reviewer. They are not assumptions on the code,
but say for which jobs it keeps what it does not keep for all: without them the
runs `replace_in_pause`, `pause_two_workers`, `foreground_resumed` and
`uncertain_action_repeated` find a counterexample, and two drains handle a
request twice as told under findings. `one_task_at_a_time` is an instance with
`OneInterrupted` and `OneTask`, and `cancel_is_seen` one with `NoForeground`;
the behaviours of `two_workers` with steering are those of an instance with
`NoPauseSent`. That workers are tame is an assumption on the programs the runner
starts and on the system, and part of the properties that need it, which TLC
also checks with others.

Every safety invariant and action property of a passing run is proved. Only
model-checked are `EngineEnds`, `EngineStops` and `CancelSeen`: liveness under
fairness is outside of the prover's reach.

## Findings

1. **A pause does not stop the other tasks.** The task thread that an immediate
   pause interrupts takes the request and waits alone; another thread of the
   wave starts, is retried or reinvoked while `state.json` says `paused`
   (`engine.py:712`, run `pause_two_workers`).
2. **A replacement during a pause is not planned.** `_wait_paused` records it
   and completes it as applied, but the replan flag belongs to
   `_process_controls`; the job may complete on the old plan
   (`engine.py:1039`, run `replace_in_pause`).
3. **A foreground run has no lease.** `resume` takes it for abandoned and
   launches a controller beside it (`orchestrate.py:257`, run
   `foreground_resumed`).
4. **`cancel` without an engine leaves the job open.** Only a job in setup is
   ended by the command; an interrupted one keeps its status, and its workspace
   (`orchestrate.py:563`, run `cancel_leaves_job_open`).

5. **An uncertain external action is repeated.** Whether an open action needs a
   verification is decided by the existence of a session (`resumable_external`,
   `engine.py:573`); whether that session is resumed, also by its workspace
   (`engine.py:643`). A task that ran in a worktree, whose engine dies after the
   action, and that is restarted on a checkout the user has edited meanwhile
   falls between the two: no verification, no resumption, and a new session does
   it again. `engine.py:627`: "Never mechanically retry such an invocation under
   a new session." (run `uncertain_action_repeated`). `NoBlindRepeat`, proved,
   says that of tame workers another workspace is the only such way but for a
   completed entry (finding 7). Without an edit of the user it takes three
   crashes and a repair: the repair has acted and failed, and the engine dies;
   the next one runs the task again and dies between its result and its record
   (`Keep`, `Mark`); the one after it gets no approval, removes the worktree and
   dies before it ends the job; then the repair is asked for again, and runs in
   the root. In a job that nobody disturbs and whose reviewer asks for no repair
   it cannot happen (`NothingUncertainRepeated`).

6. **Writers share a checkout that was edited later.** A plan is split for the
   checkout it was made on. `run_store` loads it again without the workspace
   policy (`engine.py:150`; only a new plan gets it, line 158), but
   `_execute_plan` looks at the checkout as it is now (`engine.py:451`): the two
   writers of a wave, planned for worktrees, run together in the checkout when
   the user has edited it between two engines. `OVERVIEW.md:67`: "Dirty Git and
   non-Git workspaces serialize writes.", and so `README.md:200` and
   `routing-policy.md:15` (run `dirty_checkout_shared`). A repair in the root
   (as in finding 5) leaves edits, too, without any of the user. In all other
   cases `OneWriterInRoot` holds.
7. **An action known to be completed is repeated.** A verification closes the
   ledger entry before the result of the task is written (`engine.py:597-602`,
   `769-774`), and the next verification asks only for started and uncertain
   entries (`engine.py:578`). An engine killed between the two leaves a completed
   entry and no result; the next one records it as started again and gives it to a
   new session. `OVERVIEW.md:71`: "only proven `not_applied` may be retried once";
   `README.md:205` says the same (run `completed_action_repeated`). A repair that
   has failed, and a crash, lead there too.

With two interruptible tasks two drains can also record one steering request
twice, or write one policy revision for two speed changes; no document states
that they may not, so these are hazards with a note and not findings.

Two more places where code and documents differ have no run of their own, the first
because a property that forbids it would only restate a guard:

- `README.md:93` and `SKILL.md:46` say that uncertain external writes are never
  force-stopped. A worker with external permissions and a worktree of its own counts
  as isolated, and `Interrupt` stops it (`engine.py:701`); an orphan is sent a
  signal whatever it does (`controller.py:103`). What comes after both is checked.
- `CONFIGURATION.md:27` and `FUNCTIONS.md:37` speak of one exclusive Ultra per job.
  `_ultra_used` is a local of one engine (`engine.py:159`), and so is
  `engine.ultraUsed`: after a restart there may be a second.

Of JobWork a reader of the code should know these too; the model has the
behaviour unless said otherwise, and no document speaks of it:

- A worker that does not end when told to, or is not recognised, goes on beside the
  next engine (`controller.py:85-105`, `util.py:216`): see the assumptions. The
  setting `Wild` has such workers.
- A plan that is valid may have a wave id that is not once "-reads" is added to it
  (`engine.py:414`, `schemas.py:14`): the job is blocked in planning.
- The output file of an attempt is not removed before another invocation of the
  same attempt (`process_runner.py:312`). When an engine is killed after the
  second attempt of a task has written its output, and the next one succeeds in
  the first, a repair that writes nothing is taken for that old success. So
  `LedgerTruthful` claims the first round only.
- The branches to review are looked at once (`engine.py:1130`). A task that
  commits for the first time in its repair is not offered; the job completes
  without it, and keeps the branch.
- An engine that dies in the cleanup after a refused integration leaves no
  worktrees but all results. The next one reviews the checkout itself and
  completes without landing anything; the branches are kept.
- An engine that dies between `git worktree add` and `_persist` leaves a path
  the next one cannot add again: the resumed job is blocked.
- A success with `failure_kind` "coordination" is valid for `validate_result`
  and would be run again by Ultra. Not modelled: workers report one or the other.

## Not modelled

- *Speed profiles* (`speed_profiles.py`), the *model catalog* and the *entry
  context*: functions of files that are read once, without state of their own; no
  property of theirs takes more than one step. Which model, effort and service
  tier an invocation gets, and the second invocation when Fast is rejected, are
  left out of TaskRun for the same reason (an external action never has the
  second).
- *Start gate and retention*: one lock around a read and a write each.
- *Read snapshots* (`CODEX_ORCHESTRATOR_READ_ISOLATION`) and fingerprints of the
  workspace: copies for readers that nothing is merged from.
- *Speed setup page*: of the HTTP server only what ends it.
- Dry runs, Ctrl-C in a foreground run, `desired_status` and `last_control_seq`
  (written, never read), artifacts and history, the text of prompts and reports,
  `check_docs.py`.
- Controls and work together: ControlBoundary has replacements and pauses without
  results, JobWork results and one plan. So the reuse of results after a replan
  (`engine.py:431`) is in neither, as the hazard says. The composition has far
  more states than TLC can visit in minutes.
- In JobLifecycle: steering and speed changes. A crash between the locked calls
  of one merged step counts as a crash before or after it.
- Guarantees taken from the system: a file lock is exclusive and dropped when its
  holder dies; a replaced file is read old or new as a whole; the identity of a
  process (pid and start time) is not reused.

## Plan

Done: the three views, and a proof of every safety property the runs check. Left,
in this order:

1. **ReplanResults**: results across plan revisions, on top of JobWork with a
   planner that may be asked twice and an abstract control queue. To be checked: a
   result of an old plan is used only for the same task.
2. An abstract specification of the controls (what a command promises its
   sender), which ControlBoundary implements with one drain at a time.
3. **StartGate** (`orchestrate.py` start, `find_active_job`, `prune_runs`): one
   active job per workspace.
4. **SpeedProfiles**: normalisation against a reference definition over bounded
   inputs.
