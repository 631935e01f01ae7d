------------------------------- MODULE TaskRun -------------------------------
(***************************************************************************)
(* One task of a plan from its start to its result: _run_task of           *)
(* scripts/orchestrator/engine.py with the ledger of external actions, the *)
(* invocation of a worker by process_runner.py, the worker itself, and     *)
(* what of them is in state.json (state.py).  The tasks of a wave run in   *)
(* threads of their own; each write of state.json holds a lock and is one  *)
(* step, and the engine may die between any two.                           *)
(*                                                                         *)
(* A task does its work in rounds: 1, and 2 when the review wants a repair.*)
(* The instructions of a repair change the objective, so that it is an     *)
(* external action of its own in the ledger.  In a plan with permissions   *)
(* outside of the workspace the work of a writer is its external action.   *)
(*                                                                         *)
(* Cancellation, replacement and what else an interrupt may bring is in    *)
(* ControlBoundary; an interrupted worker goes on here.  Models, efforts   *)
(* and service tiers, and the second invocation when Fast is rejected      *)
(* (never of an external action), are left out.                            *)
(***************************************************************************)
EXTENDS Workspace

\* A worker may end with failures of three kinds: those that are retried, the
\* one an Ultra run is tried on, and those that are final.
Failures == {"implementation", "coordination", "environment"}

CONSTANTS
  MaxRetries,  \* the most any policy has
  Settings     \* what a behaviour may start with:

\* the answers the planner may give, what the user's words allow, the state of
\* the checkout, policy.max_retries, the ways in which workers fail, may the
\* reviewer ask for repairs, how often the engine is killed, tasks are interrupted,
\* the user commits, edits, and whether every worker is tame: it reads its prompt,
\* it ends when it is told to, and it is recognised in the table of processes.
Setting ==
  [raws : SUBSET RawPlan, authority : BOOLEAN, dirty : BOOLEAN,
   retries : 0..MaxRetries, failures : SUBSET Failures,
   repairs : BOOLEAN, crashes : Nat, interrupts : Nat, commits : Nat, edits : Nat,
   tame : BOOLEAN]

ASSUME RetriesAssumption == MaxRetries \in Nat
ASSUME SettingsAssumption == Settings \subseteq Setting

\* The sessions of a task that may still be resumed are at most two: that of its
\* record and the latest.  All others are Forgotten.
Sessions == {1, 2}

Forgotten == 0

MaxAttempts == MaxRetries + 3

VARIABLES
  setting,  \* what this behaviour started with
  plan,     \* plan.json
  result,   \* of each task: result-<task>.json
  record,   \* of each task: its entry in state.json, tasks
  ledger,   \* of each task and round: its status in external_actions
  output,   \* of each task and attempt: the output file of the worker
  process,  \* of each task: its entry in processes, "saved" with a session id
  worker,   \* of each task: the worker process of its last invocation
  stray,    \* of each task: its workers that have outlived a recovery
  applied,  \* of each task and round: the sessions that have done the work
  run,      \* of each task: the locals of _run_task
  step,     \* of each task: where its thread is
  budget    \* bound: what may still go wrong

filesVars == <<result, record, ledger, output, process>>
workVars == <<worker, stray, applied>>
planVars == <<setting, plan>>
taskVars == <<planVars, filesVars, workVars, run, step, budget>>

Results == {"none", "success", "blocked"} \cup Failures

LedgerStates == {"none", "started", "uncertain", "verified-not-applied",
                 "completed", "completed-reconciled"}

Wheres == {"root", "tree"}

Steps == {"idle", "entered", "attempt", "record", "spawn", "register", "prompt",
          "wait", "reconcile", "keep", "mark", "settle", "drop", "returned",
          "raised"}

NoRecord == [status |-> "none", attempt |-> 0, session |-> 0, where |-> "root"]

NoWorker == [state |-> "none", session |-> 0, resumed |-> FALSE, said |-> FALSE,
             round |-> 1, attempt |-> 0, where |-> "root", ok |-> FALSE]

NoRun == [where |-> "root", single |-> FALSE, round |-> 1, attempt |-> 1,
          resume |-> 0, session |-> 0, outcome |-> "none", settles |-> FALSE]

Records == [status : {"none", "running", "interrupted"} \cup Results,
            attempt : 0..MaxAttempts, session : {0} \cup Sessions, where : Wheres]

Workers == [state : {"none", "deaf", "spawned", "prompted", "exited"},
            session : {0} \cup Sessions, resumed : BOOLEAN, said : BOOLEAN,
            round : Rounds, attempt : 0..MaxAttempts, where : Wheres,
            ok : BOOLEAN]

Runs == [where : Wheres, single : BOOLEAN, round : Rounds,
         attempt : 1..MaxRetries + 2, resume : {0} \cup Sessions,
         session : {0} \cup Sessions, outcome : Results, settles : BOOLEAN]

TasksTypeOK ==
  /\ result \in [Tasks -> Results]
  /\ record \in [Tasks -> Records]
  /\ ledger \in [Tasks -> [Rounds -> LedgerStates]]
  /\ output \in [Tasks -> [1..MaxAttempts -> {"none", "success"} \cup Failures]]
  /\ process \in [Tasks -> {"none", "registered", "saved"}]
  /\ worker \in [Tasks -> Workers]
  /\ stray \in [Tasks -> SUBSET Workers]
  /\ applied \in [Tasks -> [Rounds -> SUBSET ({Forgotten} \cup Sessions)]]
  /\ run \in [Tasks -> Runs]
  /\ step \in [Tasks -> Steps]

TasksInit ==
  /\ result = [t \in Tasks |-> "none"]
  /\ record = [t \in Tasks |-> NoRecord]
  /\ ledger = [t \in Tasks |-> [r \in Rounds |-> "none"]]
  /\ output = [t \in Tasks |-> [a \in 1..MaxAttempts |-> "none"]]
  /\ process = [t \in Tasks |-> "none"]
  /\ worker = [t \in Tasks |-> NoWorker]
  /\ stray = [t \in Tasks |-> {}]
  /\ applied = [t \in Tasks |-> [r \in Rounds |-> {}]]
  /\ run = [t \in Tasks |-> NoRun]
  /\ step = [t \in Tasks |-> "idle"]

-----------------------------------------------------------------------------
(* The thread of a task.                                                   *)

Writes(t) == t \in plan.writes

Round(t) == run[t].round

\* A task is repaired only when its first attempt was its last: attempt_offset
\* is then 1.
ActualAttempt(t) == run[t].round - 1 + run[t].attempt

\* Mutant: every attempt is granted another.
EndlessAttempts(t) == run[t].attempt + 1

Attempts(t) ==
  IF run[t].single THEN 1 ELSE IF plan.external THEN 2 ELSE setting.retries + 1

Fetch(t, s) == step' = [step EXCEPT ![t] = s]

SetLedger(t, status) == ledger' = [ledger EXCEPT ![t][Round(t)] = status]

\* The records of a task whose session an invocation may resume.
Unfinished(t) ==
  record[t].status \in {"running", "interrupted"} /\ record[t].session # 0

\* Mutant: an action that was started is taken for one that was not.
NeverRecovers(t) == FALSE

\* An earlier engine left the action open and there is no session to resume
\* (resumable_external does not ask which workspace the session had).
NeedsRecovery(t) ==
  /\ plan.external
  /\ ledger[t][Round(t)] \in {"started", "uncertain"}
  /\ ~Unfinished(t)

\* What a read-only verification may find.  It may find nothing, but it is not
\* mistaken.
Verdicts(t) ==
  {"uncertain",
   IF applied[t][Round(t)] = {} THEN "not_applied" ELSE "completed"}

\* The verification before the first attempt.
RecoverExternalAction(t) ==
  /\ step[t] = "entered"
  /\ NeedsRecovery(t)
  /\ \E verdict \in Verdicts(t) :
       \/ /\ verdict = "completed"
          /\ SetLedger(t, "completed-reconciled")
          /\ run' = [run EXCEPT ![t].session = record[t].session,
                                ![t].settles = FALSE]
          /\ Fetch(t, "keep")
          /\ UNCHANGED <<result, record>>
       \/ /\ verdict = "not_applied"
          /\ SetLedger(t, "verified-not-applied")
          /\ Fetch(t, "attempt")
          /\ UNCHANGED <<result, record, run>>
       \/ /\ verdict = "uncertain"
          /\ result' = [result EXCEPT ![t] = "blocked"]
          /\ record' = [record EXCEPT ![t].status = "blocked"]
          /\ Fetch(t, "returned")
          /\ UNCHANGED <<ledger, run>>
  /\ UNCHANGED <<planVars, output, process, workVars, budget, workspaceVars>>

ResumeSession(t) ==
  IF Unfinished(t) /\ record[t].where = run[t].where THEN record[t].session ELSE 0

\* The start of an attempt: which session to resume, and set_task.
BeginAttempt(t) ==
  /\ step[t] = "attempt" \/ (step[t] = "entered" /\ ~NeedsRecovery(t))
  /\ run' = [run EXCEPT ![t].resume = ResumeSession(t), ![t].settles = plan.external]
  /\ record' = [record EXCEPT ![t].status = "running",
                              ![t].attempt = ActualAttempt(t),
                              ![t].where = run[t].where]
  /\ Fetch(t, IF plan.external THEN "record" ELSE "spawn")
  /\ UNCHANGED <<planVars, result, ledger, output, process, workVars, budget, workspaceVars>>

\* Mutant: the ledger hears of an action only when it is over.
RecordNothing(t) ==
  /\ step[t] = "record"
  /\ Fetch(t, "spawn")
  /\ UNCHANGED <<planVars, filesVars, workVars, run, budget, workspaceVars>>

\* The ledger knows of the action before the worker does.
RecordStart(t) ==
  /\ step[t] = "record"
  /\ SetLedger(t, "started")
  /\ Fetch(t, "spawn")
  /\ UNCHANGED <<planVars, result, record, output, process, workVars, run, budget, workspaceVars>>

\* A new session takes an id that no record has; the work of the one that had
\* it before is done all the same.
NewSession(t) == IF record[t].session = 1 THEN 2 ELSE 1

Forget(done, s) == IF s \in done THEN (done \ {s}) \cup {Forgotten} ELSE done

\* Popen.  The worker waits for its prompt on stdin, unless it is deaf.
Spawn(t) ==
  LET fresh == run[t].resume = 0
      session == IF fresh THEN NewSession(t) ELSE run[t].resume IN
  /\ step[t] = "spawn"
  /\ \E state \in {"spawned", "deaf"} :
       /\ setting.tame => state = "spawned"
       /\ worker' = [worker EXCEPT ![t] =
            [NoWorker EXCEPT !.state = state, !.session = session,
               !.resumed = ~fresh, !.round = Round(t), !.attempt = ActualAttempt(t),
               !.where = run[t].where]]
  /\ applied' = IF fresh
       THEN [applied EXCEPT ![t] = [r \in Rounds |-> Forget(@[r], session)]]
       ELSE applied
  /\ Fetch(t, "register")
  /\ UNCHANGED <<planVars, filesVars, stray, run, budget, workspaceVars>>

\* Popen raises: no result, and nothing undone.
SpawnFails(t) ==
  /\ step[t] = "spawn"
  /\ Fetch(t, "raised")
  /\ UNCHANGED <<planVars, filesVars, workVars, run, budget, workspaceVars>>

\* Mutant: the process is not registered.
RegisterNothing(t) ==
  /\ step[t] = "register"
  /\ Fetch(t, "prompt")
  /\ UNCHANGED <<planVars, filesVars, workVars, run, budget, workspaceVars>>

\* register_process; only then the prompt is written.
Register(t) ==
  /\ step[t] = "register"
  /\ process' = [process EXCEPT ![t] = "registered"]
  /\ Fetch(t, "prompt")
  /\ UNCHANGED <<planVars, result, record, ledger, output, workVars, run, budget, workspaceVars>>

\* The write of the prompt waits for a worker that does not read, and no deadline
\* has been set yet.
Prompt(t) ==
  /\ step[t] = "prompt"
  /\ worker[t].state = "spawned"
  /\ worker' = [worker EXCEPT ![t].state = "prompted"]
  /\ Fetch(t, "wait")
  /\ UNCHANGED <<planVars, filesVars, stray, applied, run, budget, workspaceVars>>

\* The worker has died before it read the prompt: BrokenPipeError, and its entry
\* stays registered.
PromptFails(t) ==
  /\ step[t] = "prompt"
  /\ worker[t].state = "spawned"
  /\ worker' = [worker EXCEPT ![t] = NoWorker]
  /\ Fetch(t, "raised")
  /\ UNCHANGED <<planVars, filesVars, stray, applied, run, budget, workspaceVars>>

\* Only an invocation that does not resume has the key the task's record names,
\* so that only its session gets there.
KeyMatches(t) == ~worker[t].resumed

\* The reader thread: set_process_session, when the worker has named its thread.
\* It goes on when the thread of the task has raised.
SaveSession(t) ==
  /\ step[t] \in {"wait", "raised"}
  /\ worker[t].said
  /\ process[t] = "registered"
  /\ process' = [process EXCEPT ![t] = "saved"]
  /\ record' = IF KeyMatches(t)
                 THEN [record EXCEPT ![t].session = worker[t].session] ELSE record
  /\ UNCHANGED <<planVars, result, ledger, output, workVars, run, step, budget, workspaceVars>>

\* The session of the outcome: that of the thread the worker has named.
OutcomeSession(t) == IF worker[t].said THEN worker[t].session ELSE run[t].resume

\* The reader thread is joined before the process is unregistered.
ReaderDone(t) == worker[t].said => process[t] = "saved"

\* Mutant: the return code is not looked at.
OutcomeOfFile(t) ==
  IF output[t][ActualAttempt(t)] = "none" THEN "success"
  ELSE output[t][ActualAttempt(t)]

\* What the outcome is taken for.  The output file may be that of an earlier
\* invocation of the same attempt.
Outcome(t) ==
  IF ~worker[t].ok THEN "environment"
  ELSE IF output[t][ActualAttempt(t)] = "none" THEN "implementation"
  ELSE output[t][ActualAttempt(t)]

\* After an outcome: a success is kept, an external action that is none is
\* recorded as uncertain and verified, and what may be retried is.
Judge(t, outcome) ==
  /\ run' = [run EXCEPT ![t].outcome = outcome,
                        ![t].session = OutcomeSession(t),
                        ![t].attempt =
       IF /\ outcome = "implementation"
          /\ ~plan.external
          /\ @ < Attempts(t)
       THEN @ + 1 ELSE @]
  /\ IF plan.external /\ outcome # "success"
       THEN SetLedger(t, "uncertain") ELSE UNCHANGED ledger
  /\ Fetch(t, IF outcome = "success" THEN "keep"
              ELSE IF plan.external THEN "reconcile"
              ELSE IF run'[t].attempt > run[t].attempt THEN "attempt"
              ELSE "drop")

\* The worker has exited by itself.  (No one can tell "started" from
\* "uncertain", so that unregister and record_external_action are one step.)
Collect(t) ==
  /\ step[t] = "wait"
  /\ worker[t].state = "exited"
  /\ ReaderDone(t)
  /\ process' = [process EXCEPT ![t] = "none"]
  /\ worker' = [worker EXCEPT ![t] = NoWorker]
  /\ Judge(t, Outcome(t))
  /\ UNCHANGED <<planVars, result, record, output, stray, applied, budget, workspaceVars>>

\* Mutant: a worker has all the time it wants.
NoTimeout(t) == step[t] = "timed out" /\ UNCHANGED <<taskVars, workspaceVars>>

\* timeout_seconds have passed: the worker is terminated.
Timeout(t) ==
  /\ step[t] = "wait"
  /\ worker[t].state = "prompted"
  /\ ReaderDone(t)
  /\ process' = [process EXCEPT ![t] = "none"]
  /\ worker' = [worker EXCEPT ![t] = NoWorker]
  /\ Judge(t, "environment")
  /\ UNCHANGED <<planVars, result, record, output, stray, applied, budget, workspaceVars>>

\* An immediate control terminates the worker of a task that may be interrupted,
\* and the task goes on in the same session, if it has one.
Interrupt(t) ==
  /\ step[t] = "wait"
  /\ worker[t].state = "prompted"
  /\ ReaderDone(t)
  /\ ~Writes(t) \/ run[t].where = "tree"
  /\ budget.interrupts > 0
  /\ budget' = [budget EXCEPT !.interrupts = @ - 1]
  /\ process' = [process EXCEPT ![t] = "none"]
  /\ worker' = [worker EXCEPT ![t] = NoWorker]
  /\ record' = [record EXCEPT ![t].status = "interrupted",
                              ![t].session = OutcomeSession(t)]
  /\ run' = [run EXCEPT ![t].resume = OutcomeSession(t)]
  /\ Fetch(t, "spawn")
  /\ UNCHANGED <<planVars, result, ledger, output, stray, applied, workspaceVars>>

\* A worker that Timeout or Interrupt terminates outlives both signals: the second
\* wait raises, and its entry stays registered.
OutlivesSignals(t) ==
  /\ step[t] = "wait"
  /\ worker[t].state = "prompted"
  /\ ~setting.tame
  /\ Fetch(t, "raised")
  /\ UNCHANGED <<planVars, filesVars, workVars, run, budget, workspaceVars>>

\* The verification after an attempt.
Reconcile(t) ==
  /\ step[t] = "reconcile"
  /\ \E verdict \in Verdicts(t) :
       \/ /\ verdict = "completed"
          /\ SetLedger(t, "completed-reconciled")
          /\ Fetch(t, "keep")
          /\ UNCHANGED run
       \/ /\ verdict = "not_applied"
          /\ run[t].attempt < Attempts(t)
          /\ SetLedger(t, "verified-not-applied")
          /\ run' = [run EXCEPT ![t].attempt = @ + 1]
          /\ Fetch(t, "attempt")
       \/ /\ verdict = "not_applied" => run[t].attempt = Attempts(t)
          /\ verdict # "completed"
          /\ SetLedger(t, "uncertain")
          /\ run' = [run EXCEPT ![t].outcome = "blocked"]
          /\ Fetch(t, "drop")
  /\ UNCHANGED <<planVars, result, record, output, process, workVars, budget, workspaceVars>>

\* _persist_success_result: the result file ...
Keep(t) ==
  /\ step[t] = "keep"
  /\ result' = [result EXCEPT ![t] = "success"]
  /\ Fetch(t, "mark")
  /\ UNCHANGED <<planVars, record, ledger, output, process, workVars, run, budget, workspaceVars>>

\* ... then set_task.
Mark(t) ==
  /\ step[t] = "mark"
  /\ record' = [record EXCEPT ![t].status = "success", ![t].session = run[t].session]
  /\ Fetch(t, IF run[t].settles THEN "settle" ELSE "returned")
  /\ UNCHANGED <<planVars, result, ledger, output, process, workVars, run, budget, workspaceVars>>

Settle(t) ==
  /\ step[t] = "settle"
  /\ SetLedger(t, IF ledger[t][Round(t)] = "completed-reconciled"
                    THEN "completed-reconciled" ELSE "completed")
  /\ Fetch(t, "returned")
  /\ UNCHANGED <<planVars, result, record, output, process, workVars, run, budget, workspaceVars>>

\* The result file of a failure, which no later engine looks at, and set_task.
Drop(t) ==
  /\ step[t] = "drop"
  /\ result' = [result EXCEPT ![t] = run[t].outcome]
  /\ record' = [record EXCEPT ![t].status = run[t].outcome]
  /\ Fetch(t, "returned")
  /\ UNCHANGED <<planVars, ledger, output, process, workVars, run, budget, workspaceVars>>

RunTask(t) ==
  \/ RecoverExternalAction(t)
  \/ BeginAttempt(t)
  \/ RecordStart(t)
  \/ Spawn(t)
  \/ SpawnFails(t)
  \/ Register(t)
  \/ Prompt(t)
  \/ PromptFails(t)
  \/ SaveSession(t)
  \/ Collect(t)
  \/ Timeout(t)
  \/ Interrupt(t)
  \/ OutlivesSignals(t)
  \/ Reconcile(t)
  \/ Keep(t)
  \/ Mark(t)
  \/ Settle(t)
  \/ Drop(t)

-----------------------------------------------------------------------------
(* The worker: external.  It names its thread before it does anything else,*)
(* and a session that has done its work does not do it again.              *)

Alive(t) == worker[t].state = "prompted"

\* A deaf worker reads after all.
Heed(t) ==
  /\ worker[t].state = "deaf"
  /\ worker' = [worker EXCEPT ![t].state = "spawned"]
  /\ UNCHANGED <<planVars, filesVars, stray, applied, run, step, budget, workspaceVars>>

Announce(t) ==
  /\ Alive(t)
  /\ ~worker[t].said
  /\ worker' = [worker EXCEPT ![t].said = TRUE]
  /\ UNCHANGED <<planVars, filesVars, stray, applied, run, step, budget, workspaceVars>>

Worked(t, r) == applied[t][r] # {}

\* A session acts once; that of a stray is not followed any more.
Able(t, w) == w.session = Forgotten \/ w.session \notin applied[t][w.round]

\* The work of a writer: its external action, or edits; those of a worktree, while
\* it is there, are then committed.
WorkOf(t, w) ==
  LET Done == applied' = [applied EXCEPT ![t][w.round] = @ \cup {w.session}] IN
  /\ Writes(t)
  /\ \/ /\ plan.external
        /\ Able(t, w)
        /\ Done
        /\ UNCHANGED workspaceVars
     \/ /\ ~plan.external
        /\ w.where = "root"
        /\ Able(t, w)
        /\ Done
        /\ EditRoot
     \/ /\ ~plan.external
        /\ w.where = "tree"
        /\ tree[t].path
        /\ ~tree[t].dirty
        /\ <<t, w.round>> \notin tree[t].head
        /\ EditIn(t)
        /\ UNCHANGED applied
     \/ /\ ~plan.external
        /\ w.where = "tree"
        /\ tree[t].path
        /\ tree[t].dirty
        /\ Done
        /\ CommitIn(t, {<<t, w.round>>})

Work(t) ==
  /\ Alive(t)
  /\ worker[t].said
  /\ WorkOf(t, worker[t])
  /\ UNCHANGED <<planVars, filesVars, worker, stray, run, step, budget>>

\* A worker exits, and may have written its output.  It does not report a success
\* it has not had.
ExitOf(t, w, ok) ==
  \E out \in {"none", "success"} \cup setting.failures :
    /\ ok \/ out \in {"none", "success"}
    /\ out = "success" /\ Writes(t) => Worked(t, w.round)
    /\ output' = IF out = "none" THEN output ELSE [output EXCEPT ![t][w.attempt] = out]

Exit(t) ==
  /\ Alive(t)
  /\ worker[t].said
  /\ \E ok \in BOOLEAN :
       /\ ExitOf(t, worker[t], ok)
       /\ worker' = [worker EXCEPT ![t].state = "exited", ![t].ok = ok]
  /\ UNCHANGED <<planVars, result, record, ledger, process, stray, applied, run, step, budget, workspaceVars>>

\* A stray does the same, and nobody reads what it says.
StrayWorks(t) ==
  /\ \E w \in stray[t] : WorkOf(t, w)
  /\ UNCHANGED <<planVars, filesVars, worker, stray, run, step, budget>>

StrayExits(t) ==
  /\ \E w \in stray[t] :
       /\ \E ok \in BOOLEAN : ExitOf(t, w, ok)
       /\ stray' = [stray EXCEPT ![t] = @ \ {w}]
  /\ UNCHANGED <<planVars, result, record, ledger, process, worker, applied, run, step, budget, workspaceVars>>

RunWorker(t) ==
  \/ Heed(t)
  \/ Announce(t)
  \/ Work(t)
  \/ Exit(t)
  \/ StrayWorks(t)
  \/ StrayExits(t)

-----------------------------------------------------------------------------
(* What a crash of the engine leaves, and what the next one makes of it.   *)

\* The threads are gone.  A worker without its prompt exits when its stdin is
\* closed; one that has it goes on.
ThreadsDie ==
  /\ step' = [t \in Tasks |-> "idle"]
  /\ run' = [t \in Tasks |-> NoRun]
  /\ worker' = [t \in Tasks |->
       IF Alive(t) THEN worker[t] ELSE NoWorker]
  /\ UNCHANGED <<planVars, filesVars, stray, applied>>

\* Mutant: an orphan is forgotten, and goes on.
ForgetOrphan(t) ==
  /\ process[t] # "none"
  /\ process' = [process EXCEPT ![t] = "none"]
  /\ UNCHANGED <<planVars, result, record, ledger, output, workVars, run, step, budget, workspaceVars>>

\* set_task of a recovery, for a task whose key the entry has.
InterruptedRecord(t) ==
  IF Alive(t) /\ KeyMatches(t)
    THEN [record EXCEPT ![t].status = "interrupted",
            ![t].session = IF process[t] = "saved" THEN worker[t].session ELSE 0]
    ELSE record

\* _reconcile_orphan_processes, for one registered process: a dead one is
\* forgotten; a live one gets a signal, and its task is marked interrupted.
\* Nobody waits for its end, so that it may go on; and one without a known
\* identity is forgotten, one with a foreign command line skipped, without a
\* signal.  (The entry of the last is left out: it is skipped every time.)
ReconcileOrphan(t) ==
  /\ process[t] # "none"
  /\ process' = [process EXCEPT ![t] = "none"]
  /\ worker' = [worker EXCEPT ![t] = NoWorker]
  /\ \/ /\ record' = InterruptedRecord(t)
        /\ UNCHANGED stray
     \/ /\ Alive(t)
        /\ ~setting.tame
        /\ stray' = [stray EXCEPT ![t] = @ \cup
                       {[worker[t] EXCEPT !.session = Forgotten, !.said = TRUE]}]
        /\ record' \in {record, InterruptedRecord(t)}
  /\ UNCHANGED <<planVars, result, ledger, output, applied, run, step, budget, workspaceVars>>
=============================================================================
