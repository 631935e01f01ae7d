---------------------------- MODULE JobWorkTypes ----------------------------
(***************************************************************************)
(* Types of JobWork, for any plan, any number of tasks, retries and        *)
(* crashes: every action of the engine, of its threads, of the workers, of *)
(* the user and of a crash leaves each variable a value of its type.       *)
(***************************************************************************)
EXTENDS JobWork, PlanPolicyProofs

\* TypeOK but for the waves of the plan and for the budget, on which no other
\* type depends (they are in PlanInv of JobWorkProofs).
PlanOK ==
  /\ plan.external \in BOOLEAN
  /\ plan.writes \in SUBSET Tasks
  /\ plan.deps \in [Tasks -> SUBSET Tasks]
  /\ plan = NoPlan \/ plan.mode # "none"

TypeInv ==
  /\ setting \in Settings
  /\ PlanOK
  /\ job \in {"open", "complete", "blocked"}
  /\ engine \in Engines
  /\ WorkspaceTypeOK
  /\ TasksTypeOK

-----------------------------------------------------------------------------
(* The thread of a task.                                                   *)

\* The attempts of a task, and their numbers in its record.
LEMMA AttemptsBound ==
  ASSUME setting \in Settings, NEW t
  PROVE  Attempts(t) \in 1..MaxRetries + 2
<1>1. setting.retries \in 0..MaxRetries
  BY SettingsAssumption DEF Setting
<1> QED
  BY <1>1, RetriesAssumption DEF Attempts

\* A retry is an attempt there is room for.
LEMMA NextAttempt ==
  ASSUME TasksTypeOK, setting \in Settings, NEW t \in Tasks,
         run[t].attempt < Attempts(t)
  PROVE  run[t].attempt + 1 \in 1..MaxRetries + 2
<1>1. run[t].attempt \in 1..MaxRetries + 2
  BY DEF TasksTypeOK, Runs
<1> QED
  BY <1>1, AttemptsBound, RetriesAssumption

\* Attempts and rounds have their bounds.
LEMMA AttemptType ==
  ASSUME TasksTypeOK, NEW t \in Tasks
  PROVE  /\ ActualAttempt(t) \in 1..MaxAttempts
         /\ ActualAttempt(t) \in 0..MaxAttempts
         /\ Round(t) \in Rounds
<1>1. run[t].attempt \in 1..MaxRetries + 2 /\ run[t].round \in Rounds
  BY DEF TasksTypeOK, Runs
<1>2. run[t].round \in 1..2
  BY <1>1 DEF Rounds
<1> QED
  BY <1>1, <1>2, RetriesAssumption DEF ActualAttempt, MaxAttempts, Round

\* An entry of the ledger gets a status of the ledger.
LEMMA LedgerType ==
  ASSUME TasksTypeOK, NEW t \in Tasks, NEW status \in LedgerStates, SetLedger(t, status)
  PROVE  ledger' \in [Tasks -> [Rounds -> LedgerStates]]
<1>1. Round(t) \in Rounds
  BY AttemptType
<1> QED
  BY <1>1 DEF TasksTypeOK, SetLedger

\* What an outcome leaves of the locals, the ledger and the place of a thread.
LEMMA JudgeType ==
  ASSUME TasksTypeOK, setting \in Settings, NEW t \in Tasks,
         NEW outcome \in Results, Judge(t, outcome)
  PROVE  /\ run' \in [Tasks -> Runs]
         /\ ledger' \in [Tasks -> [Rounds -> LedgerStates]]
         /\ step' \in [Tasks -> Steps]
<1> USE DEF TasksTypeOK
<1>1. OutcomeSession(t) \in {0} \cup Sessions
  BY DEF OutcomeSession, Workers, Runs
<1>2. run[t] \in Runs /\ Round(t) \in Rounds
  BY DEF Runs, Round
<1>3. [run[t] EXCEPT !.outcome = outcome, !.session = OutcomeSession(t)] \in Runs
  BY <1>1, <1>2 DEF Runs
<1>4. ASSUME run[t].attempt < Attempts(t)
      PROVE  [run[t] EXCEPT !.outcome = outcome, !.session = OutcomeSession(t),
                            !.attempt = @ + 1] \in Runs
  BY <1>1, <1>2, <1>4, NextAttempt DEF Runs
<1>5. run' \in [Tasks -> Runs]
  BY <1>3, <1>4 DEF Judge
<1>6. ledger' \in [Tasks -> [Rounds -> LedgerStates]]
  <2>1. "uncertain" \in LedgerStates
    BY DEF LedgerStates
  <2> QED
    BY <2>1, LedgerType DEF Judge
<1>7. step' \in [Tasks -> Steps]
  BY DEF Judge, Fetch, Steps
<1> QED
  BY <1>5, <1>6, <1>7

\* What is read from an output file is an outcome.
LEMMA OutcomeType ==
  ASSUME TasksTypeOK, NEW t \in Tasks
  PROVE  Outcome(t) \in Results
<1>1. ActualAttempt(t) \in 1..MaxAttempts
  BY AttemptType
<1>2. output[t][ActualAttempt(t)] \in {"none", "success"} \cup Failures
  <2>1. output \in [Tasks -> [1..MaxAttempts -> {"none", "success"} \cup Failures]]
    BY DEF TasksTypeOK
  <2>2. output[t] \in [1..MaxAttempts -> {"none", "success"} \cup Failures]
    BY <2>1
  <2> QED
    BY <1>1, <2>2
<1> QED
  BY <1>2 DEF Outcome, Results, Failures

\* A step of the thread of a task keeps the types of all task variables.
LEMMA ThreadType ==
  ASSUME TasksTypeOK, setting \in Settings, plan.external \in BOOLEAN,
         NEW t \in Tasks, RunTask(t)
  PROVE  TasksTypeOK'
<1>a. /\ ActualAttempt(t) \in 1..MaxAttempts
      /\ ActualAttempt(t) \in 0..MaxAttempts
      /\ Round(t) \in Rounds
  BY AttemptType
<1>b. /\ record[t] \in Records /\ worker[t] \in Workers /\ run[t] \in Runs
      /\ {"success", "blocked", "none"} \subseteq Results
      /\ NoWorker \in Workers
  BY RetriesAssumption DEF TasksTypeOK, Results, NoWorker, Workers, Wheres, Rounds, MaxAttempts
<1>d. {"none", "started", "uncertain", "verified-not-applied", "completed",
       "completed-reconciled"} \subseteq LedgerStates
  BY DEF LedgerStates
<1>c. OutcomeSession(t) \in {0} \cup Sessions
  BY <1>b DEF OutcomeSession, Workers, Runs
<1> USE DEF TasksTypeOK
<1>1. CASE RecoverExternalAction(t)
  <2>1. [record[t] EXCEPT !.status = "blocked"] \in Records
    BY <1>a, <1>b, <1>c DEF Records
  <2>2. record' \in [Tasks -> Records]
    BY <1>a, <1>b, <1>1, <2>1 DEF RecoverExternalAction
  <2>3. [run[t] EXCEPT !.session = record[t].session, !.settles = FALSE] \in Runs
    BY <1>a, <1>b, <1>c DEF Records, Runs
  <2>4. run' \in [Tasks -> Runs]
    BY <1>a, <1>b, <1>1, <2>3 DEF RecoverExternalAction
  <2>5. ledger' \in [Tasks -> [Rounds -> LedgerStates]]
    BY <1>d, <1>1, LedgerType DEF RecoverExternalAction
  <2>6. result' \in [Tasks -> Results]
    BY <1>a, <1>b, <1>1 DEF RecoverExternalAction
  <2>7. step' \in [Tasks -> Steps]
    BY <1>a, <1>b, <1>1 DEF RecoverExternalAction, Fetch, Steps
  <2> QED
    BY <1>1, <2>2, <2>4, <2>5, <2>6, <2>7 DEF RecoverExternalAction, filesVars, workVars, planVars
<1>2. CASE BeginAttempt(t)
  <2>1. [record[t] EXCEPT !.status = "running", !.attempt = ActualAttempt(t), !.where = run[t].where] \in Records
    BY <1>a, <1>b, <1>c DEF Records, Runs
  <2>2. record' \in [Tasks -> Records]
    BY <1>a, <1>b, <1>2, <2>1 DEF BeginAttempt
  <2>3. ResumeSession(t) \in {0} \cup Sessions
    BY <1>a, <1>b, <1>c DEF ResumeSession, Records
  <2>4. [run[t] EXCEPT !.resume = ResumeSession(t), !.settles = plan.external] \in Runs
    BY <1>a, <1>b, <1>c, <2>3 DEF Runs
  <2>5. run' \in [Tasks -> Runs]
    BY <1>a, <1>b, <1>2, <2>3, <2>4 DEF BeginAttempt
  <2>6. step' \in [Tasks -> Steps]
    BY <1>a, <1>b, <1>2 DEF BeginAttempt, Fetch, Steps
  <2> QED
    BY <1>2, <2>2, <2>5, <2>6 DEF BeginAttempt, filesVars, workVars, planVars
<1>3. CASE RecordStart(t)
  BY <1>a, <1>b, <1>3 DEF RecordStart, Fetch, Steps, filesVars, workVars, planVars, SetLedger, LedgerStates
<1>4. CASE Spawn(t)
  <2>1. NewSession(t) \in Sessions
    BY <1>a, <1>b, <1>c DEF NewSession, Sessions
  <2>2. run[t].resume \in {0} \cup Sessions
    BY <1>a, <1>b, <1>c, <2>1 DEF Runs
  <2>3. \A state \in {"spawned", "deaf"} :
          [NoWorker EXCEPT !.state = state, !.session = IF run[t].resume = 0 THEN NewSession(t) ELSE run[t].resume, !.resumed = ~(run[t].resume = 0), !.round = Round(t), !.attempt = ActualAttempt(t), !.where = run[t].where] \in Workers
    BY <1>a, <1>b, <1>c, <2>1, <2>2 DEF Runs, Workers
  <2>4. worker' \in [Tasks -> Workers]
    <3>1. PICK state \in {"spawned", "deaf"} :
            worker' = [worker EXCEPT ![t] = [NoWorker EXCEPT !.state = state, !.session = IF run[t].resume = 0 THEN NewSession(t) ELSE run[t].resume, !.resumed = ~(run[t].resume = 0), !.round = Round(t), !.attempt = ActualAttempt(t), !.where = run[t].where]]
      BY <1>4 DEF Spawn
    <3> QED
      BY <2>3, <3>1
  <2>5. [r \in Rounds |-> Forget(applied[t][r], NewSession(t))] \in [Rounds -> SUBSET ({Forgotten} \cup Sessions)]
    BY <1>a, <1>b, <1>c DEF Forget
  <2>6. applied' \in [Tasks -> [Rounds -> SUBSET ({Forgotten} \cup Sessions)]]
    BY <1>a, <1>b, <1>4, <2>5 DEF Spawn
  <2>7. step' \in [Tasks -> Steps]
    BY <1>a, <1>b, <1>4 DEF Spawn, Fetch, Steps
  <2> QED
    BY <1>4, <2>4, <2>6, <2>7 DEF Spawn, filesVars, workVars, planVars
<1>5. CASE SpawnFails(t)
  BY <1>a, <1>b, <1>5 DEF SpawnFails, Fetch, Steps, filesVars, workVars, planVars
<1>6. CASE Register(t)
  BY <1>a, <1>b, <1>6 DEF Register, Fetch, Steps, filesVars, workVars, planVars
<1>7. CASE Prompt(t)
  BY <1>a, <1>b, <1>7 DEF Prompt, Fetch, Steps, filesVars, workVars, planVars, Workers
<1>8. CASE SaveSession(t)
  <2>1. [record[t] EXCEPT !.session = worker[t].session] \in Records
    BY <1>a, <1>b, <1>c DEF Records, Workers
  <2>2. record' \in [Tasks -> Records]
    BY <1>a, <1>b, <1>8, <2>1 DEF SaveSession
  <2>3. process' \in [Tasks -> {"none", "registered", "saved"}]
    BY <1>a, <1>b, <1>8 DEF SaveSession
  <2> QED
    BY <1>8, <2>2, <2>3 DEF SaveSession, filesVars, workVars, planVars
<1>9. CASE Collect(t)
  <2>1. Outcome(t) \in Results
    BY OutcomeType DEF Results, Failures
  <2>2. Judge(t, Outcome(t))
    BY <1>9 DEF Collect
  <2>3. /\ run' \in [Tasks -> Runs]
        /\ ledger' \in [Tasks -> [Rounds -> LedgerStates]]
        /\ step' \in [Tasks -> Steps]
    BY <2>1, <2>2, JudgeType
  <2> QED
    BY <1>b, <1>9, <2>3 DEF Collect
<1>10. CASE Timeout(t)
  <2>1. "environment" \in Results
    BY OutcomeType DEF Results, Failures
  <2>2. Judge(t, "environment")
    BY <1>10 DEF Timeout
  <2>3. /\ run' \in [Tasks -> Runs]
        /\ ledger' \in [Tasks -> [Rounds -> LedgerStates]]
        /\ step' \in [Tasks -> Steps]
    BY <2>1, <2>2, JudgeType
  <2> QED
    BY <1>b, <1>10, <2>3 DEF Timeout
<1>11. CASE Interrupt(t)
  <2>1. [record[t] EXCEPT !.status = "interrupted", !.session = OutcomeSession(t)] \in Records
    BY <1>a, <1>b, <1>c DEF Records
  <2>2. record' \in [Tasks -> Records]
    BY <1>a, <1>b, <1>11, <2>1 DEF Interrupt
  <2>3. [run[t] EXCEPT !.resume = OutcomeSession(t)] \in Runs
    BY <1>a, <1>b, <1>c DEF Runs
  <2>4. run' \in [Tasks -> Runs]
    BY <1>a, <1>b, <1>11, <2>3 DEF Interrupt
  <2>5. worker' \in [Tasks -> Workers]
    BY <1>a, <1>b, <1>11 DEF Interrupt
  <2>6. process' \in [Tasks -> {"none", "registered", "saved"}]
    BY <1>a, <1>b, <1>11 DEF Interrupt
  <2>7. step' \in [Tasks -> Steps]
    BY <1>a, <1>b, <1>11 DEF Interrupt, Fetch, Steps
  <2> QED
    BY <1>11, <2>2, <2>4, <2>5, <2>6, <2>7 DEF Interrupt, filesVars, workVars, planVars
<1>12. CASE Reconcile(t)
  <2>1. [run[t] EXCEPT !.outcome = "blocked"] \in Runs
    BY <1>a, <1>b, <1>c DEF Runs
  <2>2. run' \in [Tasks -> Runs]
    <3>1. ASSUME run[t].attempt < Attempts(t)
          PROVE  [run[t] EXCEPT !.attempt = @ + 1] \in Runs
      BY <1>b, <3>1, NextAttempt DEF Runs
    <3> QED
      BY <1>12, <2>1, <3>1 DEF Reconcile
  <2>3. ledger' \in [Tasks -> [Rounds -> LedgerStates]]
    BY <1>d, <1>12, LedgerType DEF Reconcile
  <2>4. step' \in [Tasks -> Steps]
    BY <1>a, <1>b, <1>12 DEF Reconcile, Fetch, Steps
  <2> QED
    BY <1>12, <2>2, <2>3, <2>4 DEF Reconcile, filesVars, workVars, planVars
<1>13. CASE Keep(t)
  BY <1>a, <1>b, <1>13 DEF Keep, Fetch, Steps, filesVars, workVars, planVars, Results
<1>14. CASE Mark(t)
  <2>1. [record[t] EXCEPT !.status = "success", !.session = run[t].session] \in Records
    BY <1>a, <1>b, <1>c DEF Records, Runs
  <2>2. record' \in [Tasks -> Records]
    BY <1>a, <1>b, <1>14, <2>1 DEF Mark
  <2>3. step' \in [Tasks -> Steps]
    BY <1>a, <1>b, <1>14 DEF Mark, Fetch, Steps
  <2> QED
    BY <1>14, <2>2, <2>3 DEF Mark, filesVars, workVars, planVars
<1>15. CASE Settle(t)
  BY <1>a, <1>b, <1>15 DEF Settle, Fetch, Steps, filesVars, workVars, planVars, SetLedger, LedgerStates
<1>16. CASE Drop(t)
  BY <1>a, <1>b, <1>16 DEF Drop, Fetch, Steps, filesVars, workVars, planVars, Records, Runs
<1>17. CASE PromptFails(t)
  BY <1>a, <1>b, <1>17 DEF PromptFails, Fetch, Steps, filesVars, workVars, planVars
<1>18. CASE OutlivesSignals(t)
  BY <1>a, <1>b, <1>18 DEF OutlivesSignals, Fetch, Steps, filesVars, workVars, planVars
<1> QED
  BY <1>1, <1>2, <1>3, <1>4, <1>5, <1>6, <1>7, <1>8, <1>9, <1>10, <1>11, <1>12, <1>13, <1>14, <1>15, <1>16, <1>17, <1>18 DEF RunTask

-----------------------------------------------------------------------------
(* Types: the worktrees, the workers and the main thread.                  *)

\* What is done to a worktree leaves it a worktree.
LEMMA WorkspaceTypes ==
  ASSUME WorkspaceTypeOK, NEW x \in Trees
  PROVE  /\ \A info : info.head \subseteq Commits /\ AddTree(x, info) => WorkspaceTypeOK'
         /\ ListTree(x) => WorkspaceTypeOK'
         /\ \A commits \in SUBSET Commits : CommitIn(x, commits) => WorkspaceTypeOK'
         /\ EditIn(x) => WorkspaceTypeOK'
         /\ EditRoot => WorkspaceTypeOK'
<1> USE DEF WorkspaceTypeOK
<1>1. ASSUME NEW info, info.head \subseteq Commits, AddTree(x, info)
      PROVE  WorkspaceTypeOK'
  BY <1>1 DEF AddTree
<1>2. ASSUME ListTree(x) PROVE WorkspaceTypeOK'
  BY <1>2 DEF ListTree
<1>3. ASSUME NEW commits \in SUBSET Commits, CommitIn(x, commits)
      PROVE  WorkspaceTypeOK'
  BY <1>3 DEF CommitIn
<1>4. ASSUME EditIn(x) PROVE WorkspaceTypeOK'
  BY <1>4 DEF EditIn
<1>5. ASSUME EditRoot PROVE WorkspaceTypeOK'
  BY <1>5 DEF EditRoot
<1> QED
  BY <1>1, <1>2, <1>3, <1>4, <1>5

\* The same of the checkout, of the merge and of the cleanup.
LEMMA CheckoutTypes ==
  ASSUME WorkspaceTypeOK
  PROVE  /\ UserCommits => WorkspaceTypeOK'
         /\ UserEdits => WorkspaceTypeOK'
         /\ MergeIntegration => WorkspaceTypeOK'
         /\ \A protected : RemoveTrees(protected) => WorkspaceTypeOK'
         /\ DeleteBranches => WorkspaceTypeOK'
<1> USE DEF WorkspaceTypeOK
<1>1. ASSUME UserCommits PROVE WorkspaceTypeOK'
  BY <1>1 DEF UserCommits, Commits
<1>2. ASSUME UserEdits PROVE WorkspaceTypeOK'
  BY <1>2 DEF UserEdits, EditRoot
<1>3. ASSUME MergeIntegration PROVE WorkspaceTypeOK'
  BY <1>3 DEF MergeIntegration, Trees
<1>4. ASSUME NEW protected, RemoveTrees(protected) PROVE WorkspaceTypeOK'
  BY <1>4 DEF RemoveTrees
<1>5. ASSUME DeleteBranches PROVE WorkspaceTypeOK'
  <2>1. \A x \in Trees : [tree[x] EXCEPT !.branch = @ /\ ~(tree[x].head \subseteq repo.head),
                                         !.listed = FALSE]
          \in [path : BOOLEAN, branch : BOOLEAN, listed : BOOLEAN, dirty : BOOLEAN,
               head : SUBSET Commits, base : SUBSET Commits]
    OBVIOUS
  <2> QED
    BY <1>5, <2>1 DEF DeleteBranches
<1> QED
  BY <1>1, <1>2, <1>3, <1>4, <1>5

\* The work of any worker keeps the types of what it changes.
LEMMA WorkOfType ==
  ASSUME TasksTypeOK, WorkspaceTypeOK, NEW t \in Tasks, NEW w \in Workers, WorkOf(t, w)
  PROVE  /\ WorkspaceTypeOK'
         /\ applied' \in [Tasks -> [Rounds -> SUBSET ({Forgotten} \cup Sessions)]]
<1>a. w.round \in Rounds /\ w.session \in {0} \cup Sessions /\ t \in Trees
  BY DEF Workers, Trees
<1>1. {<<t, w.round>>} \in SUBSET Commits
  BY <1>a DEF Commits
<1>2. WorkspaceTypeOK'
  BY <1>a, <1>1, WorkspaceTypes DEF WorkOf, workspaceVars, WorkspaceTypeOK
<1>3. applied' \in [Tasks -> [Rounds -> SUBSET ({Forgotten} \cup Sessions)]]
  <2> USE DEF TasksTypeOK
  <2>1. applied[t][w.round] \cup {w.session} \in SUBSET ({Forgotten} \cup Sessions)
    BY <1>a DEF Forgotten
  <2>2. \/ UNCHANGED applied
        \/ applied' = [applied EXCEPT ![t][w.round] = @ \cup {w.session}]
    BY DEF WorkOf
  <2>3. [applied[t] EXCEPT ![w.round] = @ \cup {w.session}]
          \in [Rounds -> SUBSET ({Forgotten} \cup Sessions)]
    BY <1>a, <2>1
  <2> QED
    BY <2>2, <2>3
<1> QED
  BY <1>2, <1>3

\* So does what it leaves when it exits.
LEMMA ExitOfType ==
  ASSUME TasksTypeOK, setting \in Settings, NEW t \in Tasks, NEW w \in Workers,
         NEW ok \in BOOLEAN, ExitOf(t, w, ok)
  PROVE  output' \in [Tasks -> [1..MaxAttempts -> {"none", "success"} \cup Failures]]
<1>1. setting.failures \subseteq Failures
  BY SettingsAssumption DEF Setting
<1>2. PICK out \in {"none", "success"} \cup setting.failures :
        output' = IF out = "none" THEN output
                  ELSE [output EXCEPT ![t][w.attempt] = out]
  BY DEF ExitOf
<1> QED
  BY <1>1, <1>2 DEF TasksTypeOK

\* A step of a worker keeps the types.
LEMMA WorkerType ==
  ASSUME TasksTypeOK, WorkspaceTypeOK, setting \in Settings, NEW t \in Tasks, RunWorker(t)
  PROVE  TasksTypeOK' /\ WorkspaceTypeOK'
<1>a. worker[t] \in Workers /\ stray[t] \subseteq Workers
  BY DEF TasksTypeOK
<1>b. ASSUME UNCHANGED <<result, record, ledger, process, run, step>>,
             output' \in [Tasks -> [1..MaxAttempts -> {"none", "success"} \cup Failures]],
             worker' \in [Tasks -> Workers], stray' \in [Tasks -> SUBSET Workers],
             applied' \in [Tasks -> [Rounds -> SUBSET ({Forgotten} \cup Sessions)]]
      PROVE  TasksTypeOK'
  BY <1>b DEF TasksTypeOK
<1>c. UNCHANGED workspaceVars => WorkspaceTypeOK'
  BY DEF workspaceVars, WorkspaceTypeOK
<1>d. /\ output \in [Tasks -> [1..MaxAttempts -> {"none", "success"} \cup Failures]]
      /\ worker \in [Tasks -> Workers] /\ stray \in [Tasks -> SUBSET Workers]
      /\ applied \in [Tasks -> [Rounds -> SUBSET ({Forgotten} \cup Sessions)]]
  BY DEF TasksTypeOK
<1> USE DEF filesVars, workVars, planVars
<1>1. CASE Heed(t)
  <2>1. worker' \in [Tasks -> Workers]
    BY <1>1, <1>a, <1>d DEF Heed, Workers
  <2> QED
    BY <1>1, <1>b, <1>c, <1>d, <2>1 DEF Heed
<1>2. CASE Announce(t)
  <2>1. worker' \in [Tasks -> Workers]
    BY <1>2, <1>a, <1>d DEF Announce, Workers
  <2> QED
    BY <1>2, <1>b, <1>c, <1>d, <2>1 DEF Announce
<1>3. CASE Work(t)
  BY <1>3, <1>a, <1>b, <1>d, WorkOfType DEF Work
<1>4. CASE Exit(t)
  <2>1. PICK ok \in BOOLEAN :
          /\ ExitOf(t, worker[t], ok)
          /\ worker' = [worker EXCEPT ![t].state = "exited", ![t].ok = ok]
    BY <1>4 DEF Exit
  <2>2. [worker[t] EXCEPT !.state = "exited", !.ok = ok] \in Workers
    BY <1>a DEF Workers
  <2>3. worker' \in [Tasks -> Workers]
    BY <1>d, <2>1, <2>2
  <2> QED
    BY <1>4, <1>a, <1>b, <1>c, <1>d, <2>1, <2>3, ExitOfType DEF Exit
<1>5. CASE StrayWorks(t)
  BY <1>5, <1>a, <1>b, <1>d, WorkOfType DEF StrayWorks
<1>6. CASE StrayExits(t)
  <2>1. PICK w \in stray[t], ok \in BOOLEAN :
          ExitOf(t, w, ok) /\ stray' = [stray EXCEPT ![t] = @ \ {w}]
    BY <1>6 DEF StrayExits
  <2>2. stray' \in [Tasks -> SUBSET Workers]
    BY <1>a, <1>d, <2>1
  <2> QED
    BY <1>6, <1>a, <1>b, <1>c, <1>d, <2>1, <2>2, ExitOfType DEF StrayExits
<1> QED
  BY <1>1, <1>2, <1>3, <1>4, <1>5, <1>6 DEF RunWorker

\* So does the end of an orphan.
LEMMA OrphanType ==
  ASSUME TasksTypeOK, NEW t \in Tasks, ReconcileOrphan(t)
  PROVE  TasksTypeOK'
<1>1. NoWorker \in Workers
  BY RetriesAssumption DEF NoWorker, Workers, Wheres, Rounds, MaxAttempts
<1>2. \A s \in {0} \cup Sessions :
        [record[t] EXCEPT !.status = "interrupted", !.session = s] \in Records
  BY DEF TasksTypeOK, Records
<1>3. worker[t].session \in {0} \cup Sessions /\ worker[t] \in Workers
  BY DEF TasksTypeOK, Workers
<1>4. record' \in [Tasks -> Records]
  <2>1. record \in [Tasks -> Records]
    BY DEF TasksTypeOK
  <2>2. InterruptedRecord(t) \in [Tasks -> Records]
    BY <1>2, <1>3, <2>1 DEF InterruptedRecord
  <2> QED
    BY <2>1, <2>2 DEF ReconcileOrphan
<1>5. stray' \in [Tasks -> SUBSET Workers]
  <2>1. [worker[t] EXCEPT !.session = Forgotten, !.said = TRUE] \in Workers
    BY <1>3 DEF Workers, Forgotten
  <2> QED
    BY <2>1 DEF TasksTypeOK, ReconcileOrphan
<1> QED
  BY <1>1, <1>4, <1>5 DEF TasksTypeOK, ReconcileOrphan, planVars

\* NoRun, NoWorker and EngineOff have the types of what they replace.
LEMMA NothingType ==
  /\ NoRun \in Runs
  /\ \A where \in Wheres : [NoRun EXCEPT !.where = where] \in Runs
  /\ \A where \in Wheres : [NoRun EXCEPT !.where = where, !.single = TRUE] \in Runs
  /\ \A where \in Wheres :
       [NoRun EXCEPT !.single = TRUE, !.round = 2, !.where = where] \in Runs
  /\ NoWorker \in Workers
  /\ EngineOff \in Engines
<1>1. /\ 1 \in Rounds /\ 2 \in Rounds /\ 1 \in 1..MaxRetries + 2 /\ 0 \in 0..MaxAttempts
      /\ "root" \in Wheres /\ "none" \in Results
  BY RetriesAssumption DEF Rounds, MaxAttempts, Wheres, Results
<1>2. NoWorker \in Workers
  BY <1>1 DEF NoWorker, Workers
<1>3. EngineOff \in Engines
  BY DEF EngineOff, Engines, Places
<1> QED
  BY <1>1, <1>2, <1>3 DEF NoRun, Runs

-----------------------------------------------------------------------------
(* The main thread.                                                        *)

\* A change of one field leaves the locals of the main thread typed.
LEMMA EngineUpdate ==
  ASSUME NEW e \in Engines
  PROVE  /\ \A x \in Places : [e EXCEPT !.at = x] \in Engines
         /\ \A x \in SUBSET Tasks : /\ [e EXCEPT !.todo = x] \in Engines
                                    /\ [e EXCEPT !.changed = x] \in Engines
         /\ \A x \in SUBSET Trees : [e EXCEPT !.protected = x] \in Engines
         /\ \A x \in {"complete", "blocked"} : [e EXCEPT !.verdict = x] \in Engines
         /\ \A x \in BOOLEAN : /\ [e EXCEPT !.ultraUsed = x] \in Engines
                               /\ [e EXCEPT !.unrepaired = x] \in Engines
                               /\ [e EXCEPT !.kept = x] \in Engines
         /\ \A x \in Nat \ {0} : [e EXCEPT !.wave = x] \in Engines
         /\ \A x \in [head : SUBSET Commits, dirty : BOOLEAN] :
              [e EXCEPT !.info = x] \in Engines
         /\ [e EXCEPT !.pass = 2] \in Engines
         /\ [e EXCEPT !.answers = 1] \in Engines
  BY DEF Engines

\* Every step of the main thread does.
LEMMA EngineType ==
  ASSUME TypeInv, Launch \/ MainThread
  PROVE  engine' \in Engines
<1>a. /\ engine \in Engines /\ engine.todo \in SUBSET Tasks
      /\ engine.wave \in Nat \ {0} /\ engine.wave + 1 \in Nat \ {0}
      /\ engine.unrepaired \in BOOLEAN
  BY DEF TypeInv, Engines
<1>b. Places = {"off", "recover", "plan", "prepare", "list", "join", "ultra",
           "review", "list-integration", "reviewing", "repair", "repairing",
           "inspect", "merge", "check", "remove", "prune", "close"}
  BY DEF Places
<1>c. \A e \in Engines : Failed(e) \in Engines
  BY EngineUpdate DEF Failed, Places
<1>d. /\ {} \in SUBSET Tasks
      /\ \A t \in Tasks : {t} \in SUBSET Tasks /\ engine.todo \ {t} \in SUBSET Tasks
      /\ \A p : TasksOf(p) \in SUBSET Tasks
      /\ ToDo \in SUBSET Tasks /\ Missing \in SUBSET Tasks /\ Changed \in SUBSET Tasks
      /\ {Integration} \in SUBSET Trees
  BY <1>a DEF TasksOf, TasksIn, ToDo, Missing, Changed, TaskTrees, Trees
<1>e. \A p : (UltraTasks(p) # {}) \in BOOLEAN
  OBVIOUS
<1> USE EngineUpdate, <1>a, <1>c
<1>1. CASE Launch
  BY <1>1, <1>b, NothingType DEF Launch
<1>2. CASE Open
  <2>1. repo \in [head : SUBSET Commits, dirty : BOOLEAN]
    BY DEF TypeInv, WorkspaceTypeOK
  <2>2. \A x \in Places, y \in BOOLEAN : [engine EXCEPT !.at = x, !.info = repo, !.ultraUsed = y] \in Engines
    BY <2>1
  <2> QED
    BY <1>2, <1>b, <1>e, <2>2 DEF Open
<1>3. CASE PlannerAnswers
  <2>1. PICK raw \in setting.raws :
          \/ engine' = [engine EXCEPT !.at = "prepare", !.ultraUsed = UltraTasks(raw) # {}]
          \/ engine' = [engine EXCEPT !.answers = 1]
          \/ engine' = Failed(engine)
    BY <1>3 DEF PlannerAnswers
  <2>2. \A x \in BOOLEAN : [engine EXCEPT !.at = "prepare", !.ultraUsed = x] \in Engines
    BY <1>b
  <2> QED
    BY <1>e, <2>1, <2>2
<1>4. CASE PlannerFails
  BY <1>4 DEF PlannerFails
<1>5. CASE AddTaskTree
  <2>1. \A t \in Tasks : [engine EXCEPT !.at = "list", !.todo = {t}] \in Engines
    BY <1>b, <1>d
  <2> QED
    BY <1>5, <1>d, <2>1 DEF AddTaskTree
<1>6. CASE ListTaskTree
  BY <1>6, <1>b, <1>d DEF ListTaskTree
<1>7. CASE StartWave
  <2>1. {t \in ToDo : ~Unmet(t)} \in SUBSET Tasks
    BY <1>d
  <2>2. engine' = [engine EXCEPT !.at = "join", !.todo = {t \in ToDo : ~Unmet(t)}]
    BY <1>7 DEF StartWave
  <2>3. \A x \in SUBSET Tasks : [engine EXCEPT !.at = "join", !.todo = x] \in Engines
    BY <1>b
  <2> QED
    BY <2>1, <2>2, <2>3
<1>8. CASE Join
  <2>1. \/ engine' = Failed(engine)
        \/ \E t \in Tasks :
             engine' = [engine EXCEPT !.at = "ultra", !.todo = {t}, !.ultraUsed = TRUE]
        \/ NextWave
    BY <1>8 DEF Join, Candidates
  <2>2. CASE NextWave
    <3>1. [engine EXCEPT !.at = "prepare", !.wave = @ + 1, !.todo = {}] \in Engines
      BY <1>b, <1>d
    <3>2. [engine EXCEPT !.at = "review", !.todo = {}] \in Engines
      BY <1>b, <1>d
    <3> QED
      BY <2>2, <3>1, <3>2 DEF NextWave
  <2>3. \A t \in Tasks :
          [engine EXCEPT !.at = "ultra", !.todo = {t}, !.ultraUsed = TRUE] \in Engines
    BY <1>b, <1>d
  <2> QED
    BY <2>1, <2>2, <2>3
<1>9. CASE ApproveUnreviewed
  BY <1>9, <1>b DEF ApproveUnreviewed
<1>10. CASE StartReview
  <2>1. /\ [engine EXCEPT !.at = "reviewing", !.changed = Changed] \in Engines
        /\ [engine EXCEPT !.at = "list-integration", !.changed = Changed] \in Engines
    BY <1>b, <1>d
  <2> QED
    BY <1>10, <2>1 DEF StartReview
<1>11. CASE ListIntegration
  BY <1>11, <1>b DEF ListIntegration
<1>12. CASE Approve
  BY <1>12, <1>b DEF Approve
<1>13. CASE Refuse
  BY <1>13 DEF Refuse
<1>14. CASE AskRepair
  <2>1. PICK asked \in SUBSET TasksOf(plan) :
          \/ engine' = Failed(engine)
          \/ engine' = [engine EXCEPT !.at = "repair", !.todo = asked]
    <3> HIDE EngineUpdate, <1>a, <1>c
    <3> QED
      BY <1>14, Zenon DEF AskRepair
  <2>2. asked \in SUBSET Tasks
    <3> HIDE EngineUpdate, <1>a, <1>c
    <3>1. TasksOf(plan) \in SUBSET Tasks
      BY <1>d
    <3> QED
      BY <3>1
  <2>3. [engine EXCEPT !.at = "repair", !.todo = asked] \in Engines
    BY <1>b, <2>2
  <2> QED
    BY <2>1, <2>3
<1>15. CASE StartRepair
  <2>0. \A y \in SUBSET Tasks : [engine EXCEPT !.todo = y, !.unrepaired = TRUE] \in Engines
    OBVIOUS
  <2>1. \A t \in Tasks : [engine EXCEPT !.todo = @ \ {t}, !.unrepaired = TRUE] \in Engines
    <3> HIDE EngineUpdate, <1>a, <1>c
    <3> QED
      BY <1>d, <2>0
  <2>2. [engine EXCEPT !.at = "repairing"] \in Engines
    BY <1>b
  <2> QED
    BY <1>15, <2>1, <2>2 DEF StartRepair
<1>16. CASE EndRepair
  <2>0. \A y \in SUBSET Tasks, x \in BOOLEAN :
          [engine EXCEPT !.at = "repair", !.todo = y, !.unrepaired = x] \in Engines
    BY <1>b
  <2>1. \A t \in Tasks, x \in BOOLEAN :
          [engine EXCEPT !.at = "repair", !.todo = @ \ {t}, !.unrepaired = x] \in Engines
    <3> HIDE EngineUpdate, <1>a, <1>c
    <3> QED
      BY <1>d, <2>0
  <2>2. PICK t \in Tasks :
          \/ engine' = Failed(engine)
          \/ engine' = [engine EXCEPT !.at = "repair", !.todo = @ \ {t},
                                      !.unrepaired = @ \/ result[t] # "success"]
    BY <1>16 DEF EndRepair
  <2>3. (engine.unrepaired \/ result[t] # "success") \in BOOLEAN
    OBVIOUS
  <2> QED
    BY <2>1, <2>2, <2>3
<1>17. CASE ReviewAgain
  BY <1>17, <1>b DEF ReviewAgain
<1>18. CASE InspectCheckout
  <2>1. Failed([engine EXCEPT !.protected = {Integration}]) \in Engines
    BY <1>d
  <2>2. \/ engine' = [engine EXCEPT !.at = "merge"]
        \/ engine' = [engine EXCEPT !.at = "check"]
        \/ engine' = Failed(engine)
        \/ engine' = Failed([engine EXCEPT !.protected = {Integration}])
    BY <1>18 DEF InspectCheckout, Inspection
  <2> QED
    BY <1>b, <2>1, <2>2
<1>19. CASE Merge
  BY <1>19, <1>b DEF Merge
<1>20. CASE CheckDiff
  <2>1. [engine EXCEPT !.at = "remove", !.verdict = "complete"] \in Engines
    BY <1>b
  <2> QED
    BY <1>20, <2>1 DEF CheckDiff
<1>21. CASE CleanTrees
  <2>1. \A x \in BOOLEAN : [engine EXCEPT !.at = "prune", !.kept = x] \in Engines
    BY <1>b
  <2>2. LeavesTrees(engine.protected) \in BOOLEAN
    BY DEF LeavesTrees
  <2> QED
    BY <1>21, <2>1, <2>2 DEF CleanTrees
<1>22. CASE Prune
  BY <1>22, <1>b DEF Prune
<1>23. CASE Close
  BY <1>23, NothingType DEF Close
<1> QED
  BY <1>1, <1>2, <1>3, <1>4, <1>5, <1>6, <1>7, <1>8, <1>9, <1>10, <1>11, <1>12,
     <1>13, <1>14, <1>15, <1>16, <1>17, <1>18, <1>19, <1>20, <1>21, <1>22, <1>23
  DEF MainThread

\* Of the tasks the main thread changes only results, locals and places.
LEMMA MainTasks ==
  ASSUME TypeInv, MainThread
  PROVE  TasksTypeOK'
<1>a. /\ TasksTypeOK
      /\ "root" \in Wheres /\ "tree" \in Wheres
      /\ {"none", "success", "blocked"} \subseteq Results
      /\ {"idle", "entered"} \subseteq Steps
      /\ {run[t].where : t \in Tasks} \subseteq Wheres
  BY DEF TypeInv, Wheres, Results, Steps, TasksTypeOK, Runs
<1>b. ASSUME UNCHANGED <<record, ledger, output, process, workVars>>,
             result' \in [Tasks -> Results], run' \in [Tasks -> Runs],
             step' \in [Tasks -> Steps]
      PROVE  TasksTypeOK'
  BY <1>a, <1>b DEF TasksTypeOK, workVars
<1>c. result \in [Tasks -> Results] /\ run \in [Tasks -> Runs] /\ step \in [Tasks -> Steps]
  BY <1>a DEF TasksTypeOK
<1>d. CASE UNCHANGED <<filesVars, workVars, run, step>>
  BY <1>b, <1>c, <1>d DEF filesVars
<1>1. CASE Open
  BY <1>1, <1>a, <1>b, <1>c DEF Open
<1>2. CASE StartWave
  <2>1. result' \in [Tasks -> Results]
    BY <1>2, <1>a, <1>c DEF StartWave
  <2>2. run' \in [Tasks -> Runs]
    BY <1>2, <1>a, NothingType DEF StartWave
  <2>3. step' \in [Tasks -> Steps]
    BY <1>2, <1>a DEF StartWave
  <2> QED
    BY <1>2, <1>b, <2>1, <2>2, <2>3 DEF StartWave
<1>3. CASE Join
  <2>1. run' \in [Tasks -> Runs]
    <3>1. \A t \in Tasks :
            [NoRun EXCEPT !.where = run[t].where, !.single = TRUE] \in Runs
      BY <1>a, NothingType
    <3>2. \/ UNCHANGED run
          \/ run' = [t \in Tasks |-> NoRun]
          \/ \E t \in Tasks : run' = [run EXCEPT ![t] =
               [NoRun EXCEPT !.where = run[t].where, !.single = TRUE]]
      <4>1. engine.todo \subseteq Tasks
        BY DEF TypeInv, Engines
      <4> QED
        BY <1>3, <4>1 DEF Join, Candidates
    <3> QED
      BY <1>c, <3>1, <3>2, NothingType
  <2>2. step' \in [Tasks -> Steps]
    BY <1>3, <1>a, <1>c DEF Join
  <2> QED
    BY <1>3, <1>b, <1>c, <2>1, <2>2 DEF Join, filesVars
<1>4. CASE StartRepair
  <2>1. run' \in [Tasks -> Runs]
    BY <1>4, <1>a, <1>c, NothingType DEF StartRepair
  <2>2. step' \in [Tasks -> Steps]
    BY <1>4, <1>a, <1>c DEF StartRepair
  <2> QED
    BY <1>4, <1>b, <1>c, <2>1, <2>2 DEF StartRepair, filesVars
<1>5. CASE EndRepair
  BY <1>5, <1>a, <1>b, <1>c DEF EndRepair, filesVars
<1>6. CASE Close
  BY <1>6, <1>a, <1>b, <1>c, NothingType DEF Close, filesVars
<1>7. CASE PlannerAnswers
  BY <1>7, <1>d DEF PlannerAnswers
<1>8. ASSUME UNCHANGED taskVars PROVE TasksTypeOK'
  BY <1>8, <1>d DEF taskVars
<1> QED
  BY <1>1, <1>2, <1>3, <1>4, <1>5, <1>6, <1>7, <1>8
  DEF MainThread, PlannerFails, AddTaskTree, ListTaskTree, ApproveUnreviewed,
      StartReview, ListIntegration, Approve, Refuse, AskRepair, ReviewAgain,
      InspectCheckout, Merge, CheckDiff, CleanTrees, Prune

\* The main thread keeps the types of the workspace.
LEMMA MainTrees ==
  ASSUME TypeInv, MainThread
  PROVE  WorkspaceTypeOK'
<1>a. WorkspaceTypeOK /\ Tasks \subseteq Trees /\ Integration \in Trees
      /\ engine.info.head \subseteq Commits /\ engine.todo \subseteq Tasks
      /\ Missing \subseteq Tasks
  BY DEF TypeInv, Trees, Engines, Missing, ToDo, TasksOf, TasksIn
<1>b. CASE UNCHANGED workspaceVars
  BY <1>a, <1>b DEF workspaceVars, WorkspaceTypeOK
<1>1. CASE AddTaskTree
  BY <1>1, <1>a, <1>b, WorkspaceTypes DEF AddTaskTree
<1>2. CASE ListTaskTree
  BY <1>2, <1>a, WorkspaceTypes DEF ListTaskTree
<1>3. CASE StartReview
  BY <1>3, <1>a, <1>b, WorkspaceTypes DEF StartReview
<1>4. CASE ListIntegration
  BY <1>4, <1>a, WorkspaceTypes DEF ListIntegration
<1>5. CASE Merge
  BY <1>5, <1>a, <1>b, CheckoutTypes DEF Merge
<1>6. CASE CleanTrees
  BY <1>6, <1>a, CheckoutTypes DEF CleanTrees
<1>7. CASE Prune
  BY <1>7, <1>a, CheckoutTypes DEF Prune
<1> QED
  BY <1>b, <1>1, <1>2, <1>3, <1>4, <1>5, <1>6, <1>7
  DEF MainThread, Open, PlannerAnswers, PlannerFails, StartWave, Join,
      ApproveUnreviewed, Approve, Refuse, AskRepair, StartRepair, EndRepair,
      ReviewAgain, InspectCheckout, CheckDiff, Close

\* The plan a job gets has the tasks, the dependencies and the writers of an
\* answer of the planner, and permissions only with the user's authority.
LEMMA PlannerType ==
  ASSUME TypeInv, PlannerAnswers
  PROVE  PlanOK' /\ (UNCHANGED plan \/ plan'.mode # "none")
<1>1. CASE UNCHANGED plan
  BY <1>1 DEF TypeInv, PlanOK, NoPlan
<1>2. CASE \E raw \in setting.raws :
             plan' = ForWorkspace(UnderCeiling(Validated(raw), setting.authority),
                                  engine.info.dirty)
  <2>1. PICK raw \in setting.raws :
          plan' = ForWorkspace(UnderCeiling(Validated(raw), setting.authority),
                               engine.info.dirty)
    BY <1>2
  <2>2. raw \in Plan /\ setting.authority \in BOOLEAN
    BY SettingsAssumption DEF TypeInv, Setting, RawPlan
  <2> DEFINE p == UnderCeiling(Validated(raw), setting.authority)
  <2>3. /\ p.external \in BOOLEAN
        /\ p.writes \in SUBSET Tasks
        /\ p.deps \in [Tasks -> SUBSET Tasks]
        /\ p.mode # "none"
    BY <2>2 DEF UnderCeiling, Validated, Plan, Modes
  <2>4. /\ plan'.external = p.external /\ plan'.writes = p.writes
        /\ plan'.deps = p.deps /\ plan'.mode = p.mode
    BY <2>1, <2>2 DEF ForWorkspace, UnderCeiling, Validated, Plan
  <2> QED
    BY <2>3, <2>4 DEF PlanOK
<1> QED
  BY <1>1, <1>2 DEF PlannerAnswers

-----------------------------------------------------------------------------
(* The invariant.                                                          *)

\* The types hold at the start.
LEMMA InitType == Init => TypeInv
<1> SUFFICES ASSUME Init PROVE TypeInv
  OBVIOUS
<1>1. WorkspaceTypeOK
  <2>1. setting.dirty \in BOOLEAN
    BY SettingsAssumption DEF Init, Setting
  <2> QED
    BY <2>1 DEF Init, WorkspaceInit, WorkspaceTypeOK, NoTree
<1>2. NoRecord \in Records
  BY RetriesAssumption DEF NoRecord, Records, Wheres, MaxAttempts
<1>3. TasksTypeOK
  BY <1>2, NothingType DEF Init, TasksInit, TasksTypeOK, Results, LedgerStates, Steps
<1>4. PlanOK
  BY DEF Init, NoPlan, PlanOK
<1> QED
  BY <1>1, <1>3, <1>4, NothingType DEF Init, TypeInv

\* Every step of the system keeps the types.
LEMMA StepType == TypeInv /\ [Next]_vars => TypeInv'
<1> SUFFICES ASSUME TypeInv, [Next]_vars PROVE TypeInv'
  OBVIOUS
<1>a. /\ setting \in Settings /\ job \in {"open", "complete", "blocked"}
      /\ engine \in Engines /\ PlanOK /\ WorkspaceTypeOK /\ TasksTypeOK
      /\ plan.external \in BOOLEAN
  BY DEF TypeInv, PlanOK
<1>b. ASSUME UNCHANGED planVars, engine' \in Engines, WorkspaceTypeOK', TasksTypeOK',
             job' \in {"open", "complete", "blocked"}
      PROVE  TypeInv'
  BY <1>a, <1>b DEF TypeInv, PlanOK, planVars, NoPlan
<1>c. UNCHANGED workspaceVars => WorkspaceTypeOK'
  BY <1>a DEF workspaceVars, WorkspaceTypeOK
<1>d. UNCHANGED <<filesVars, workVars, run, step>> => TasksTypeOK'
  BY <1>a DEF TasksTypeOK, filesVars, workVars
<1>1. CASE Launch
  BY <1>1, <1>a, <1>b, <1>c, <1>d, EngineType DEF Launch, taskVars
<1>2. CASE MainThread
  <2>1. engine' \in Engines /\ WorkspaceTypeOK' /\ TasksTypeOK'
    BY <1>2, EngineType, MainTrees, MainTasks
  <2>2. job' \in {"open", "complete", "blocked"}
    <3>1. CASE Close
      BY <3>1, <1>a DEF Close, Engines
    <3>2. CASE UNCHANGED job
      BY <3>2, <1>a
    <3> QED
      BY <1>2, <3>1, <3>2 DEF MainThread, Open, PlannerAnswers, PlannerFails, AddTaskTree,
        ListTaskTree, StartWave, Join, ApproveUnreviewed, StartReview,
        ListIntegration, Approve, Refuse, AskRepair, StartRepair, EndRepair,
        ReviewAgain, InspectCheckout, Merge, CheckDiff, CleanTrees, Prune
  <2>3. CASE PlannerAnswers
    BY <1>a, <2>1, <2>2, <2>3, PlannerType DEF TypeInv, PlannerAnswers
  <2>4. CASE UNCHANGED planVars
    BY <1>b, <2>1, <2>2, <2>4
  <2> QED
    BY <1>2, <2>3, <2>4 DEF MainThread, Open, PlannerFails, AddTaskTree, taskVars,
      ListTaskTree, StartWave, Join, ApproveUnreviewed, StartReview,
      ListIntegration, Approve, Refuse, AskRepair, StartRepair, EndRepair,
      ReviewAgain, InspectCheckout, Merge, CheckDiff, CleanTrees, Prune, Close
<1>3. CASE ReviewerMerges
  <2>1. Integration \in Trees /\ Tasks \subseteq Trees /\ Offered \in SUBSET Commits
    <3>1. engine.changed \subseteq Tasks
      BY <1>a DEF Engines
    <3>2. \A t \in Tasks : tree[t].head \subseteq Commits
      BY <1>a DEF WorkspaceTypeOK, Trees
    <3> QED
      BY <3>1, <3>2 DEF Offered, Trees
  <2>2. WorkspaceTypeOK'
    BY <1>3, <1>a, <2>1, WorkspaceTypes DEF ReviewerMerges
  <2> QED
    BY <1>3, <1>a, <1>b, <1>d, <2>2 DEF ReviewerMerges, taskVars
<1>4. CASE Crash
  <2>1. TasksTypeOK'
    <3>1. worker' \in [Tasks -> Workers] /\ run' \in [Tasks -> Runs] /\ step' \in [Tasks -> Steps]
      BY <1>4, <1>a, NothingType DEF Crash, ThreadsDie, TasksTypeOK, Steps
    <3> QED
      BY <1>4, <1>a, <3>1 DEF Crash, ThreadsDie, TasksTypeOK, filesVars
  <2> QED
    BY <1>4, <1>a, <1>b, <1>c, <2>1, NothingType DEF Crash, ThreadsDie
<1>5. CASE UserActs
  BY <1>5, <1>a, <1>b, <1>d, CheckoutTypes DEF UserActs
<1>6. CASE Over \/ UNCHANGED vars
  BY <1>6, <1>a, <1>b, <1>c, <1>d DEF Over, vars, taskVars
<1>7. ASSUME NEW t \in Tasks, RecoverOrphan(t)
      PROVE  TypeInv'
  BY <1>7, <1>a, <1>b, <1>c, OrphanType DEF RecoverOrphan, ReconcileOrphan
<1>8. ASSUME NEW t \in Tasks, TaskThread(t)
      PROVE  TypeInv'
  <2>1. UNCHANGED <<planVars, workspaceVars>>
    BY <1>8 DEF TaskThread, RunTask, RecoverExternalAction, BeginAttempt, RecordStart,
      Spawn, SpawnFails, Register, Prompt, SaveSession, Collect, Timeout, Interrupt,
      Reconcile, Keep, Mark, Settle, Drop, PromptFails, OutlivesSignals
  <2> QED
    BY <1>8, <1>a, <1>b, <1>c, <2>1, ThreadType DEF TaskThread
<1>9. ASSUME NEW t \in Tasks, WorkerProcess(t)
      PROVE  TypeInv'
  <2>1. UNCHANGED planVars
    BY <1>9 DEF WorkerProcess, RunWorker, Heed, Announce, Work, Exit, StrayWorks, StrayExits
  <2> QED
    BY <1>9, <1>a, <1>b, <2>1, WorkerType DEF WorkerProcess
<1> QED
  BY <1>1, <1>2, <1>3, <1>4, <1>5, <1>6, <1>7, <1>8, <1>9 DEF Next

\* What a job works with keeps its type: plan.json, the results, the records and
\* the ledger of state.json, the worktrees, the locals of the engine and of its
\* threads, whatever engines, threads, workers, the user and crashes do.
THEOREM TypesKept == Spec => []TypeInv
<1>1. Init => TypeInv
  BY InitType
<1>2. TypeInv /\ [Next]_vars => TypeInv'
  BY StepType
<1> QED
  BY <1>1, <1>2, PTL DEF Spec
=============================================================================
