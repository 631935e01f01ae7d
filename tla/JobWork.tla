------------------------------- MODULE JobWork -------------------------------
(***************************************************************************)
(* A job at work: the main thread of the engine from the plan to the end   *)
(* (run_store, _plan, _execute_plan, _review_and_integrate of              *)
(* scripts/orchestrator/engine.py), composed with the tasks and their      *)
(* workers (TaskRun), the worktrees (Workspace), the user, who goes on     *)
(* using the checkout, and crashes: the engine may die at any step, the    *)
(* workers go on, and the next controller terminates what is left of them  *)
(* (_reconcile_orphan_processes of controller.py) and resumes.             *)
(*                                                                         *)
(* Who may start that controller, and when, is in JobLifecycle; what is    *)
(* asked of a running job through its queue in ControlBoundary.            *)
(***************************************************************************)
EXTENDS TaskRun

VARIABLES
  job,      \* state.json, status: "open", "complete" or "blocked"
  engine    \* the locals of the main thread

vars == <<taskVars, workspaceVars, job, engine>>

Places == {"off", "recover", "plan", "prepare", "list", "join", "ultra",
           "review", "list-integration", "reviewing", "repair", "repairing",
           "inspect", "merge", "check", "remove", "prune", "close"}

EngineOff ==
  [at |-> "off", info |-> [head |-> {}, dirty |-> FALSE], answers |-> 0,
   wave |-> 1, todo |-> {}, ultraUsed |-> FALSE, pass |-> 1, changed |-> {},
   unrepaired |-> FALSE, protected |-> {}, verdict |-> "blocked", kept |-> FALSE]

Engines ==
  [at : Places, info : [head : SUBSET Commits, dirty : BOOLEAN], answers : 0..1,
   wave : Nat \ {0}, todo : SUBSET Tasks, ultraUsed : BOOLEAN, pass : 1..2,
   changed : SUBSET Tasks, unrepaired : BOOLEAN, protected : SUBSET Trees,
   verdict : {"complete", "blocked"}, kept : BOOLEAN]

\* There is no plan.json.
NoPlan ==
  [mode |-> "none", lowRisk |-> FALSE, waves |-> << >>,
   deps |-> [t \in Tasks |-> {}], writes |-> {}, ultra |-> {}, ids |-> "short",
   reviewed |-> FALSE, external |-> FALSE, serialized |-> FALSE]

Init ==
  /\ setting \in Settings
  /\ plan = NoPlan
  /\ job = "open"
  /\ engine = EngineOff
  /\ budget = [crashes |-> setting.crashes, interrupts |-> setting.interrupts,
               commits |-> setting.commits, edits |-> setting.edits]
  /\ WorkspaceInit(setting.dirty)
  /\ TasksInit

At(place) == engine.at = place

\* An exception: the job will be blocked, after the cleanup.
Failed(e) == [e EXCEPT !.at = "remove", !.verdict = "blocked"]

-----------------------------------------------------------------------------
(* Start and plan.                                                         *)

Launch ==
  /\ At("off")
  /\ job = "open"
  /\ engine' = [EngineOff EXCEPT !.at = "recover"]
  /\ UNCHANGED <<taskVars, workspaceVars, job>>

RecoverOrphan(t) ==
  /\ At("recover")
  /\ ReconcileOrphan(t)
  /\ UNCHANGED <<job, engine>>

\* WorkspaceManager looks at the checkout, the plan is loaded if there is one,
\* and of the results only the successes.
Open ==
  /\ At("recover")
  /\ \A t \in Tasks : process[t] = "none"
  /\ engine' = [engine EXCEPT !.at = IF plan = NoPlan THEN "plan" ELSE "prepare",
                              !.info = repo,
                              !.ultraUsed = UltraTasks(plan) # {}]
  /\ result' = [t \in Tasks |-> IF result[t] = "success" THEN "success" ELSE "none"]
  /\ UNCHANGED <<planVars, record, ledger, output, process, workVars, run, step,
                 budget, workspaceVars, job>>

\* The planner has two answers to give a valid plan.  That it is no longer valid
\* when it has been split is an exception.
PlannerAnswers ==
  /\ At("plan")
  /\ \E raw \in setting.raws :
       LET split == ForWorkspace(UnderCeiling(Validated(raw), setting.authority),
                                 engine.info.dirty) IN
       IF ValidPlan(raw) /\ ValidPlan(split)
         THEN /\ plan' = split
              /\ engine' = [engine EXCEPT !.at = "prepare",
                                          !.ultraUsed = UltraTasks(raw) # {}]
         ELSE /\ engine' = IF ~ValidPlan(raw) /\ engine.answers = 0
                             THEN [engine EXCEPT !.answers = 1] ELSE Failed(engine)
              /\ UNCHANGED plan
  /\ UNCHANGED <<setting, filesVars, workVars, run, step, budget, workspaceVars, job>>

\* Its invocation times out or fails.
PlannerFails ==
  /\ At("plan")
  /\ engine' = Failed(engine)
  /\ UNCHANGED <<taskVars, workspaceVars, job>>

-----------------------------------------------------------------------------
(* The waves.                                                              *)

Wave == plan.waves[engine.wave]

\* Mutant: whatever a task depends on has been tried by now.
NeverUnmet(t) == FALSE

Unmet(t) == \E d \in plan.deps[t] : result[d] # "success"

\* The tasks of the wave with no success yet, and what becomes of them.
ToDo == {t \in TasksOf(plan) : t \in ToSet(Wave) /\ result[t] # "success"}

Isolated(t) == Writes(t) /\ ~engine.info.dirty

\* Those that lack their worktree (they are made in the order of the plan, which
\* makes no difference).
Missing == {t \in ToDo : ~Unmet(t) /\ Isolated(t) /\ ~Usable(t)}

AddTaskTree ==
  /\ At("prepare")
  /\ \E t \in Missing :
       IF CanAdd(t)
         THEN /\ AddTree(t, engine.info)
              /\ engine' = [engine EXCEPT !.at = "list", !.todo = {t}]
         ELSE /\ engine' = Failed(engine)
              /\ UNCHANGED workspaceVars
  /\ UNCHANGED <<taskVars, job>>

ListTaskTree ==
  /\ At("list")
  /\ \E t \in engine.todo : ListTree(t)
  /\ engine' = [engine EXCEPT !.at = "prepare", !.todo = {}]
  /\ UNCHANGED <<taskVars, job>>

StartWave ==
  /\ At("prepare")
  /\ Missing = {}
  /\ LET started == {t \in ToDo : ~Unmet(t)} IN
     /\ result' = [t \in Tasks |->
          IF t \in ToDo \ started THEN "blocked" ELSE result[t]]
     /\ run' = [t \in Tasks |->
          IF t \in started
            THEN [NoRun EXCEPT !.where = IF Isolated(t) THEN "tree" ELSE "root"]
            ELSE NoRun]
     /\ step' = [t \in Tasks |-> IF t \in started THEN "entered" ELSE "idle"]
     /\ engine' = [engine EXCEPT !.at = "join", !.todo = started]
  /\ UNCHANGED <<planVars, record, ledger, output, process, workVars, budget,
                 workspaceVars, job>>

AllReturned == \A t \in engine.todo : step[t] \in {"returned", "raised"}

\* Mutant: failures do not keep a job from its review.
ReviewAnyway ==
  engine' =
    IF engine.wave < Len(plan.waves)
      THEN [engine EXCEPT !.at = "prepare", !.wave = @ + 1, !.todo = {}]
      ELSE [engine EXCEPT !.at = "review", !.todo = {}]

\* The end of a wave; of the last one, the end of the run.
NextWave ==
  engine' =
    IF engine.wave < Len(plan.waves)
      THEN [engine EXCEPT !.at = "prepare", !.wave = @ + 1, !.todo = {}]
    ELSE IF \A t \in TasksOf(plan) : result[t] = "success"
      THEN [engine EXCEPT !.at = "review", !.todo = {}]
    ELSE Failed(engine)

\* future.result() raises, or a worktree is left with edits.
JoinRaises ==
  \E t \in engine.todo :
    \/ step[t] = "raised"
    \/ At("join") /\ run[t].where = "tree" /\ result[t] = "success" /\ tree[t].dirty

\* Failures of coordination: one of them is tried again by an Ultra run.
Candidates ==
  {t \in engine.todo : At("join") /\ result[t] = "coordination" /\ ~engine.ultraUsed}

Join ==
  /\ At("join") \/ At("ultra")
  /\ AllReturned
  /\ IF JoinRaises
       THEN /\ engine' = Failed(engine)
            /\ UNCHANGED <<run, step>>
     ELSE IF Candidates # {}
       THEN \E t \in Candidates :
            /\ engine' = [engine EXCEPT !.at = "ultra", !.todo = {t}, !.ultraUsed = TRUE]
            /\ run' = [run EXCEPT ![t] = [NoRun EXCEPT !.where = run[t].where,
                                                       !.single = TRUE]]
            /\ step' = [step EXCEPT ![t] = "entered"]
     ELSE /\ NextWave
          /\ run' = [t \in Tasks |-> NoRun]
          /\ step' = [t \in Tasks |-> "idle"]
  /\ UNCHANGED <<planVars, filesVars, workVars, budget, workspaceVars, job>>

-----------------------------------------------------------------------------
(* Review, repair and integration.                                         *)

\* The branches with commits, looked at once, before the first review.
Changed == {t \in TaskTrees : tree[t].head # tree[t].base}

\* A direct task of low risk needs no review, unless it has a worktree.
ApproveUnreviewed ==
  /\ At("review")
  /\ ~plan.reviewed
  /\ TaskTrees = {}
  /\ engine' = [engine EXCEPT !.at = "check"]
  /\ UNCHANGED <<taskVars, workspaceVars, job>>

StartReview ==
  /\ At("review")
  /\ plan.reviewed \/ TaskTrees # {}
  /\ \/ /\ TaskTrees = {} \/ (Usable(Integration) /\ ~engine.info.dirty)
        /\ engine' = [engine EXCEPT !.at = "reviewing", !.changed = Changed]
        /\ UNCHANGED workspaceVars
     \/ /\ TaskTrees # {}
        /\ ~Usable(Integration)
        /\ ~engine.info.dirty
        /\ AddTree(Integration, engine.info)
        /\ engine' = [engine EXCEPT !.at = "list-integration", !.changed = Changed]
     \/ /\ TaskTrees # {}
        /\ engine.info.dirty \/ (~Usable(Integration) /\ ~CanAdd(Integration))
        /\ engine' = Failed(engine)
        /\ UNCHANGED workspaceVars
  /\ UNCHANGED <<taskVars, job>>

ListIntegration ==
  /\ At("list-integration")
  /\ ListTree(Integration)
  /\ engine' = [engine EXCEPT !.at = "reviewing"]
  /\ UNCHANGED <<taskVars, job>>

\* The reviewer (external) merges the changed branches, and may leave edits.
Offered == UNION {tree[t].head : t \in engine.changed}

ReviewerMerges ==
  /\ At("reviewing")
  /\ TaskTrees # {}
  /\ \/ /\ ~(Offered \subseteq tree[Integration].head) \/ tree[Integration].dirty
        /\ CommitIn(Integration, Offered)
     \/ /\ ~tree[Integration].dirty
        /\ EditIn(Integration)
  /\ UNCHANGED <<taskVars, job, engine>>

\* The reviewer approves only what it has merged.
Approve ==
  /\ At("reviewing")
  /\ TaskTrees # {} => Offered \subseteq tree[Integration].head
  /\ engine' = [engine EXCEPT !.at = IF TaskTrees # {} THEN "inspect" ELSE "check"]
  /\ UNCHANGED <<taskVars, workspaceVars, job>>

\* It blocks the job, gives no valid answer, or fails.
Refuse ==
  /\ At("reviewing")
  /\ engine' = Failed(engine)
  /\ UNCHANGED <<taskVars, workspaceVars, job>>

\* It asks for a repair of some tasks: once.
AskRepair ==
  /\ At("reviewing")
  /\ setting.repairs
  /\ \E asked \in (SUBSET TasksOf(plan)) \ {{}} :
       engine' =
         IF engine.pass = 2 \/ (TaskTrees # {} /\ tree[Integration].dirty)
           THEN Failed(engine)
           ELSE [engine EXCEPT !.at = "repair", !.todo = asked]
  /\ UNCHANGED <<taskVars, workspaceVars, job>>

\* The next task to repair: one that has had a second attempt already has had
\* its repair, too.
StartRepair ==
  /\ At("repair")
  /\ \E t \in engine.todo :
       IF record[t].attempt > 1
         THEN /\ engine' = [engine EXCEPT !.todo = @ \ {t}, !.unrepaired = TRUE]
              /\ UNCHANGED <<run, step>>
         ELSE /\ engine' = [engine EXCEPT !.at = "repairing"]
              /\ run' = [r \in Tasks |->
                   IF r = t THEN [NoRun EXCEPT !.single = TRUE, !.round = 2,
                     !.where = IF t \in TaskTrees THEN "tree" ELSE "root"]
                   ELSE NoRun]
              /\ step' = [r \in Tasks |-> IF r = t THEN "entered" ELSE "idle"]
  /\ UNCHANGED <<planVars, filesVars, workVars, budget, workspaceVars, job>>

EndRepair ==
  /\ At("repairing")
  /\ \E t \in engine.todo :
       /\ step[t] \in {"returned", "raised"}
       /\ engine' =
            IF \/ step[t] = "raised"
               \/ result[t] = "success" /\ run[t].where = "tree" /\ tree[t].dirty
              THEN Failed(engine)
              ELSE [engine EXCEPT !.at = "repair", !.todo = @ \ {t},
                      !.unrepaired = @ \/ result[t] # "success"]
       /\ step' = [step EXCEPT ![t] = IF @ = "raised" THEN @ ELSE "idle"]
  /\ UNCHANGED <<planVars, filesVars, workVars, run, budget, workspaceVars, job>>

\* Mutant: a repaired integration is taken for an approved one.
ApproveRepaired ==
  /\ At("repair")
  /\ engine.todo = {}
  /\ engine' = IF engine.unrepaired THEN Failed(engine)
               ELSE [engine EXCEPT !.at = IF TaskTrees # {} THEN "inspect" ELSE "check"]
  /\ UNCHANGED <<taskVars, workspaceVars, job>>

ReviewAgain ==
  /\ At("repair")
  /\ engine.todo = {}
  /\ engine' = IF engine.unrepaired THEN Failed(engine)
               ELSE [engine EXCEPT !.at = "reviewing", !.pass = 2]
  /\ UNCHANGED <<taskVars, workspaceVars, job>>

\* apply_integration looks at the checkout ...
InspectCheckout ==
  /\ At("inspect")
  /\ LET found == Inspection(engine.info) IN
     engine' = CASE found = "merge"  -> [engine EXCEPT !.at = "merge"]
                 [] found = "done"   -> [engine EXCEPT !.at = "check"]
                 [] found = "dirty"  -> Failed(engine)
                 [] found = "refuse" -> Failed([engine EXCEPT !.protected = {Integration}])
  /\ UNCHANGED <<taskVars, workspaceVars, job>>

\* ... and merges; git refuses when the user was faster.
Merge ==
  /\ At("merge")
  /\ \/ /\ MergeIntegration
        /\ engine' = [engine EXCEPT !.at = "check"]
     \/ /\ ~CanMerge \/ repo.dirty
        /\ engine' = Failed(engine)
        /\ UNCHANGED workspaceVars
  /\ UNCHANGED <<taskVars, job>>

-----------------------------------------------------------------------------
(* The end.                                                                *)

\* git diff --check.
CheckDiff ==
  /\ At("check")
  /\ engine' \in {[engine EXCEPT !.at = "remove", !.verdict = "complete"],
                  Failed(engine)}
  /\ UNCHANGED <<taskVars, workspaceVars, job>>

CleanTrees ==
  /\ At("remove")
  /\ RemoveTrees(engine.protected)
  /\ engine' = [engine EXCEPT !.at = "prune", !.kept = LeavesTrees(engine.protected)]
  /\ UNCHANGED <<taskVars, job>>

Prune ==
  /\ At("prune")
  /\ DeleteBranches
  /\ engine' = [engine EXCEPT !.at = "close"]
  /\ UNCHANGED <<taskVars, job>>

\* A job whose worktrees could not all be removed is blocked.
Close ==
  /\ At("close")
  /\ job' = IF engine.kept THEN "blocked" ELSE engine.verdict
  /\ engine' = EngineOff
  /\ step' = [t \in Tasks |-> "idle"]
  /\ run' = [t \in Tasks |-> NoRun]
  /\ UNCHANGED <<planVars, filesVars, workVars, budget, workspaceVars>>

MainThread ==
  \/ Open
  \/ PlannerAnswers
  \/ PlannerFails
  \/ AddTaskTree
  \/ ListTaskTree
  \/ StartWave
  \/ Join
  \/ ApproveUnreviewed
  \/ StartReview
  \/ ListIntegration
  \/ Approve
  \/ Refuse
  \/ AskRepair
  \/ StartRepair
  \/ EndRepair
  \/ ReviewAgain
  \/ InspectCheckout
  \/ Merge
  \/ CheckDiff
  \/ CleanTrees
  \/ Prune
  \/ Close

TaskThread(t) == RunTask(t) /\ UNCHANGED <<job, engine>>

WorkerProcess(t) == RunWorker(t) /\ UNCHANGED <<job, engine>>

Crash ==
  /\ ~At("off")
  /\ budget.crashes > 0
  /\ budget' = [budget EXCEPT !.crashes = @ - 1]
  /\ ThreadsDie
  /\ engine' = EngineOff
  /\ UNCHANGED <<workspaceVars, job>>

UserActs ==
  /\ job = "open"
  /\ \/ /\ budget.commits > 0
        /\ UserCommits
        /\ budget' = [budget EXCEPT !.commits = @ - 1]
     \/ /\ budget.edits > 0
        /\ UserEdits
        /\ budget' = [budget EXCEPT !.edits = @ - 1]
  /\ UNCHANGED <<planVars, filesVars, workVars, run, step, job, engine>>

\* The job is over.
Over == job # "open" /\ UNCHANGED vars

Next ==
  \/ Launch
  \/ MainThread
  \/ ReviewerMerges
  \/ Crash
  \/ UserActs
  \/ Over
  \/ \E t \in Tasks : RecoverOrphan(t) \/ TaskThread(t) \/ WorkerProcess(t)

EngineStep ==
  MainThread \/ \E t \in Tasks : RecoverOrphan(t) \/ TaskThread(t)

\* A running engine goes on: some thread of it is scheduled, and whatever all of
\* them wait for ends, or is terminated when its time is up.
Fairness == WF_vars(EngineStep)

Spec == Init /\ [][Next]_vars /\ Fairness
-----------------------------------------------------------------------------
(* Properties.                                                             *)

TypeOK ==
  /\ setting \in Settings
  /\ plan \in Plan \cup {NoPlan}
  /\ job \in {"open", "complete", "blocked"}
  /\ engine \in Engines
  /\ budget \in [crashes : Nat, interrupts : Nat, commits : Nat, edits : Nat]
  /\ WorkspaceTypeOK
  /\ TasksTypeOK

\* What the ledger of external actions says is so, whatever crashes and stale
\* output files there were: no action is recorded as completed before the task
\* has acted, and of one without an entry no worker has heard.  (It does not
\* say that a repair has: README, findings.)
LedgerTruthful ==
  plan.external =>
    \A t \in Tasks, r \in Rounds :
      Writes(t) =>
        /\ ledger[t][r] \in {"completed", "completed-reconciled"} => Worked(t, 1)
        /\ ledger[t][r] = "none" => ~Worked(t, r)

\* A task that writes is not reported successful unless some worker has done its
\* work: not for a lost, a late or an old answer.
SuccessIsReal ==
  \A t \in Tasks :
    result[t] = "success" /\ Writes(t) => \E r \in Rounds : Worked(t, r)

\* A worker that can act has been announced in state.json, so that whoever
\* comes after a crash finds it (a stray has been found, and given up).
ActingIsRegistered == \A t \in Tasks : Alive(t) => process[t] # "none"

\* An engine that is at work is alone with the workers it has started, if workers
\* are tame: those of the engine before it are in state.json whatever it died
\* of, and have been terminated.  (Nothing in the code makes sure that they end.)
NoOrphanBesideEngine ==
  setting.tame /\ ~At("off") /\ ~At("recover") =>
    \A t \in Tasks : stray[t] = {} /\ (Alive(t) => step[t] = "wait")

\* A worker the engine knows of is at work on a task only when all the task depends
\* on has succeeded, in this engine or one before.
DependenciesFirst ==
  \A t \in Tasks :
    Alive(t) /\ worker[t].round = 1 =>
      \A d \in plan.deps[t] : result[d] = "success"

\* The workers, strays and orphans among them, that write in the checkout.
WritersInRoot ==
  {t \in Tasks : /\ Writes(t)
                 /\ \E w \in stray[t] \cup {worker[t]} :
                      w.state = "prompted" /\ w.where = "root"}

\* Tame workers never write together in the checkout, crashes included, when the
\* plan has been serialized for it; and also when it has not, as long as nobody
\* else edits the checkout and nothing is repaired.
OneWriterInRoot ==
  /\ setting.tame
  /\ plan.serialized \/ (setting.edits = 0 /\ ~setting.repairs)
  => \A t, u \in WritersInRoot : t = u

\* The same without the exceptions for edits and repairs.
SharedWritesSerialized == setting.tame => \A t, u \in WritersInRoot : t = u

\* Whatever a task has committed is in the checkout or on a branch that still
\* exists, and what it has edited and not committed is in its worktree.
WorkKept ==
  \A t \in Tasks :
    /\ tree[t].head \subseteq repo.head \/ tree[t].branch
    /\ tree[t].dirty => tree[t].path

\* The job never takes a commit of the user out of the checkout.
UserWorkKept == [][repo.head \subseteq repo'.head]_vars

\* The engine declares a job complete only when the work of every branch the
\* reviewer was shown is in the checkout, whatever the user has done to it since.
\* (A worker that is not tame may commit to a branch after it was shown.)
ApprovedIsLanded ==
  setting.tame /\ engine.verdict = "complete" => Offered \subseteq repo.head

\* What lands in the checkout is all that the reviewer was shown, or nothing; of
\* tame workers, too.
LandsWhole ==
  [][setting.tame
       /\ (\E t \in Tasks, r \in Rounds : <<t, r>> \in repo'.head \ repo.head)
       => Offered \subseteq repo'.head]_vars

\* A new session is given the external action of a task.
Repeats(t) ==
  /\ plan.external
  /\ step[t] \in {"entered", "attempt"}
  /\ step'[t] = "record"
  /\ run'[t].resume = 0

RecordedCompleted(t) ==
  ledger[t][Round(t)] \in {"completed", "completed-reconciled"}

\* An action that has been carried out and is not known to be completed is given to
\* a new session only when the session before it belongs to another workspace,
\* if workers are tame: nothing is repeated for a lost answer or a crash alone.
\* (Those that are known to be completed, and those of another workspace, are
\* repeated: the two properties after this one, both violated.)
NoBlindRepeat ==
  [][\A t \in Tasks :
       setting.tame /\ Repeats(t) /\ Worked(t, Round(t)) /\ ~RecordedCompleted(t)
       => record[t].where # run[t].where]_vars

\* The same without the exception for another workspace.
NeverRepeatUncertain ==
  [][\A t \in Tasks :
       setting.tame /\ Repeats(t) /\ Worked(t, Round(t)) => RecordedCompleted(t)]_vars

\* What the ledger says is completed is not given to a new session again.
CompletedNotRepeated ==
  [][\A t \in Tasks : Repeats(t) => ~RecordedCompleted(t)]_vars

\* To those who look at results and checkout only, the job is a WorkPromise.
Promise == INSTANCE WorkPromise WITH
  planned  <- TasksOf(plan),
  needs    <- plan.deps,
  accepted <- {t \in Tasks : result[t] = "success"},
  landed   <- \E c \in repo.head : c[1] \in Tasks

KeepsPromise == Promise!Spec

\* An engine that is not killed ends the job, if workers are tame.  (The prompt of
\* one that does not read is written for ever.)
EngineEnds == setting.tame /\ ~At("off") ~> At("off")
=============================================================================
