-------------------------- MODULE WorkPromiseProofs --------------------------
(***************************************************************************)
(* JobWork implements WorkPromise: for any plan, any number of tasks,      *)
(* retries, repairs and crashes a task is accepted only after what it      *)
(* depends on, work lands only when all of it is accepted, and a complete  *)
(* job has all of it.  And nothing that was done is lost or lands by half. *)
(***************************************************************************)
EXTENDS JobWorkProofs

AllDone == \A t \in TasksOf(plan) : result[t] = "success"

\* A task of the wave that is running: what it depends on has succeeded, and it
\* has no success of its own before its thread has kept one.
Started(t) ==
  /\ t \in TasksOf(plan)
  /\ run[t].round = 1
  /\ \A d \in plan.deps[t] : result[d] = "success"
  /\ Busy(t) /\ step[t] \notin {"mark", "settle"} => result[t] # "success"

\* The main thread is in the review, and declares the job complete, only with all
\* successes; a repair may lose one, and the main thread knows when it has.
OrderInv ==
  /\ engine.verdict = "complete" => engine.at \in {"remove", "prune", "close"}
  /\ engine.verdict = "complete" \/ engine.at \in Reviews \ {"repair", "repairing"}
       => AllDone
  /\ At("repair") =>
       /\ engine.unrepaired \/ AllDone
       /\ \A t \in engine.todo : result[t] = "success"
  /\ At("repairing") =>
       /\ \A t \in engine.todo : result[t] = "success" \/ step[t] = "returned"
       /\ \/ engine.unrepaired
          \/ \A t \in TasksOf(plan) : result[t] = "success" \/ step[t] = "returned"
       /\ \A t \in Tasks : Busy(t) => run[t].round = 2
  /\ At("join") \/ At("ultra") => \A t \in engine.todo : Started(t)
  /\ DependenciesFirst

\* Where a worker acts only beside its thread, those at rest keep what is said of
\* the dependencies.
LEMMA CalmDependencies ==
  ASSUME Calm' PROVE DependenciesFirst'
BY DEF Calm, DependenciesFirst, Alive

\* The main thread away from its threads.
LEMMA CalmOrder ==
  ASSUME TypeInv, AliveInv, LedgerInv, OrderInv, CalmStep
  PROVE  OrderInv'
<1>a. /\ DOMAIN engine = {"at", "info", "answers", "wave", "todo", "ultraUsed", "pass",
                          "changed", "unrepaired", "protected", "verdict", "kept"}
      /\ engine.verdict \in {"complete", "blocked"}
  BY DEF TypeInv, Engines
<1>b. /\ engine.at \in CalmPlaces /\ engine'.at \in CalmPlaces
      /\ UNCHANGED <<result, worker, step>>
  BY CalmSteps DEF filesVars, workVars
<1>c. DependenciesFirst'
  <2>1. CASE Calm
    BY <1>b, <2>1, CalmDependencies DEF Calm, Busy, Alive
  <2>2. CASE Leaving
    <3>1. UNCHANGED plan
      BY <2>2 DEF CalmStep, PlannerAnswers, PlannerFails, AddTaskTree, ListTaskTree,
        ApproveUnreviewed, StartReview, ListIntegration, Approve, Refuse, AskRepair,
        ReviewAgain, InspectCheckout, Merge, CheckDiff, CleanTrees, Prune, Leaving, At,
        taskVars, planVars
    <3> QED
      BY <1>b, <3>1 DEF OrderInv, DependenciesFirst, Alive
  <2> QED
    BY <1>b, <2>1, <2>2, CalmBefore
<1>d. engine'.at \notin {"off", "recover", "join", "ultra", "repairing"}
  BY <1>b DEF CalmPlaces
<1>e. UNCHANGED plan => (AllDone' <=> AllDone)
  BY <1>b DEF AllDone
<1>f. ASSUME /\ engine'.verdict = "complete" => engine'.at \in {"remove", "prune", "close"}
             /\ engine'.verdict = "complete" \/ engine'.at \in Reviews \ {"repair", "repairing"}
                  => AllDone'
             /\ engine'.at = "repair" =>
                  /\ engine'.unrepaired \/ AllDone'
                  /\ \A t \in engine'.todo : result'[t] = "success"
      PROVE  OrderInv'
  BY <1>c, <1>d, <1>f DEF OrderInv, At
<1>g. Failed(engine).at = "remove" /\ Failed(engine).verdict = "blocked"
  BY <1>a DEF Failed
<1>h. ASSUME engine'.at = "remove", engine'.verdict = "blocked"
      PROVE  OrderInv'
  BY <1>f, <1>h DEF Reviews
<1>i. ASSUME UNCHANGED plan, engine'.verdict = engine.verdict,
             engine'.at \in {"remove", "prune", "close"} <=>
               engine.at \in {"remove", "prune", "close"},
             engine'.at \in Reviews \ {"repair", "repairing"} => AllDone,
             engine'.at # "repair"
      PROVE  OrderInv'
  BY <1>e, <1>f, <1>i DEF OrderInv
<1>j. engine.at \in {"review", "list-integration", "reviewing", "inspect", "merge", "check"}
        => AllDone
  BY DEF OrderInv, Reviews
<1>1. CASE PlannerAnswers
  <2>1. engine.verdict = "blocked"
    BY <1>1, <1>a DEF PlannerAnswers, OrderInv, At
  <2>2. PICK raw \in setting.raws :
          \/ engine' = [engine EXCEPT !.at = "prepare", !.ultraUsed = UltraTasks(raw) # {}]
          \/ engine' = [engine EXCEPT !.answers = 1]
          \/ engine' = Failed(engine)
    BY <1>1 DEF PlannerAnswers
  <2>3. engine'.at \in {"plan", "prepare", "remove"} /\ engine'.verdict = "blocked"
    <3>1. /\ [engine EXCEPT !.answers = 1].at = engine.at
          /\ [engine EXCEPT !.answers = 1].verdict = engine.verdict
      BY <1>a
    <3>2. \A x : /\ [engine EXCEPT !.at = "prepare", !.ultraUsed = x].at = "prepare"
                 /\ [engine EXCEPT !.at = "prepare", !.ultraUsed = x].verdict = engine.verdict
      BY <1>a
    <3>3. engine.at = "plan"
      BY <1>1 DEF PlannerAnswers, At
    <3> QED
      <4>1. CASE engine' = [engine EXCEPT !.at = "prepare", !.ultraUsed = UltraTasks(raw) # {}]
        <5>1. engine'.at = "prepare" /\ engine'.verdict = engine.verdict
          BY <3>2, <4>1
        <5> QED
          BY <2>1, <5>1
      <4>2. CASE engine' = [engine EXCEPT !.answers = 1]
        BY <2>1, <3>1, <3>3, <4>2
      <4> QED
        BY <1>g, <2>2, <4>1, <4>2
  <2> QED
    BY <1>f, <2>3 DEF Reviews
<1>2. CASE PlannerFails
  BY <1>2, <1>g, <1>h DEF PlannerFails
<1>3. CASE AddTaskTree
  <2>1. CASE engine' = Failed(engine)
    BY <1>g, <1>h, <2>1
  <2>2. CASE engine' # Failed(engine)
    BY <1>3, <1>a, <1>i, <1>j, <2>2 DEF AddTaskTree, At, Reviews, taskVars, planVars
  <2> QED
    BY <2>1, <2>2
<1>4. CASE ListTaskTree
  BY <1>4, <1>a, <1>i, <1>j DEF ListTaskTree, At, Reviews, taskVars, planVars
<1>5. CASE ApproveUnreviewed
  BY <1>5, <1>a, <1>i, <1>j DEF ApproveUnreviewed, At, Reviews, taskVars, planVars
<1>6. CASE StartReview
  <2>1. CASE engine' = Failed(engine)
    BY <1>g, <1>h, <2>1
  <2>2. CASE engine' # Failed(engine)
    BY <1>6, <1>a, <1>i, <1>j, <2>2 DEF StartReview, At, Reviews, taskVars, planVars
  <2> QED
    BY <2>1, <2>2
<1>7. CASE ListIntegration
  BY <1>7, <1>a, <1>i, <1>j DEF ListIntegration, At, Reviews, taskVars, planVars
<1>8. CASE Approve
  BY <1>8, <1>a, <1>i, <1>j DEF Approve, At, Reviews, taskVars, planVars
<1>9. CASE Refuse
  BY <1>9, <1>g, <1>h DEF Refuse
<1>10. CASE AskRepair
  <2>1. PICK asked \in SUBSET TasksOf(plan) :
          \/ engine' = Failed(engine)
          \/ engine' = [engine EXCEPT !.at = "repair", !.todo = asked]
    BY <1>10, Zenon DEF AskRepair
  <2>2. AllDone /\ engine.verdict = "blocked" /\ UNCHANGED plan
    BY <1>10, <1>a, <1>j DEF AskRepair, At, OrderInv, taskVars, planVars
  <2>3. CASE engine' = [engine EXCEPT !.at = "repair", !.todo = asked]
    <3>1. engine'.at = "repair" /\ engine'.todo = asked /\ engine'.verdict = "blocked"
      BY <1>a, <2>2, <2>3
    <3>2. \A t \in asked : result'[t] = "success"
      BY <1>b, <2>2 DEF AllDone
    <3> QED
      BY <1>e, <1>f, <2>2, <3>1, <3>2 DEF Reviews
  <2> QED
    BY <1>g, <1>h, <2>1, <2>3
<1>11. CASE ReviewAgain
  <2>1. CASE engine.unrepaired
    BY <1>11, <1>g, <1>h, <2>1 DEF ReviewAgain
  <2>2. CASE ~engine.unrepaired
    <3>1. AllDone
      BY <1>11, <2>2 DEF ReviewAgain, OrderInv
    <3> QED
      BY <1>11, <1>a, <1>i, <2>2, <3>1 DEF ReviewAgain, At, Reviews, taskVars, planVars
  <2> QED
    BY <2>1, <2>2
<1>12. CASE InspectCheckout
  <2>1. \/ engine' = [engine EXCEPT !.at = "merge"]
        \/ engine' = [engine EXCEPT !.at = "check"]
        \/ engine' = Failed(engine)
        \/ engine' = Failed([engine EXCEPT !.protected = {Integration}])
    BY <1>12 DEF InspectCheckout, Inspection
  <2>2. /\ Failed([engine EXCEPT !.protected = {Integration}]).at = "remove"
        /\ Failed([engine EXCEPT !.protected = {Integration}]).verdict = "blocked"
    BY <1>a DEF Failed
  <2>3. CASE \/ engine' = [engine EXCEPT !.at = "merge"]
             \/ engine' = [engine EXCEPT !.at = "check"]
    <3>1. engine'.at \in {"merge", "check"} /\ engine'.verdict = engine.verdict
      BY <1>a, <2>3
    <3>2. engine.at = "inspect" /\ UNCHANGED plan
      BY <1>12 DEF InspectCheckout, At, taskVars, planVars
    <3> QED
      BY <1>i, <1>j, <3>1, <3>2
  <2> QED
    BY <1>g, <1>h, <2>1, <2>2, <2>3
<1>13. CASE Merge
  <2>1. CASE engine' = Failed(engine)
    BY <1>g, <1>h, <2>1
  <2>2. CASE engine' # Failed(engine)
    BY <1>13, <1>a, <1>i, <1>j, <2>2 DEF Merge, At, Reviews, taskVars, planVars
  <2> QED
    BY <2>1, <2>2
<1>14. CASE CheckDiff
  <2>1. CASE engine' = [engine EXCEPT !.at = "remove", !.verdict = "complete"]
    <3>1. engine'.at = "remove" /\ UNCHANGED plan /\ AllDone
      BY <1>14, <1>a, <1>j, <2>1 DEF CheckDiff, At, taskVars, planVars
    <3> QED
      BY <1>e, <1>f, <3>1
  <2> QED
    BY <1>14, <1>g, <1>h, <2>1 DEF CheckDiff
<1>15. CASE CleanTrees
  BY <1>15, <1>a, <1>i, <1>j DEF CleanTrees, At, Reviews, taskVars, planVars
<1>16. CASE Prune
  BY <1>16, <1>a, <1>i, <1>j DEF Prune, At, Reviews, taskVars, planVars
<1> QED
  BY <1>1, <1>2, <1>3, <1>4, <1>5, <1>6, <1>7, <1>8, <1>9, <1>10, <1>11, <1>12, <1>13, <1>14, <1>15, <1>16
  DEF CalmStep

\* The main thread at the start and the end of waves and repairs.
LEMMA MainOrder ==
  ASSUME TypeInv, AliveInv, LedgerInv, OrderInv, MainThread
  PROVE  OrderInv'
<1>a. /\ DOMAIN engine = {"at", "info", "answers", "wave", "todo", "ultraUsed", "pass",
                          "changed", "unrepaired", "protected", "verdict", "kept"}
      /\ engine.verdict \in {"complete", "blocked"} /\ engine.unrepaired \in BOOLEAN
      /\ engine.todo \subseteq Tasks
      /\ DOMAIN step = Tasks /\ DOMAIN run = Tasks
      /\ plan.deps \in [Tasks -> SUBSET Tasks]
      /\ TasksOf(plan) \subseteq Tasks
  BY DEF TypeInv, Engines, TasksTypeOK, PlanOK, TasksOf, TasksIn
<1>b. Failed(engine).at = "remove" /\ Failed(engine).verdict = "blocked"
  BY <1>a DEF Failed
<1>c. AliveInv'
  BY MainAlive
<1>d. ASSUME UNCHANGED <<plan, result, worker>> PROVE DependenciesFirst'
  BY <1>d DEF OrderInv, DependenciesFirst, Alive
<1>e. engine.at \notin {"remove", "prune", "close"} => engine.verdict = "blocked"
  BY <1>a DEF OrderInv
<1>f. ASSUME engine' = Failed(engine), UNCHANGED <<plan, result, worker>> PROVE OrderInv'
  BY <1>b, <1>d, <1>f DEF OrderInv, Reviews, At
<1>1. CASE CalmStep
  BY <1>1, CalmOrder
<1>2. CASE Open
  <2>1. engine'.at \in {"plan", "prepare"} /\ engine'.verdict = "blocked"
    BY <1>2, <1>a, <1>e DEF Open, At
  <2>2. DependenciesFirst'
    BY <1>c, <2>1, CalmDependencies DEF AliveInv, Calm, Leaving, Waiting, At, Busy, GivenUp
  <2> QED
    BY <2>1, <2>2 DEF OrderInv, Reviews, At
<1>3. CASE StartWave
  <2> DEFINE started == {t \in ToDo : ~Unmet(t)}
  <2>1. /\ engine'.at = "join" /\ engine'.verdict = "blocked" /\ engine'.todo = started
        /\ UNCHANGED <<plan, worker>>
        /\ \A t \in Tasks : result'[t] = IF t \in ToDo \ started THEN "blocked" ELSE result[t]
    BY <1>3, <1>a, <1>e DEF StartWave, At, planVars, workVars
  <2>2. \A t \in started : /\ t \in Tasks /\ t \in TasksOf(plan) /\ result[t] # "success"
                           /\ \A d \in plan.deps[t] : result[d] = "success"
    BY <1>a DEF ToDo, Unmet
  <2>3. \A t \in Tasks : /\ result[t] = "success" <=> result'[t] = "success"
                         /\ run'[t].round = 1
    <3>1. \A t \in ToDo : result[t] # "success"
      BY DEF ToDo
    <3>2. \A t \in Tasks : run'[t].round = 1
      BY <1>3 DEF StartWave, NoRun
    <3> QED
      BY <2>1, <3>1, <3>2
  <2>4. \A t \in started : Started(t)'
    BY <1>a, <2>1, <2>2, <2>3 DEF Started
  <2>5. \A t \in Tasks : ~Alive(t)'
    <3>1. Calm
      BY <1>3, CalmBefore DEF StartWave, At, CalmPlaces, Places, Leaving
    <3> QED
      BY <2>1, <3>1 DEF Calm, Alive
  <2> QED
    BY <2>1, <2>4, <2>5 DEF OrderInv, Reviews, At, DependenciesFirst
<1>4. CASE Join
  <2>1. UNCHANGED <<plan, result, worker>> /\ engine.verdict = "blocked"
    BY <1>4, <1>e DEF Join, At, planVars, filesVars, workVars
  <2>2. CASE NextWave
    <3>1. /\ engine'.at \in {"prepare", "review", "remove"}
          /\ engine'.verdict = "blocked"
          /\ engine'.at = "review" => AllDone
      <4>1. CASE engine' = [engine EXCEPT !.at = "prepare", !.wave = @ + 1, !.todo = {}]
        BY <1>a, <2>1, <4>1
      <4>2. CASE engine' = [engine EXCEPT !.at = "review", !.todo = {}] /\ AllDone
        BY <1>a, <2>1, <4>2
      <4> QED
        BY <1>b, <2>2, <4>1, <4>2 DEF NextWave, AllDone
    <3> QED
      BY <1>d, <2>1, <3>1 DEF OrderInv, Reviews, At, AllDone
  <2>3. CASE \E t \in Candidates :
            /\ engine' = [engine EXCEPT !.at = "ultra", !.todo = {t}, !.ultraUsed = TRUE]
            /\ run' = [run EXCEPT ![t] = [NoRun EXCEPT !.where = run[t].where,
                                                       !.single = TRUE]]
            /\ step' = [step EXCEPT ![t] = "entered"]
    <3>1. PICK t \in Candidates :
            /\ engine' = [engine EXCEPT !.at = "ultra", !.todo = {t}, !.ultraUsed = TRUE]
            /\ run' = [run EXCEPT ![t] = [NoRun EXCEPT !.where = run[t].where,
                                                       !.single = TRUE]]
            /\ step' = [step EXCEPT ![t] = "entered"]
      BY <2>3
    <3>2. t \in engine.todo /\ At("join") /\ result[t] = "coordination" /\ t \in Tasks
      BY <1>a DEF Candidates
    <3>3. /\ engine'.at = "ultra" /\ engine'.todo = {t} /\ engine'.verdict = "blocked"
      BY <1>a, <2>1, <3>1
    <3>4. run'[t].round = 1 /\ step'[t] = "entered"
      <4>1. [NoRun EXCEPT !.where = run[t].where, !.single = TRUE].round = 1
        BY DEF NoRun
      <4> QED
        BY <1>a, <3>1, <3>2, <4>1
    <3>5. Started(t)'
      BY <2>1, <3>2, <3>4 DEF OrderInv, Started
    <3> QED
      BY <1>d, <2>1, <3>3, <3>5 DEF OrderInv, Reviews, At
  <2> QED
    BY <1>4, <1>f, <2>1, <2>2, <2>3 DEF Join
<1>5. CASE StartRepair
  <2>0. Calm /\ engine.verdict = "blocked" /\ At("repair")
    BY <1>5, <1>e, CalmBefore DEF StartRepair, At, CalmPlaces, Places, Leaving
  <2>1. UNCHANGED <<plan, result, worker>>
    BY <1>5 DEF StartRepair, planVars, filesVars, workVars
  <2>2. \A u \in Tasks : ~Alive(u)'
    BY <2>0, <2>1 DEF Calm, Alive
  <2>3. PICK t \in engine.todo :
          \/ engine' = [engine EXCEPT !.todo = @ \ {t}, !.unrepaired = TRUE]
          \/ /\ engine' = [engine EXCEPT !.at = "repairing"]
             /\ run' = [r \in Tasks |->
                   IF r = t THEN [NoRun EXCEPT !.single = TRUE, !.round = 2,
                     !.where = IF t \in TaskTrees THEN "tree" ELSE "root"]
                   ELSE NoRun]
             /\ step' = [r \in Tasks |-> IF r = t THEN "entered" ELSE "idle"]
    BY <1>5 DEF StartRepair
  <2>4. CASE engine' = [engine EXCEPT !.todo = @ \ {t}, !.unrepaired = TRUE]
    <3>1. /\ engine'.at = "repair" /\ engine'.todo \subseteq engine.todo /\ engine'.unrepaired
          /\ engine'.verdict = "blocked"
      BY <1>a, <2>0, <2>4 DEF At
    <3> QED
      BY <2>0, <2>1, <2>2, <3>1 DEF OrderInv, Reviews, At, DependenciesFirst
  <2>5. CASE /\ engine' = [engine EXCEPT !.at = "repairing"]
             /\ run' = [r \in Tasks |->
                   IF r = t THEN [NoRun EXCEPT !.single = TRUE, !.round = 2,
                     !.where = IF t \in TaskTrees THEN "tree" ELSE "root"]
                   ELSE NoRun]
             /\ step' = [r \in Tasks |-> IF r = t THEN "entered" ELSE "idle"]
    <3>1. /\ engine'.at = "repairing" /\ engine'.todo = engine.todo
          /\ engine'.unrepaired = engine.unrepaired /\ engine'.verdict = "blocked"
      BY <1>a, <2>0, <2>5
    <3>2. \A u \in Tasks : Busy(u)' => run'[u].round = 2
      BY <2>5 DEF Busy, NoRun
    <3> QED
      BY <2>0, <2>1, <2>2, <3>1, <3>2 DEF OrderInv, Reviews, At, DependenciesFirst, AllDone
  <2> QED
    BY <2>3, <2>4, <2>5
<1>6. CASE EndRepair
  <2>1. /\ At("repairing") /\ engine.verdict = "blocked"
        /\ UNCHANGED <<plan, result, worker>>
    BY <1>6, <1>e DEF EndRepair, At, planVars, filesVars, workVars
  <2>2. PICK t \in engine.todo :
          /\ step[t] \in {"returned", "raised"}
          /\ \/ engine' = Failed(engine)
             \/ engine' = [engine EXCEPT !.at = "repair", !.todo = @ \ {t},
                             !.unrepaired = @ \/ result[t] # "success"]
    BY <1>6 DEF EndRepair
  <2>3. CASE engine' = [engine EXCEPT !.at = "repair", !.todo = @ \ {t},
                          !.unrepaired = @ \/ result[t] # "success"]
    <3>1. /\ engine'.at = "repair" /\ engine'.todo = engine.todo \ {t}
          /\ engine'.unrepaired = (engine.unrepaired \/ result[t] # "success")
          /\ engine'.verdict = "blocked"
      BY <1>a, <2>1, <2>3
    <3>2. \A u \in Tasks \ {t} : step[u] = "idle"
      BY <1>a, <2>1, <2>2 DEF AliveInv
    <3>3. \A u \in engine'.todo : result'[u] = "success"
      BY <1>a, <2>1, <3>1, <3>2 DEF OrderInv
    <3>4. engine'.unrepaired \/ AllDone'
      BY <1>a, <2>1, <3>1, <3>2 DEF OrderInv, AllDone
    <3> QED
      BY <1>d, <2>1, <3>1, <3>3, <3>4 DEF OrderInv, Reviews, At
  <2> QED
    BY <1>f, <2>1, <2>2, <2>3
<1>7. CASE Close
  <2>1. /\ engine'.at = "off" /\ engine'.verdict = "blocked"
        /\ UNCHANGED <<plan, result, worker>>
    BY <1>7 DEF Close, EngineOff, planVars, filesVars, workVars
  <2> QED
    BY <1>d, <2>1 DEF OrderInv, Reviews, At
<1> QED
  BY <1>1, <1>2, <1>3, <1>4, <1>5, <1>6, <1>7 DEF MainThread, CalmStep

\* What a thread makes of the result of its task.
LEMMA ThreadResult ==
  ASSUME TypeInv, NEW t \in Tasks, RunTask(t), TaskLedger(t)
  PROVE  /\ \/ result'[t] = result[t]
            \/ Keep(t) /\ result'[t] = "success" /\ step[t] = "keep" /\ step'[t] = "mark"
            \/ /\ result'[t] # "success" /\ step'[t] = "returned"
               /\ step[t] \in {"drop", "entered"}
               /\ result' = [result EXCEPT ![t] = result'[t]]
         /\ run'[t].round = run[t].round
         /\ Busy(t)' /\ step'[t] \notin {"mark", "settle"} => step[t] \notin {"mark", "settle"}
         /\ Busy(t) \/ (step[t] = "raised" /\ UNCHANGED <<result, run, step, worker>>)
         /\ Alive(t)' /\ step'[t] = "raised" => UNCHANGED <<result, worker>>
<1>a. /\ DOMAIN result = Tasks /\ DOMAIN run = Tasks /\ DOMAIN step = Tasks
      /\ DOMAIN worker = Tasks /\ NoWorker.state = "none"
      /\ {"round", "attempt", "outcome", "session", "resume", "settles"} \subseteq DOMAIN run[t]
  BY DEF TypeInv, TasksTypeOK, Runs, NoWorker
<1> USE DEF Fetch, filesVars, workVars, Busy, Alive
<1>1. CASE RecoverExternalAction(t)
  BY <1>a, <1>1 DEF RecoverExternalAction
<1>2. CASE BeginAttempt(t)
  BY <1>a, <1>2 DEF BeginAttempt
<1>3. CASE RecordStart(t)
  BY <1>a, <1>3 DEF RecordStart
<1>4. CASE Spawn(t)
  BY <1>a, <1>4 DEF Spawn
<1>5. CASE SpawnFails(t)
  BY <1>a, <1>5 DEF SpawnFails
<1>6. CASE Register(t)
  BY <1>a, <1>6 DEF Register
<1>7. CASE Prompt(t)
  BY <1>a, <1>7 DEF Prompt
<1>8. CASE SaveSession(t)
  BY <1>a, <1>8 DEF SaveSession
<1>9. CASE Collect(t)
  BY <1>a, <1>9 DEF Collect, Judge
<1>10. CASE Timeout(t)
  BY <1>a, <1>10 DEF Timeout, Judge
<1>11. CASE Interrupt(t)
  BY <1>a, <1>11 DEF Interrupt
<1>12. CASE Reconcile(t)
  BY <1>a, <1>12 DEF Reconcile
<1>13. CASE Keep(t)
  BY <1>a, <1>13 DEF Keep
<1>14. CASE Mark(t)
  BY <1>a, <1>14 DEF Mark
<1>15. CASE Settle(t)
  BY <1>a, <1>15 DEF Settle
<1>16. CASE Drop(t)
  BY <1>a, <1>16 DEF Drop, TaskLedger
<1>17. CASE PromptFails(t)
  BY <1>a, <1>17 DEF PromptFails
<1>18. CASE OutlivesSignals(t)
  BY <1>a, <1>18 DEF OutlivesSignals
<1> QED
  BY <1>1, <1>2, <1>3, <1>4, <1>5, <1>6, <1>7, <1>8, <1>9, <1>10, <1>11, <1>12, <1>13, <1>14, <1>15, <1>16, <1>17, <1>18
  DEF RunTask

\* A step of the thread of a task keeps OrderInv.
LEMMA ThreadOrder ==
  ASSUME TypeInv, AliveInv, LedgerInv, OrderInv, NEW t \in Tasks, TaskThread(t),
         AliveInv', LedgerInv'
  PROVE  OrderInv'
<1>a. /\ TasksTypeOK /\ engine.todo \subseteq Tasks /\ TasksOf(plan) \subseteq Tasks
      /\ plan.deps \in [Tasks -> SUBSET Tasks]
  BY DEF TypeInv, Engines, TasksOf, TasksIn, PlanOK
<1>0. RunTask(t) /\ UNCHANGED engine /\ TaskLedger(t)
  BY DEF TaskThread, LedgerInv
<1>1. /\ \/ result'[t] = result[t]
         \/ result'[t] = "success" /\ step[t] = "keep" /\ step'[t] = "mark"
         \/ result'[t] # "success" /\ step'[t] = "returned" /\ step[t] \in {"drop", "entered"}
      /\ run'[t].round = run[t].round
      /\ Busy(t)' /\ step'[t] \notin {"mark", "settle"} => step[t] \notin {"mark", "settle"}
      /\ Busy(t) \/ (step[t] = "raised" /\ UNCHANGED <<result, run, step, worker>>)
      /\ Alive(t)' /\ step'[t] = "raised" => UNCHANGED <<result, worker>>
  BY <1>0, ThreadResult
<1>2. \A u \in Tasks \ {t} : /\ result'[u] = result[u] /\ run'[u] = run[u]
                             /\ step'[u] = step[u] /\ worker'[u] = worker[u]
  BY <1>0, <1>a, ThreadFrame
<1>3. UNCHANGED plan
  BY <1>0 DEF RunTask, planVars, RecoverExternalAction, BeginAttempt, RecordStart,
    Spawn, SpawnFails, Register, Prompt, SaveSession, Collect, Timeout, Interrupt,
    Reconcile, Keep, Mark, Settle, Drop, PromptFails, OutlivesSignals
<1>4. CASE ~Busy(t)
  <2>1. UNCHANGED <<engine, plan, result, run, step, worker>>
    BY <1>0, <1>1, <1>3, <1>4
  <2> QED
    BY <2>1 DEF OrderInv, At, Reviews, AllDone, Started, Busy, DependenciesFirst, Alive
<1>b. ASSUME Busy(t) PROVE Waiting /\ t \in engine.todo
  BY <1>b DEF AliveInv
<1>5. ASSUME Busy(t)
      PROVE  /\ Alive(t)' => step'[t] = "wait" \/ UNCHANGED <<result, worker>>
             /\ step'[t] = "wait" => worker'[t].round = run'[t].round
  BY <1>0, <1>1, <1>5, <1>b DEF AliveInv, LedgerInv, TaskLedger, Waiting, At, GivenUp
<1>6. CASE Busy(t) /\ (At("join") \/ At("ultra"))
  <2>1. \A u \in engine.todo : Started(u)
    BY <1>6 DEF OrderInv
  <2>2. step[t] \in {"drop", "entered"} => result[t] # "success"
    BY <1>1, <1>6, <1>b, <2>1 DEF Started
  <2>3. \A d \in Tasks : result[d] = "success" => result'[d] = "success"
    BY <1>1, <1>2, <2>2
  <2>4. \A u \in engine.todo : Started(u)'
    <3> SUFFICES ASSUME NEW u \in engine.todo PROVE Started(u)'
      OBVIOUS
    <3>1. \A d \in plan.deps[u] : result'[d] = "success"
      BY <1>a, <2>1, <2>3 DEF Started
    <3>2. CASE u # t
      BY <1>a, <1>2, <1>3, <2>1, <3>1, <3>2 DEF Started, Busy
    <3>3. CASE u = t
      <4>1. Busy(t)' /\ step'[t] \notin {"mark", "settle"} => result'[t] # "success"
        BY <1>1, <1>6, <1>b, <2>1 DEF Started, Busy
      <4> QED
        BY <1>1, <1>3, <2>1, <3>1, <3>3, <4>1 DEF Started
    <3> QED
      BY <3>2, <3>3
  <2>5. DependenciesFirst'
    <3> SUFFICES ASSUME NEW u \in Tasks, Alive(u)', worker'[u].round = 1
                 PROVE  \A d \in plan.deps[u] : result'[d] = "success"
      BY <1>3 DEF DependenciesFirst
    <3>1. CASE u = t
      BY <1>3, <1>6, <1>b, <2>4, <3>1 DEF Started
    <3>2. CASE u # t
      BY <1>2, <1>3, <1>a, <2>3, <3>2 DEF OrderInv, DependenciesFirst, Alive
    <3> QED
      BY <3>1, <3>2
  <2> QED
    BY <1>0, <1>6, <2>4, <2>5 DEF OrderInv, Reviews, At
<1>7. CASE Busy(t) /\ At("repairing")
  <2>1. \A u \in Tasks \ {t} : step[u] = "idle" /\ step'[u] = "idle"
    BY <1>1, <1>2, <1>7 DEF AliveInv, Busy
  <2>2. result[t] = "success"
    BY <1>1, <1>7, <1>b DEF OrderInv, Busy
  <2>3. result'[t] = "success" \/ step'[t] = "returned"
    BY <1>1, <2>2
  <2>4. \A u \in Tasks : Busy(u)' => run'[u].round = 2
    BY <1>1, <1>7, <2>1 DEF OrderInv, Busy
  <2>5. DependenciesFirst'
    <3>1. \A u \in Tasks \ {t} : ~Alive(u)'
      BY <1>2, <1>7, <2>1 DEF AliveInv, Alive, At, GivenUp
    <3>2. CASE Alive(t)' /\ step'[t] = "wait"
      BY <1>5, <1>7, <2>4, <3>1, <3>2 DEF DependenciesFirst, Busy
    <3>3. CASE UNCHANGED <<result, worker>>
      BY <1>3, <3>3 DEF OrderInv, DependenciesFirst, Alive
    <3> QED
      BY <1>5, <1>7, <3>1, <3>2, <3>3 DEF DependenciesFirst
  <2>6. \A u \in Tasks : result[u] = "success" \/ step[u] = "returned"
                           => result'[u] = "success" \/ step'[u] = "returned"
    BY <1>2, <2>3
  <2> QED
    BY <1>0, <1>3, <1>7, <1>a, <2>4, <2>5, <2>6 DEF OrderInv, Reviews, At
<1> QED
  BY <1>4, <1>6, <1>7, <1>b DEF Waiting

\* Every step of the system keeps OrderInv.
LEMMA StepOrder ==
  ASSUME TypeInv, AliveInv, LedgerInv, OrderInv, [Next]_vars
  PROVE  OrderInv'
<1>a. TasksTypeOK
  BY DEF TypeInv
<1>b. ASSUME UNCHANGED <<plan, result, run, step>>,
             \/ UNCHANGED engine
             \/ engine'.at \in {"off", "recover"} /\ engine'.verdict = "blocked",
             \A t \in Tasks : Alive(t)' => Alive(t) /\ worker'[t].round = worker[t].round
      PROVE  OrderInv'
  BY <1>b DEF OrderInv, At, Reviews, AllDone, Started, Busy, DependenciesFirst
<1>1. CASE Launch
  BY <1>1, <1>b DEF Launch, EngineOff, taskVars, planVars, filesVars, workVars, Alive
<1>2. CASE MainThread
  BY <1>2, MainOrder
<1>3. CASE ReviewerMerges \/ UserActs \/ Over \/ UNCHANGED vars
  BY <1>3, <1>b DEF ReviewerMerges, UserActs, Over, vars, taskVars, planVars, filesVars,
    workVars, Alive
<1>4. CASE Crash
  <2>1. /\ UNCHANGED <<plan, result>> /\ engine'.at = "off" /\ engine'.verdict = "blocked"
    BY <1>4 DEF Crash, ThreadsDie, EngineOff, planVars, filesVars
  <2>2. \A t \in Tasks : Alive(t)' => Alive(t) /\ worker'[t] = worker[t]
    BY <1>4 DEF Crash, ThreadsDie, Alive, NoWorker
  <2> QED
    BY <2>1, <2>2 DEF OrderInv, At, Reviews, DependenciesFirst
<1>5. ASSUME NEW t \in Tasks, RecoverOrphan(t)
      PROVE  OrderInv'
  <2>1. /\ UNCHANGED <<plan, result, run, step, engine>>
        /\ worker' = [worker EXCEPT ![t] = NoWorker]
    BY <1>5 DEF RecoverOrphan, ReconcileOrphan, planVars
  <2>2. \A u \in Tasks : Alive(u)' => Alive(u) /\ worker'[u].round = worker[u].round
    BY <1>a, <2>1 DEF Alive, NoWorker, TasksTypeOK
  <2> QED
    BY <1>b, <2>1, <2>2
<1>6. ASSUME NEW t \in Tasks, TaskThread(t)
      PROVE  OrderInv'
  BY <1>6, StepAlive, StepLedger, ThreadOrder
<1>7. ASSUME NEW t \in Tasks, WorkerProcess(t)
      PROVE  OrderInv'
  <2>1. /\ UNCHANGED <<plan, result, run, step, engine>>
        /\ Alive(t)' => Alive(t)
        /\ worker'[t].round = worker[t].round
        /\ \A u \in Tasks \ {t} : worker'[u] = worker[u]
    BY <1>7, <1>a, WorkerFrame DEF WorkerProcess, planVars
  <2> QED
    BY <1>b, <2>1 DEF Alive
<1> QED
  BY <1>1, <1>2, <1>3, <1>4, <1>5, <1>6, <1>7 DEF Next

\* A new job has no results and no workers.
LEMMA InitOrder == Init => OrderInv
BY DEF Init, EngineOff, TasksInit, NoWorker, OrderInv, At, Reviews, DependenciesFirst, Alive

-----------------------------------------------------------------------------
(* The refinement.                                                         *)

\* What WorkPromise sees of a job.
Accepted == {t \in Tasks : result[t] = "success"}

Landed == \E c \in repo.head : c[1] \in Tasks

Seen == <<TasksOf(plan), plan.deps, Accepted, Landed, job>>

PromiseInv == WorkInv /\ OrderInv

\* The start of the job is a start of the promise.
LEMMA InitPromise == Init => Promise!Init
<1> SUFFICES ASSUME Init PROVE Promise!Init
  OBVIOUS
<1>1. TasksOf(plan) = {}
  BY DEF Init, NoPlan, TasksOf, TasksIn
<1>2. Accepted = {}
  BY DEF Init, TasksInit, Accepted
<1>3. Landed = FALSE
  BY DEF Init, WorkspaceInit, Landed
<1> QED
  BY <1>1, <1>2, <1>3 DEF Init, NoPlan, Promise!Init, Accepted, Landed

\* The checkout gets work of the job only from the merge.
LEMMA LandsByMerge ==
  ASSUME TypeInv, [Next]_vars, ~Merge
  PROVE  Landed' <=> Landed
<1>a. DOMAIN repo = {"head", "dirty"}
  BY DEF TypeInv, WorkspaceTypeOK
<1>b. UNCHANGED repo.head => (Landed' <=> Landed)
  BY DEF Landed
<1>c. EditRoot => UNCHANGED repo.head
  BY <1>a DEF EditRoot
<1>1. CASE UserActs
  <2>1. CASE UserCommits
    <3>1. repo'.head = repo.head \cup {<<User, 1>>}
      BY <2>1 DEF UserCommits
    <3> QED
      BY <3>1, AuthorsAssumption DEF Landed
  <2> QED
    BY <1>1, <1>b, <1>c, <2>1 DEF UserActs, UserEdits
<1>2. ASSUME NEW t \in Tasks, WorkerProcess(t)
      PROVE  UNCHANGED repo.head
  BY <1>2, <1>c DEF WorkerProcess, RunWorker, Heed, Announce, Work, Exit, StrayWorks,
    StrayExits, WorkOf, EditIn, CommitIn, workspaceVars
<1>3. ASSUME NEW t \in Tasks, TaskThread(t)
      PROVE  UNCHANGED repo
  BY <1>3 DEF TaskThread, RunTask, RecoverExternalAction, BeginAttempt, RecordStart,
      Spawn, SpawnFails, Register, Prompt, SaveSession, Collect, Timeout, Interrupt,
      Reconcile, Keep, Mark, Settle, Drop, PromptFails, OutlivesSignals, workspaceVars
<1>4. MainThread => UNCHANGED repo
  BY DEF MainThread, Open, PlannerAnswers, PlannerFails, AddTaskTree, ListTaskTree,
    StartWave, Join, ApproveUnreviewed, StartReview, ListIntegration, Approve, Refuse,
    AskRepair, StartRepair, EndRepair, ReviewAgain, InspectCheckout, CheckDiff,
    CleanTrees, Prune, Close, AddTree, ListTree, RemoveTrees, DeleteBranches, workspaceVars
<1> QED
  BY <1>b, <1>1, <1>2, <1>3, <1>4
  DEF Next, Launch, ReviewerMerges, CommitIn, EditIn, Crash, Over, RecoverOrphan,
      ReconcileOrphan, vars, workspaceVars

\* The main thread makes the plan, lands the work and ends the job.
LEMMA MainKeepsPromise ==
  ASSUME PromiseInv, MainThread
  PROVE  Promise!Next \/ UNCHANGED Seen
<1>a. /\ TypeInv /\ AliveInv /\ LedgerInv /\ OrderInv
      /\ engine.verdict \in {"complete", "blocked"}
      /\ TasksOf(plan) \subseteq Tasks /\ TasksOf(plan') \subseteq Tasks
      /\ DOMAIN repo = {"head", "dirty"}
  BY DEF PromiseInv, WorkInv, TypeInv, Engines, TasksOf, TasksIn, WorkspaceTypeOK
<1>b. ~Merge => (Landed' <=> Landed)
  BY <1>a, LandsByMerge DEF Next
<1>c. ASSUME UNCHANGED <<plan, result, job>>, Landed' <=> Landed
      PROVE  UNCHANGED Seen
  BY <1>c DEF Seen, Accepted, Landed
<1>d. AllDone => TasksOf(plan) \subseteq Accepted
  BY <1>a DEF AllDone, Accepted
<1>1. CASE PlannerAnswers
  <2>1. /\ plan = NoPlan /\ job = "open" /\ UNCHANGED <<result, job>>
        /\ ~Merge
    BY <1>1, <1>a DEF PlannerAnswers, LedgerInv, AliveInv, At, filesVars, Merge
  <2>2. TasksOf(plan) = {}
    BY <2>1 DEF NoPlan, TasksOf, TasksIn
  <2>3. plan'.deps \in [Tasks -> SUBSET Tasks]
    BY <1>1, <1>a, PlannerType DEF PlanOK
  <2>4. Accepted' = Accepted /\ (Landed' <=> Landed)
    BY <1>b, <2>1 DEF Accepted
  <2>5. Promise!MakePlan
    BY <1>a, <2>1, <2>2, <2>3, <2>4 DEF Promise!MakePlan, Accepted, Landed
  <2> QED
    BY <2>5 DEF Promise!Next
<1>2. CASE Merge
  <2>1. UNCHANGED <<plan, result, job>> /\ job = "open" /\ AllDone
    BY <1>2, <1>a DEF Merge, taskVars, planVars, filesVars, AliveInv, OrderInv, Reviews, At
  <2>2. repo.head \subseteq repo'.head
    BY <1>2, <1>a DEF Merge, MergeIntegration, CanMerge, workspaceVars
  <2>3. Landed => Landed'
    BY <2>2 DEF Landed
  <2>4. CASE Landed' <=> Landed
    BY <1>c, <2>1, <2>4
  <2>5. CASE Landed' = TRUE
    <3>1. Promise!Land
      BY <1>d, <2>1, <2>5 DEF Promise!Land, Accepted, Landed
    <3> QED
      BY <3>1 DEF Promise!Next
  <2> QED
    BY <2>3, <2>4, <2>5 DEF Landed
<1>3. CASE Close
  <2>1. /\ UNCHANGED <<plan, result>> /\ job = "open" /\ job' \in {"complete", "blocked"}
        /\ job' = "complete" => AllDone
    BY <1>3, <1>a DEF Close, planVars, filesVars, AliveInv, OrderInv, At
  <2>2. Accepted' = Accepted /\ (Landed' <=> Landed)
    BY <1>3, <1>b, <2>1 DEF Accepted, Close, Merge, At
  <2>3. Promise!End
    BY <1>d, <2>1, <2>2 DEF Promise!End, Accepted, Landed
  <2> QED
    BY <2>3 DEF Promise!Next
<1>4. CASE Open
  <2>1. UNCHANGED <<plan, job>> /\ Accepted' = Accepted /\ ~Merge
    BY <1>4 DEF Open, planVars, Accepted, Merge, At
  <2> QED
    BY <1>b, <2>1 DEF Seen, Landed
<1>5. CASE StartWave
  <2>1. UNCHANGED <<plan, job>> /\ Accepted' = Accepted /\ ~Merge
    BY <1>5 DEF StartWave, planVars, Accepted, ToDo, Merge, At
  <2> QED
    BY <1>b, <2>1 DEF Seen, Landed
<1>6. CASE ~PlannerAnswers /\ ~Merge /\ ~Close /\ ~Open /\ ~StartWave
  <2>1. UNCHANGED <<plan, result, job>>
    BY <1>6 DEF MainThread, PlannerFails, AddTaskTree, ListTaskTree, Join,
      ApproveUnreviewed, StartReview, ListIntegration, Approve, Refuse, AskRepair,
      StartRepair, EndRepair, ReviewAgain, InspectCheckout, CheckDiff, CleanTrees,
      Prune, taskVars, planVars, filesVars
  <2> QED
    BY <1>b, <1>c, <1>6, <2>1
<1> QED
  BY <1>1, <1>2, <1>3, <1>4, <1>5, <1>6

\* The threads accept tasks, and withdraw those whose repair has failed.
LEMMA ThreadKeepsPromise ==
  ASSUME PromiseInv, NEW t \in Tasks, TaskThread(t)
  PROVE  Promise!Next \/ UNCHANGED Seen
<1>a. /\ TypeInv /\ AliveInv /\ LedgerInv /\ OrderInv /\ TasksTypeOK
      /\ RunTask(t) /\ UNCHANGED <<job, engine>> /\ TaskLedger(t)
      /\ engine.todo \subseteq Tasks
  BY DEF PromiseInv, WorkInv, TypeInv, TaskThread, LedgerInv, Engines
<1>b. /\ UNCHANGED plan
      /\ UNCHANGED repo
  BY <1>a DEF RunTask, planVars, workspaceVars, RecoverExternalAction, BeginAttempt,
    RecordStart, Spawn, SpawnFails, Register, Prompt, SaveSession, Collect, Timeout,
    Interrupt, Reconcile, Keep, Mark, Settle, Drop, PromptFails, OutlivesSignals
<1>c. \A u \in Tasks \ {t} : result'[u] = result[u]
  BY <1>a, ThreadFrame
<1>d. UNCHANGED result \/ (Busy(t) /\ Waiting /\ t \in engine.todo /\ job = "open")
  BY <1>a, ThreadResult DEF AliveInv, Waiting, At
<1>e. Landed' <=> Landed
  BY <1>b DEF Landed
<1>1. CASE result'[t] = "success" <=> result[t] = "success"
  <2>1. Accepted' = Accepted
    BY <1>c, <1>1 DEF Accepted
  <2> QED
    BY <1>a, <1>b, <1>e, <2>1 DEF Seen, Landed
<1>2. CASE result'[t] # "success" /\ result[t] = "success"
  <2>1. Accepted' = Accepted \ {t}
    BY <1>c, <1>2 DEF Accepted
  <2>2. Promise!Withdraw(t)
    BY <1>2, <1>a, <1>b, <1>d, <1>e, <2>1 DEF Promise!Withdraw, Accepted, Landed
  <2> QED
    BY <2>2 DEF Promise!Next
<1>3. CASE result'[t] = "success" /\ result[t] # "success"
  <2>1. Accepted' = Accepted \cup {t}
    BY <1>c, <1>3 DEF Accepted
  <2>2. step[t] = "keep"
    BY <1>3, <1>a, ThreadResult
  <2>3. Started(t)
    BY <1>3, <1>a, <1>d, <2>2 DEF Waiting, OrderInv
  <2>4. t \in TasksOf(plan) /\ plan.deps[t] \subseteq Accepted
    <3>1. plan.deps[t] \subseteq Tasks
      BY <1>a DEF TypeInv, PlanOK
    <3> QED
      BY <2>3, <3>1 DEF Started, Accepted
  <2>5. Promise!Accept(t)
    BY <1>3, <1>a, <1>b, <1>d, <1>e, <2>1, <2>4 DEF Promise!Accept, Accepted, Landed
  <2> QED
    BY <2>5 DEF Promise!Next
<1> QED
  BY <1>1, <1>2, <1>3

\* Every step of the system is one of the promise, or shows nothing.
LEMMA StepPromise ==
  ASSUME PromiseInv, [Next]_vars
  PROVE  Promise!Next \/ UNCHANGED Seen
<1>a. TypeInv /\ TasksTypeOK
  BY DEF PromiseInv, WorkInv, TypeInv
<1>1. CASE MainThread
  BY <1>1, MainKeepsPromise
<1>2. ASSUME NEW t \in Tasks, TaskThread(t) PROVE Promise!Next \/ UNCHANGED Seen
  BY <1>2, ThreadKeepsPromise
<1>3. ASSUME UNCHANGED <<plan, result, job>>, ~Merge PROVE UNCHANGED Seen
  <2>1. Landed' <=> Landed
    BY <1>3, <1>a, LandsByMerge
  <2> QED
    BY <1>3, <2>1 DEF Seen, Accepted, Landed
<1>4. CASE Launch \/ ReviewerMerges \/ Crash \/ UserActs \/ Over \/ UNCHANGED vars
           \/ \E t \in Tasks : RecoverOrphan(t) \/ WorkerProcess(t)
  <2>1. UNCHANGED <<plan, result, job>>
    BY <1>4, <1>a, WorkerFrame DEF Launch, ReviewerMerges, Crash, ThreadsDie, UserActs, Over,
      vars, RecoverOrphan, ReconcileOrphan, WorkerProcess, taskVars, planVars, filesVars
  <2> QED
    BY <1>1, <1>3, <2>1 DEF MainThread
<1> QED
  BY <1>1, <1>2, <1>4 DEF Next

\* What the proofs of this module need of a state, in every state.
LEMMA PromiseInvariant == Spec => []PromiseInv
<1>1. Init => PromiseInv
  BY InitType, InitAlive, InitLedger, InitOrder DEF PromiseInv, WorkInv
<1>2. PromiseInv /\ [Next]_vars => PromiseInv'
  BY StepType, StepAlive, StepLedger, StepOrder DEF PromiseInv, WorkInv
<1> QED
  BY <1>1, <1>2, PTL DEF Spec

\* A worker is at work on a task only when all that the task depends on has
\* succeeded, in this engine or in one that was killed (_execute_plan).
THEOREM DependenciesComeFirst == Spec => []DependenciesFirst
<1>1. PromiseInv => DependenciesFirst
  BY DEF PromiseInv, OrderInv
<1> QED
  BY <1>1, PromiseInvariant, PTL

\* JobWork implements WorkPromise: the engine, its threads, their workers, the
\* user and any number of crashes keep together the promise of the job.
THEOREM WorkIsPromised == Spec => KeepsPromise
<1>1. Init => Promise!Init
  BY InitPromise
<1>2. PromiseInv /\ [Next]_vars => [Promise!Next]_(Promise!vars)
  <2>1. UNCHANGED Seen => UNCHANGED Promise!vars
    BY DEF Seen, Accepted, Landed, Promise!vars
  <2> QED
    BY <2>1, StepPromise
<1> QED
  BY <1>1, <1>2, PromiseInvariant, PTL DEF Spec, KeepsPromise, Promise!Spec

-----------------------------------------------------------------------------
(* What lands, and what is kept.                                           *)

\* The places of the main thread before there are branches to be reviewed.
Early == {"off", "recover", "plan", "prepare", "list", "join", "ultra", "review"}

\* The branches the reviewer is shown are those of worktrees that exist; once it
\* has approved them the integration contains them, and then the checkout.
LandInv ==
  /\ engine.at \in Early => engine.changed = {}
  /\ engine.at \in {"list-integration", "reviewing", "repair", "repairing"}
       => engine.changed \subseteq TaskTrees
  /\ engine.at \in {"inspect", "merge"} => Offered \subseteq tree[Integration].head
  /\ At("check") => Offered \subseteq repo.head
  /\ ApprovedIsLanded

\* A worktree with edits exists, and one that exists has its branch.
TreeInv == WorkKept /\ \A t \in Tasks : tree[t].path => tree[t].branch

\* What is offered depends on the heads of the task branches only.
LEMMA OfferedSame ==
  ASSUME engine'.changed = engine.changed, engine.changed \subseteq Tasks,
         \A t \in Tasks : tree'[t].head = tree[t].head
  PROVE  Offered' = Offered
BY DEF Offered

\* A job that has nothing to land, or is given up, lands nothing.
LEMMA LandTrivially ==
  /\ engine'.changed = {} => LandInv'
  /\ engine'.at = "remove" /\ engine'.verdict = "blocked" => LandInv'
BY DEF LandInv, Offered, ApprovedIsLanded, At, Early

\* The main thread keeps LandInv: what it merges is what the reviewer approved.
LEMMA MainLands ==
  ASSUME PromiseInv, LandInv, MainThread
  PROVE  LandInv'
<1>a. /\ DOMAIN engine = {"at", "info", "answers", "wave", "todo", "ultraUsed", "pass",
                          "changed", "unrepaired", "protected", "verdict", "kept"}
      /\ engine.verdict \in {"complete", "blocked"}
      /\ engine.changed \subseteq Tasks /\ Integration \notin Tasks
      /\ DOMAIN tree = Trees /\ Tasks \subseteq Trees /\ Integration \in Trees
      /\ \A x \in Trees : DOMAIN tree[x] = {"path", "branch", "listed", "dirty", "head", "base"}
  BY AuthorsAssumption DEF PromiseInv, WorkInv, TypeInv, Engines, WorkspaceTypeOK, Trees
<1>b. Failed(engine).at = "remove" /\ Failed(engine).verdict = "blocked"
  BY <1>a DEF Failed
<1>c. engine' = Failed(engine) => LandInv'
  BY <1>b, LandTrivially
<1>d. engine.at \notin {"remove", "prune", "close"} => engine.verdict = "blocked"
  BY <1>a DEF PromiseInv, OrderInv
<1>e. ASSUME UNCHANGED workspaceVars, engine'.changed = engine.changed
      PROVE  Offered' = Offered /\ TaskTrees' = TaskTrees
  BY <1>e DEF workspaceVars, Offered, TaskTrees, Usable
<1>f. ASSUME UNCHANGED workspaceVars, engine'.changed = engine.changed,
             engine.at \in {"reviewing", "repair", "repairing"},
             engine'.at \in {"reviewing", "repair", "repairing"},
             engine'.verdict = "blocked"
      PROVE  LandInv'
  BY <1>e, <1>f DEF LandInv, ApprovedIsLanded, At, Early
<1>g. engine.at \in Early /\ engine'.changed = engine.changed => LandInv'
  BY LandTrivially DEF LandInv
<1>1. CASE Open \/ Close
  <2>1. CASE Open
    <3>1. engine.at = "recover" /\ engine'.changed = engine.changed
      BY <2>1, <1>a DEF Open, At
    <3> QED
      BY <1>g, <3>1 DEF Early
  <2>2. CASE Close
    <3>1. engine'.changed = {}
      BY <2>2 DEF Close, EngineOff
    <3> QED
      BY <3>1, LandTrivially
  <2> QED
    BY <1>1, <2>1, <2>2
<1>2. CASE PlannerAnswers
  <2>1. PICK raw \in setting.raws :
          \/ engine' = [engine EXCEPT !.at = "prepare", !.ultraUsed = UltraTasks(raw) # {}]
          \/ engine' = [engine EXCEPT !.answers = 1]
          \/ engine' = Failed(engine)
    BY <1>2 DEF PlannerAnswers
  <2>2. engine.at \in Early
    BY <1>2 DEF PlannerAnswers, At, Early
  <2>3. CASE engine' = [engine EXCEPT !.at = "prepare", !.ultraUsed = UltraTasks(raw) # {}]
    BY <1>a, <1>g, <2>2, <2>3
  <2>4. CASE engine' = [engine EXCEPT !.answers = 1]
    BY <1>a, <1>g, <2>2, <2>4
  <2> QED
    BY <1>c, <2>1, <2>3, <2>4
<1>3. CASE PlannerFails \/ Refuse
  BY <1>3, <1>c DEF PlannerFails, Refuse
<1>4. CASE AddTaskTree \/ ListTaskTree \/ ApproveUnreviewed
  <2>1. engine.at \in Early
    BY <1>4 DEF AddTaskTree, ListTaskTree, ApproveUnreviewed, At, Early
  <2>2. engine'.changed = engine.changed \/ engine' = Failed(engine)
    BY <1>4, <1>a DEF AddTaskTree, ListTaskTree, ApproveUnreviewed
  <2> QED
    BY <1>c, <1>g, <2>1, <2>2
<1>5. CASE StartWave \/ Join
  <2>1. engine.at \in Early
    BY <1>5 DEF StartWave, Join, At, Early
  <2>2. engine'.changed = engine.changed \/ engine' = Failed(engine)
    <3>1. CASE StartWave
      BY <3>1, <1>a DEF StartWave
    <3>2. CASE Join
      <4>1. \/ engine' = Failed(engine)
            \/ \E t \in Candidates :
                 engine' = [engine EXCEPT !.at = "ultra", !.todo = {t}, !.ultraUsed = TRUE]
            \/ NextWave
        BY <3>2 DEF Join
      <4> QED
        BY <1>a, <4>1 DEF NextWave
    <3> QED
      BY <1>5, <3>1, <3>2
  <2> QED
    BY <1>c, <1>g, <2>1, <2>2
<1>6. CASE StartReview
  <2>1. CASE /\ engine'.at \in {"reviewing", "list-integration"} /\ engine'.changed = Changed
             /\ engine'.verdict = engine.verdict
             /\ UNCHANGED workspaceVars \/ AddTree(Integration, engine.info)
    <3>1. \A t \in Tasks : tree'[t] = tree[t]
      BY <1>a, <2>1 DEF AddTree, workspaceVars
    <3>2. TaskTrees' = TaskTrees /\ Changed \subseteq TaskTrees
      BY <3>1 DEF TaskTrees, Usable, Changed
    <3>3. engine.verdict = "blocked"
      BY <1>6, <1>d DEF StartReview, At
    <3> QED
      BY <2>1, <3>2, <3>3 DEF LandInv, At, ApprovedIsLanded, Early
  <2> QED
    BY <1>6, <1>a, <1>c, <2>1 DEF StartReview
<1>7. CASE ListIntegration
  <2>1. \A t \in Tasks : tree'[t] = tree[t]
    BY <1>7, <1>a DEF ListIntegration, ListTree
  <2>2. TaskTrees' = TaskTrees
    BY <2>1 DEF TaskTrees, Usable
  <2>3. /\ engine.at = "list-integration" /\ engine'.at = "reviewing"
        /\ engine'.changed = engine.changed /\ engine'.verdict = engine.verdict
    BY <1>7, <1>a DEF ListIntegration, At
  <2> QED
    BY <1>d, <2>2, <2>3 DEF LandInv, At, ApprovedIsLanded, Early
<1>8. CASE Approve
  <2>1. /\ At("reviewing") /\ UNCHANGED workspaceVars /\ engine'.changed = engine.changed
        /\ engine'.verdict = "blocked"
        /\ engine'.at = IF TaskTrees # {} THEN "inspect" ELSE "check"
        /\ TaskTrees # {} => Offered \subseteq tree[Integration].head
    BY <1>8, <1>a, <1>d DEF Approve, At
  <2>2. TaskTrees = {} => Offered = {}
    BY <2>1 DEF LandInv, At, Offered
  <2> QED
    BY <1>e, <2>1, <2>2 DEF LandInv, At, ApprovedIsLanded, Early, workspaceVars
<1>9. CASE AskRepair \/ StartRepair \/ EndRepair \/ ReviewAgain
  <2>1. /\ UNCHANGED workspaceVars /\ engine.at \in {"reviewing", "repair", "repairing"}
    BY <1>9 DEF AskRepair, StartRepair, EndRepair, ReviewAgain, At
  <2>2. CASE engine' # Failed(engine)
    <3>1. /\ engine'.at \in {"reviewing", "repair", "repairing"}
          /\ engine'.changed = engine.changed /\ engine'.verdict = engine.verdict
      <4>1. CASE AskRepair
        BY <4>1, <1>a, <2>2 DEF AskRepair
      <4>2. CASE StartRepair
        BY <4>2, <1>a DEF StartRepair, At
      <4>3. CASE EndRepair
        BY <4>3, <1>a, <2>2 DEF EndRepair
      <4>4. CASE ReviewAgain
        BY <4>4, <1>a, <2>2 DEF ReviewAgain
      <4> QED
        BY <1>9, <4>1, <4>2, <4>3, <4>4
    <3> QED
      BY <1>d, <1>f, <2>1, <3>1
  <2> QED
    BY <1>c, <2>2
<1>10. CASE InspectCheckout
  <2>1. \/ engine' = [engine EXCEPT !.at = "merge"]
        \/ engine' = [engine EXCEPT !.at = "check"] /\ tree[Integration].head \subseteq repo.head
        \/ engine' = Failed(engine)
        \/ engine' = Failed([engine EXCEPT !.protected = {Integration}])
    BY <1>10 DEF InspectCheckout, Inspection
  <2>2. /\ Failed([engine EXCEPT !.protected = {Integration}]).at = "remove"
        /\ Failed([engine EXCEPT !.protected = {Integration}]).verdict = "blocked"
    BY <1>a DEF Failed
  <2>3. UNCHANGED workspaceVars /\ Offered \subseteq tree[Integration].head /\ engine.verdict = "blocked"
    BY <1>10, <1>d DEF InspectCheckout, At, LandInv
  <2>4. CASE \/ engine' = [engine EXCEPT !.at = "merge"]
             \/ engine' = [engine EXCEPT !.at = "check"] /\ tree[Integration].head \subseteq repo.head
    <3>1. /\ engine'.changed = engine.changed /\ engine'.verdict = "blocked"
          /\ \/ engine'.at = "merge"
             \/ engine'.at = "check" /\ tree[Integration].head \subseteq repo.head
      BY <1>a, <2>3, <2>4
    <3> QED
      BY <1>e, <2>3, <3>1 DEF LandInv, At, ApprovedIsLanded, Early, workspaceVars
  <2> QED
    BY <1>c, <2>1, <2>2, <2>4, LandTrivially
<1>11. CASE Merge
  <2>1. CASE MergeIntegration /\ engine' = [engine EXCEPT !.at = "check"]
    <3>1. /\ engine'.at = "check" /\ engine'.changed = engine.changed /\ engine'.verdict = "blocked"
      BY <1>11, <1>a, <1>d, <2>1 DEF Merge, At
    <3>2. repo'.head = tree[Integration].head /\ UNCHANGED tree
      BY <2>1 DEF MergeIntegration, PromiseInv, WorkInv, TypeInv, WorkspaceTypeOK
    <3>3. Offered' = Offered
      BY <1>a, <3>1, <3>2, OfferedSame
    <3>4. Offered \subseteq tree[Integration].head
      BY <1>11 DEF Merge, At, LandInv
    <3> QED
      BY <3>1, <3>2, <3>3, <3>4 DEF LandInv, At, ApprovedIsLanded, Early
  <2> QED
    BY <1>11, <1>c, <2>1 DEF Merge
<1>12. CASE CheckDiff
  <2>1. CASE engine' = [engine EXCEPT !.at = "remove", !.verdict = "complete"]
    <3>1. /\ engine'.at = "remove" /\ engine'.changed = engine.changed /\ UNCHANGED workspaceVars
          /\ Offered \subseteq repo.head
      BY <1>12, <1>a, <2>1 DEF CheckDiff, LandInv
    <3> QED
      BY <1>e, <3>1 DEF LandInv, At, ApprovedIsLanded, Early, workspaceVars
  <2> QED
    BY <1>12, <1>c, <2>1 DEF CheckDiff
<1>13. CASE CleanTrees \/ Prune
  <2>1. /\ engine'.at \in {"prune", "close"} /\ engine'.changed = engine.changed
        /\ engine'.verdict = engine.verdict /\ UNCHANGED <<repo, setting>>
    BY <1>13, <1>a DEF CleanTrees, Prune, RemoveTrees, DeleteBranches, taskVars, planVars
  <2>2. \A t \in Tasks : tree'[t].head = tree[t].head
    <3>1. SUFFICES ASSUME NEW t \in Tasks PROVE tree'[t].head = tree[t].head
      OBVIOUS
    <3>2. t \in Trees /\ DOMAIN tree[t] = {"path", "branch", "listed", "dirty", "head", "base"}
      BY <1>a
    <3>3. CASE CleanTrees
      <4>1. tree'[t] = tree[t] \/ tree'[t] = [tree[t] EXCEPT !.path = FALSE]
        BY <3>2, <3>3 DEF CleanTrees, RemoveTrees
      <4> QED
        BY <3>2, <4>1
    <3>4. CASE Prune
      <4>1. \/ tree'[t] = tree[t]
            \/ tree'[t] = [tree[t] EXCEPT
                  !.branch = tree[t].branch /\ ~(tree[t].head \subseteq repo.head),
                  !.listed = FALSE]
        BY <3>2, <3>4 DEF Prune, DeleteBranches
      <4> QED
        BY <3>2, <4>1
    <3> QED
      BY <1>13, <3>3, <3>4
  <2>3. Offered' = Offered
    BY <1>a, <2>1, <2>2, OfferedSame
  <2> QED
    BY <2>1, <2>3 DEF LandInv, At, ApprovedIsLanded, Early
<1> QED
  BY <1>1, <1>2, <1>3, <1>4, <1>5, <1>6, <1>7, <1>8, <1>9, <1>10, <1>11, <1>12, <1>13
  DEF MainThread

\* What a worker, a stray too, may change in the checkout and in the worktrees.
LEMMA WorkerTrees ==
  ASSUME TypeInv, NEW t \in Tasks, RunWorker(t)
  PROVE  /\ repo'.head = repo.head
         /\ \A x \in Trees \ {t} : tree'[x] = tree[x]
         /\ tree'[t].path = tree[t].path /\ tree'[t].listed = tree[t].listed
         /\ tree'[t].branch = tree[t].branch
         /\ UNCHANGED tree \/ (tree[t].path /\ (Alive(t) \/ stray[t] # {}))
<1>a. /\ DOMAIN tree = Trees /\ t \in Trees /\ DOMAIN repo = {"head", "dirty"}
      /\ DOMAIN tree[t] = {"path", "branch", "listed", "dirty", "head", "base"}
  BY DEF TypeInv, WorkspaceTypeOK, Trees
<1>1. CASE Heed(t) \/ Announce(t) \/ Exit(t) \/ StrayExits(t)
  BY <1>1 DEF Heed, Announce, Exit, StrayExits, workspaceVars
<1>2. ASSUME NEW w, WorkOf(t, w), Alive(t) \/ stray[t] # {}
      PROVE  /\ repo'.head = repo.head
             /\ \A x \in Trees \ {t} : tree'[x] = tree[x]
             /\ tree'[t].path = tree[t].path /\ tree'[t].listed = tree[t].listed
             /\ tree'[t].branch = tree[t].branch
             /\ UNCHANGED tree \/ (tree[t].path /\ (Alive(t) \/ stray[t] # {}))
  <2>1. \/ UNCHANGED workspaceVars
        \/ EditRoot
        \/ tree[t].path /\ EditIn(t)
        \/ tree[t].path /\ CommitIn(t, {<<t, w.round>>})
    BY <1>2 DEF WorkOf
  <2>2. CASE UNCHANGED workspaceVars
    BY <2>2 DEF workspaceVars
  <2>3. CASE EditRoot
    BY <1>a, <2>3 DEF EditRoot
  <2>4. CASE tree[t].path /\ EditIn(t)
    BY <1>a, <1>2, <2>4 DEF EditIn
  <2>5. CASE tree[t].path /\ CommitIn(t, {<<t, w.round>>})
    BY <1>a, <1>2, <2>5 DEF CommitIn
  <2> QED
    BY <2>1, <2>2, <2>3, <2>4, <2>5
<1>3. CASE Work(t)
  BY <1>3, <1>2 DEF Work
<1>4. CASE StrayWorks(t)
  BY <1>4, <1>2 DEF StrayWorks
<1> QED
  BY <1>1, <1>3, <1>4 DEF RunWorker

\* Every step of the system keeps LandInv, if workers are tame: none of them is
\* alive in the review.
LEMMA StepLands ==
  ASSUME PromiseInv, LandInv, setting.tame, [Next]_vars
  PROVE  LandInv'
<1>a. /\ TypeInv /\ engine.changed \subseteq Tasks /\ Integration \notin Tasks
      /\ DOMAIN tree = Trees /\ Tasks \subseteq Trees
      /\ engine.verdict \in {"complete", "blocked"}
  BY AuthorsAssumption DEF PromiseInv, WorkInv, TypeInv, Engines, WorkspaceTypeOK, Trees
<1>b. ASSUME UNCHANGED <<engine, tree>>, repo.head \subseteq repo'.head
      PROVE  LandInv'
  <2>1. Offered' = Offered /\ TaskTrees' = TaskTrees
    BY <1>b DEF Offered, TaskTrees, Usable
  <2> QED
    BY <1>b, <2>1 DEF LandInv, At, ApprovedIsLanded, Early
<1>c. repo.head \subseteq repo'.head
  BY <1>a, StepUserWork
<1>1. CASE Launch \/ Crash
  BY <1>1, LandTrivially DEF Launch, Crash, EngineOff
<1>2. CASE MainThread
  BY <1>2, MainLands
<1>3. CASE ReviewerMerges
  <2>1. /\ engine.at = "reviewing" /\ UNCHANGED <<engine, repo>>
    BY <1>3 DEF ReviewerMerges, At, CommitIn, EditIn
  <2>2. \A t \in Tasks : tree'[t] = tree[t]
    BY <1>3, <1>a DEF ReviewerMerges, CommitIn, EditIn
  <2>3. TaskTrees' = TaskTrees
    BY <2>2 DEF TaskTrees, Usable
  <2>4. engine.verdict = "blocked"
    BY <1>a, <2>1 DEF PromiseInv, OrderInv
  <2> QED
    BY <2>1, <2>3, <2>4 DEF LandInv, At, ApprovedIsLanded, Early
<1>4. CASE UserActs \/ Over \/ UNCHANGED vars \/ \E t \in Tasks : RecoverOrphan(t)
  <2>1. UNCHANGED <<engine, tree>>
    BY <1>4 DEF UserActs, UserCommits, UserEdits, EditRoot, Over, vars, workspaceVars,
      RecoverOrphan, ReconcileOrphan
  <2> QED
    BY <1>b, <1>c, <2>1
<1>5. ASSUME NEW t \in Tasks, TaskThread(t)
      PROVE  LandInv'
  <2>1. UNCHANGED <<engine, tree>>
    BY <1>5 DEF TaskThread, RunTask, RecoverExternalAction, BeginAttempt, RecordStart,
      Spawn, SpawnFails, Register, Prompt, SaveSession, Collect, Timeout, Interrupt,
      Reconcile, Keep, Mark, Settle, Drop, PromptFails, OutlivesSignals, workspaceVars
  <2> QED
    BY <1>b, <1>c, <2>1
<1>6. ASSUME NEW t \in Tasks, WorkerProcess(t)
      PROVE  LandInv'
  <2>1. /\ UNCHANGED engine
        /\ UNCHANGED tree \/ Alive(t)
        /\ \A x \in Tasks : tree'[x].path = tree[x].path /\ tree'[x].listed = tree[x].listed
    BY <1>6, <1>a, WorkerTrees DEF WorkerProcess, PromiseInv, WorkInv, AliveInv
  <2>2. CASE UNCHANGED tree
    BY <1>b, <1>c, <2>1, <2>2
  <2>3. CASE Alive(t)
    <3>1. engine.at \in {"off", "recover", "join", "ultra", "repairing"}
      BY <2>3 DEF PromiseInv, WorkInv, AliveInv, Waiting, At, Busy, GivenUp
    <3>2. engine.verdict = "blocked"
      BY <1>a, <3>1 DEF PromiseInv, OrderInv
    <3>3. TaskTrees' = TaskTrees
      BY <2>1 DEF TaskTrees, Usable
    <3> QED
      BY <2>1, <3>1, <3>2, <3>3 DEF LandInv, At, ApprovedIsLanded, Early
  <2> QED
    BY <2>1, <2>2, <2>3
<1> QED
  BY <1>1, <1>2, <1>3, <1>4, <1>5, <1>6 DEF Next

\* The main thread keeps TreeInv: it removes clean worktrees and merged branches only.
LEMMA MainKeepsTrees ==
  ASSUME PromiseInv, TreeInv, MainThread
  PROVE  TreeInv'
<1>a. /\ TypeInv
      /\ DOMAIN tree = Trees /\ Tasks \subseteq Trees /\ Integration \in Trees /\ Integration \notin Tasks
      /\ \A x \in Trees : DOMAIN tree[x] = {"path", "branch", "listed", "dirty", "head", "base"}
      /\ DOMAIN repo = {"head", "dirty"}
  BY AuthorsAssumption DEF PromiseInv, WorkInv, TypeInv, WorkspaceTypeOK, Trees
<1>b. repo.head \subseteq repo'.head
  BY <1>a, StepUserWork DEF Next
<1>c. ASSUME \A t \in Tasks :
               /\ tree'[t].head \subseteq repo'.head \/ tree'[t].branch
               /\ tree'[t].dirty => tree'[t].path
               /\ tree'[t].path => tree'[t].branch
      PROVE  TreeInv'
  BY <1>c DEF TreeInv, WorkKept
<1>d. CASE \A t \in Tasks : /\ tree'[t].path = tree[t].path /\ tree'[t].branch = tree[t].branch
                            /\ tree'[t].head = tree[t].head /\ tree'[t].dirty = tree[t].dirty
  BY <1>b, <1>c, <1>d DEF TreeInv, WorkKept
<1>1. CASE AddTaskTree
  <2>1. CASE UNCHANGED workspaceVars
    BY <1>d, <2>1 DEF workspaceVars
  <2>2. CASE \E t \in Missing : AddTree(t, engine.info)
    <3>1. PICK t \in Missing : AddTree(t, engine.info)
      BY <2>2
    <3>2. \A u \in Trees : tree'[u] = tree[u] \/ tree'[u] = [path |-> TRUE, branch |-> TRUE,
             listed |-> FALSE, dirty |-> FALSE, head |-> engine.info.head, base |-> engine.info.head]
      BY <1>a, <3>1 DEF AddTree
    <3> QED
      BY <1>a, <1>b, <1>c, <3>2 DEF TreeInv, WorkKept
  <2> QED
    BY <1>1, <2>1, <2>2 DEF AddTaskTree
<1>2. CASE ListTaskTree
  BY <1>a, <1>d, <1>2 DEF ListTaskTree, ListTree
<1>3. CASE StartReview \/ ListIntegration
  <2>1. UNCHANGED workspaceVars \/ AddTree(Integration, engine.info) \/ ListTree(Integration)
    BY <1>3 DEF StartReview, ListIntegration
  <2>2. \A t \in Tasks : tree'[t] = tree[t]
    BY <1>a, <2>1 DEF AddTree, ListTree, workspaceVars
  <2> QED
    BY <1>d, <2>2
<1>4. CASE Merge
  BY <1>d, <1>4 DEF Merge, MergeIntegration, workspaceVars
<1>5. CASE CleanTrees
  <2>1. \A t \in Tasks :
          /\ tree'[t].branch = tree[t].branch /\ tree'[t].head = tree[t].head
          /\ tree'[t].dirty = tree[t].dirty
          /\ tree'[t].path => tree[t].path
          /\ tree[t].dirty /\ tree[t].path => tree'[t].path
    BY <1>a, <1>5 DEF CleanTrees, RemoveTrees, Preserved, Usable
  <2> QED
    BY <1>b, <1>c, <2>1 DEF TreeInv, WorkKept
<1>6. CASE Prune
  <2>1. \A t \in Tasks :
          /\ tree'[t].path = tree[t].path /\ tree'[t].head = tree[t].head
          /\ tree'[t].dirty = tree[t].dirty
          /\ \/ tree'[t].branch = tree[t].branch
             \/ ~tree[t].path /\ (tree'[t].branch <=> tree[t].branch /\ ~(tree[t].head \subseteq repo.head))
    BY <1>a, <1>6 DEF Prune, DeleteBranches
  <2> QED
    BY <1>b, <1>c, <2>1 DEF TreeInv, WorkKept
<1>7. CASE UNCHANGED workspaceVars
  BY <1>d, <1>7 DEF workspaceVars
<1> QED
  BY <1>1, <1>2, <1>3, <1>4, <1>5, <1>6, <1>7 DEF MainThread, PlannerAnswers,
    PlannerFails, ApproveUnreviewed, Approve, Refuse, AskRepair, ReviewAgain,
    InspectCheckout, CheckDiff, Open, StartWave, Join, StartRepair, EndRepair, Close,
    taskVars

\* Every step of the system keeps TreeInv.
LEMMA StepKeepsTrees ==
  ASSUME PromiseInv, TreeInv, [Next]_vars
  PROVE  TreeInv'
<1>a. /\ TypeInv /\ DOMAIN tree = Trees /\ Tasks \subseteq Trees /\ Integration \notin Tasks
  BY AuthorsAssumption DEF PromiseInv, WorkInv, TypeInv, WorkspaceTypeOK, Trees
<1>b. repo.head \subseteq repo'.head
  BY <1>a, StepUserWork
<1>c. ASSUME \A t \in Tasks : tree'[t] = tree[t]
      PROVE  TreeInv'
  BY <1>b, <1>c DEF TreeInv, WorkKept
<1>1. CASE MainThread
  BY <1>1, MainKeepsTrees
<1>2. CASE \/ Launch \/ ReviewerMerges \/ Crash \/ UserActs \/ Over \/ UNCHANGED vars
           \/ \E t \in Tasks : RecoverOrphan(t)
  <2>1. \A t \in Tasks : tree'[t] = tree[t]
    BY <1>2, <1>a DEF Launch, ReviewerMerges, CommitIn, EditIn, Crash, UserActs, UserCommits,
      UserEdits, EditRoot, Over, RecoverOrphan, ReconcileOrphan, vars, workspaceVars
  <2> QED
    BY <1>c, <2>1
<1>3. ASSUME NEW t \in Tasks, TaskThread(t)
      PROVE  TreeInv'
  BY <1>3, <1>c DEF TaskThread, RunTask, RecoverExternalAction, BeginAttempt, RecordStart,
    Spawn, SpawnFails, Register, Prompt, SaveSession, Collect, Timeout, Interrupt,
    Reconcile, Keep, Mark, Settle, Drop, PromptFails, OutlivesSignals, workspaceVars
<1>4. ASSUME NEW t \in Tasks, WorkerProcess(t)
      PROVE  TreeInv'
  <2>1. /\ \A x \in Tasks \ {t} : tree'[x] = tree[x]
        /\ tree'[t].path = tree[t].path /\ tree'[t].branch = tree[t].branch
        /\ UNCHANGED tree \/ tree[t].path
    BY <1>4, <1>a, WorkerTrees DEF WorkerProcess
  <2> QED
    BY <1>b, <2>1 DEF TreeInv, WorkKept
<1> QED
  BY <1>1, <1>2, <1>3, <1>4 DEF Next

\* LandInv, if workers are tame, and TreeInv hold in every state.
LandsTame == setting.tame => LandInv

LEMMA TreesInvariant == Spec => [](PromiseInv /\ LandsTame /\ TreeInv)
<1>1. Init => LandsTame
  BY DEF Init, EngineOff, LandsTame, LandInv, At, Early, ApprovedIsLanded, Offered
<1>2. Init => TreeInv
  BY DEF Init, WorkspaceInit, NoTree, TreeInv, WorkKept, Trees
<1>3. PromiseInv /\ LandsTame /\ TreeInv /\ [Next]_vars => LandsTame' /\ TreeInv'
  BY StepLands, StepKeepsTrees, StepSetting DEF LandsTame
<1> QED
  BY <1>1, <1>2, <1>3, PromiseInvariant, PTL DEF Spec

\* Whatever a task has committed is in the checkout or on a branch, and what it has
\* not committed is in its worktree: cleanup loses no work (workspace.py), not even
\* that of a worker nobody waits for any more.
THEOREM WorkIsKept == Spec => []WorkKept
<1>1. TreeInv => WorkKept
  BY DEF TreeInv
<1> QED
  BY <1>1, TreesInvariant, PTL

\* If workers are tame, the engine declares a job complete only when all the
\* reviewer was shown is in the checkout, whatever the user has done to it
\* (apply_integration).
THEOREM ApprovalLands == Spec => []ApprovedIsLanded
<1>1. LandsTame => ApprovedIsLanded
  BY DEF LandsTame, LandInv, ApprovedIsLanded
<1> QED
  BY <1>1, TreesInvariant, PTL

\* If workers are tame, what lands in the checkout is all that the reviewer was
\* shown, or nothing.
THEOREM LandsAtOnce == Spec => LandsWhole
<1>1. PromiseInv /\ LandsTame /\ [Next]_vars =>
        [setting.tame
           /\ (\E t \in Tasks, r \in Rounds : <<t, r>> \in repo'.head \ repo.head)
           => Offered \subseteq repo'.head]_vars
  <2> SUFFICES ASSUME PromiseInv, LandInv, [Next]_vars,
                      NEW t \in Tasks, NEW r \in Rounds, <<t, r>> \in repo'.head \ repo.head
               PROVE  Offered \subseteq repo'.head
    BY DEF LandsTame
  <2>a. TypeInv /\ DOMAIN repo = {"head", "dirty"}
    BY DEF PromiseInv, WorkInv, TypeInv, WorkspaceTypeOK
  <2>1. MainThread => Merge
    BY DEF MainThread, Open, PlannerAnswers, PlannerFails, AddTaskTree, ListTaskTree,
      StartWave, Join, ApproveUnreviewed, StartReview, ListIntegration, Approve, Refuse,
      AskRepair, StartRepair, EndRepair, ReviewAgain, InspectCheckout, CheckDiff,
      CleanTrees, Prune, Close, AddTree, ListTree, RemoveTrees, DeleteBranches, workspaceVars
  <2>2. ASSUME NEW u \in Tasks, TaskThread(u) PROVE FALSE
    BY <2>2 DEF TaskThread, RunTask, RecoverExternalAction, BeginAttempt, RecordStart,
      Spawn, SpawnFails, Register, Prompt, SaveSession, Collect, Timeout, Interrupt,
      Reconcile, Keep, Mark, Settle, Drop, PromptFails, OutlivesSignals, workspaceVars
  <2>3. ASSUME NEW u \in Tasks, WorkerProcess(u) PROVE FALSE
    BY <2>3, <2>a, WorkerTrees DEF WorkerProcess
  <2>4. ~UserActs
    <3>1. <<t, r>> # <<User, 1>>
      BY AuthorsAssumption
    <3> QED
      BY <2>a, <3>1 DEF UserActs, UserCommits, UserEdits, EditRoot
  <2>5. Merge
    BY <2>1, <2>2, <2>3, <2>4 DEF Next, Launch, ReviewerMerges, CommitIn, EditIn, Crash, Over,
      RecoverOrphan, ReconcileOrphan, vars, workspaceVars
  <2>6. repo'.head = tree[Integration].head /\ At("merge")
    BY <2>5, <2>a DEF Merge, MergeIntegration, workspaceVars
  <2> QED
    BY <2>6 DEF LandInv, At
<1> QED
  BY <1>1, TreesInvariant, PTL DEF Spec, LandsWhole
=============================================================================
