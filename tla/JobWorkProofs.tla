---------------------------- MODULE JobWorkProofs ----------------------------
(***************************************************************************)
(* The threads of an engine, the workers they start and the ledger of      *)
(* external actions, for any plan, any number of tasks, retries, crashes   *)
(* and interrupts: who may be alive beside whom, what the ledger and the   *)
(* results may say, that no action is repeated blindly, and which are      *)
(* not repeated at all.                                                    *)
(***************************************************************************)
EXTENDS JobWorkTypes


\* A thread that has not come to its end.
Busy(t) == step[t] \notin {"idle", "returned", "raised"}

\* The places of the main thread at which it waits for threads.
Waiting == At("join") \/ At("ultra") \/ At("repairing")

\* The places of an engine that is about to end.
Leaving == engine.at \in {"remove", "prune", "close"}

\* The thread of a task has given up a worker that did not end.
GivenUp(t) == step[t] = "raised" /\ ~setting.tame

\* Threads run only while the main thread waits for them, and in the repair one
\* at a time; a worker acts only beside the thread that waits for it or has given
\* it up, then the engine is about to fail; or beside no engine; a worker outlives
\* a recovery only if it is not tame; and the job is open as long as there is an
\* engine.
AliveInv ==
  /\ ~At("off") => job = "open"
  /\ At("off") \/ At("recover") => \A t \in Tasks : step[t] = "idle"
  /\ \A t \in Tasks : Busy(t) => Waiting /\ t \in engine.todo
  /\ At("repairing") =>
       \A t, u \in Tasks : step[t] # "idle" /\ step[u] # "idle" => t = u
  /\ \A t \in Tasks : step[t] = "prompt" => process[t] # "none"
  /\ ActingIsRegistered
  /\ ~At("off") /\ ~At("recover") =>
       \A t \in Tasks : Alive(t) => step[t] = "wait" \/ GivenUp(t)
  /\ \A t \in Tasks : Alive(t) /\ step[t] = "raised" =>
       Leaving \/ (Waiting /\ t \in engine.todo)
  /\ setting.tame => \A t \in Tasks : stray[t] = {}

\* A step of the thread of a task changes nothing of another task.
LEMMA ThreadFrame ==
  ASSUME TasksTypeOK, NEW t \in Tasks, RunTask(t), NEW u \in Tasks, u # t
  PROVE  /\ result'[u] = result[u] /\ record'[u] = record[u] /\ ledger'[u] = ledger[u]
         /\ process'[u] = process[u] /\ worker'[u] = worker[u]
         /\ applied'[u] = applied[u] /\ run'[u] = run[u] /\ step'[u] = step[u]
         /\ UNCHANGED <<planVars, workspaceVars, output, stray>>
<1> USE DEF Fetch, SetLedger, filesVars, workVars
<1>a. /\ DOMAIN result = Tasks /\ DOMAIN record = Tasks /\ DOMAIN ledger = Tasks
      /\ DOMAIN process = Tasks /\ DOMAIN worker = Tasks /\ DOMAIN applied = Tasks
      /\ DOMAIN run = Tasks /\ DOMAIN step = Tasks
  BY DEF TasksTypeOK
<1>1. CASE RecoverExternalAction(t)
  BY <1>a, <1>1 DEF RecoverExternalAction
<1>2. CASE BeginAttempt(t)
  BY <1>a, <1>2 DEF BeginAttempt
<1>3. CASE RecordStart(t)
  BY <1>a, <1>3 DEF RecordStart
<1>4. CASE Spawn(t)
  BY <1>a, <1>4 DEF Spawn
<1>5. CASE SpawnFails(t)
  BY <1>a, <1>5 DEF SpawnFails
<1>6. CASE Register(t)
  BY <1>a, <1>6 DEF Register
<1>7. CASE Prompt(t)
  BY <1>a, <1>7 DEF Prompt
<1>8. CASE SaveSession(t)
  BY <1>a, <1>8 DEF SaveSession
<1>9. CASE Collect(t)
  BY <1>a, <1>9 DEF Collect, Judge
<1>10. CASE Timeout(t)
  BY <1>a, <1>10 DEF Timeout, Judge
<1>11. CASE Interrupt(t)
  BY <1>a, <1>11 DEF Interrupt
<1>12. CASE Reconcile(t)
  BY <1>a, <1>12 DEF Reconcile
<1>13. CASE Keep(t)
  BY <1>a, <1>13 DEF Keep
<1>14. CASE Mark(t)
  BY <1>a, <1>14 DEF Mark
<1>15. CASE Settle(t)
  BY <1>a, <1>15 DEF Settle
<1>16. CASE Drop(t)
  BY <1>a, <1>16 DEF Drop
<1>17. CASE PromptFails(t)
  BY <1>a, <1>17 DEF PromptFails
<1>18. CASE OutlivesSignals(t)
  BY <1>a, <1>18 DEF OutlivesSignals
<1> QED
  BY <1>1, <1>2, <1>3, <1>4, <1>5, <1>6, <1>7, <1>8, <1>9, <1>10, <1>11, <1>12, <1>13, <1>14, <1>15, <1>16, <1>17, <1>18
  DEF RunTask

\* A step of a worker changes nothing of another task.
LEMMA WorkerFrame ==
  ASSUME TasksTypeOK, NEW t \in Tasks, RunWorker(t)
  PROVE  /\ \A u \in Tasks \ {t} : worker'[u] = worker[u] /\ applied'[u] = applied[u]
                                   /\ output'[u] = output[u] /\ stray'[u] = stray[u]
         /\ worker[t] # NoWorker \/ stray[t] # {}
         /\ Alive(t)' => Alive(t)
         /\ worker[t].state = "none" => worker'[t] = worker[t]
         /\ worker'[t].round = worker[t].round /\ worker'[t].where = worker[t].where
         /\ stray'[t] \subseteq stray[t]
         /\ UNCHANGED <<planVars, result, record, ledger, process, run, step>>
<1>a. /\ DOMAIN worker = Tasks /\ DOMAIN applied = Tasks /\ DOMAIN output = Tasks
      /\ DOMAIN stray = Tasks
      /\ DOMAIN worker[t] = {"state", "session", "resumed", "said", "round", "attempt",
                             "where", "ok"}
  BY DEF TasksTypeOK, Workers
<1> USE DEF filesVars, Alive, NoWorker
<1>b. ASSUME NEW w, WorkOf(t, w)
      PROVE  \A u \in Tasks \ {t} : applied'[u] = applied[u]
  BY <1>a, <1>b DEF WorkOf
<1>c. ASSUME NEW w, NEW ok, ExitOf(t, w, ok)
      PROVE  \A u \in Tasks \ {t} : output'[u] = output[u]
  BY <1>a, <1>c DEF ExitOf
<1>1. CASE Heed(t)
  BY <1>1, <1>a DEF Heed
<1>2. CASE Announce(t)
  BY <1>2, <1>a DEF Announce
<1>3. CASE Work(t)
  BY <1>3, <1>a, <1>b DEF Work
<1>4. CASE Exit(t)
  BY <1>4, <1>a, <1>c DEF Exit
<1>5. CASE StrayWorks(t)
  BY <1>5, <1>a, <1>b DEF StrayWorks
<1>6. CASE StrayExits(t)
  BY <1>6, <1>a, <1>c DEF StrayExits
<1> QED
  BY <1>1, <1>2, <1>3, <1>4, <1>5, <1>6 DEF RunWorker

\* Where a thread goes, and when its worker may act.
LEMMA ThreadAlive ==
  ASSUME TasksTypeOK, NEW t \in Tasks, RunTask(t),
         Alive(t) => step[t] = "wait" \/ GivenUp(t),
         Alive(t) \/ step[t] = "prompt" => process[t] # "none"
  PROVE  /\ Busy(t) \/ (step[t] = "raised" /\ UNCHANGED <<step, worker>>)
         /\ Alive(t)' => step'[t] = "wait" \/ GivenUp(t)'
         /\ Alive(t)' \/ step'[t] = "prompt" => process'[t] # "none"
<1> USE DEF Fetch, filesVars, workVars, planVars, Alive, Busy, GivenUp
<1>a. /\ DOMAIN process = Tasks /\ DOMAIN worker = Tasks /\ DOMAIN step = Tasks
      /\ NoWorker.state = "none"
  BY DEF TasksTypeOK, NoWorker
<1>1. CASE RecoverExternalAction(t)
  BY <1>a, <1>1 DEF RecoverExternalAction
<1>2. CASE BeginAttempt(t)
  BY <1>a, <1>2 DEF BeginAttempt
<1>3. CASE RecordStart(t)
  BY <1>a, <1>3 DEF RecordStart
<1>4. CASE Spawn(t)
  BY <1>a, <1>4 DEF Spawn, NoWorker
<1>5. CASE SpawnFails(t)
  BY <1>a, <1>5 DEF SpawnFails
<1>6. CASE Register(t)
  BY <1>a, <1>6 DEF Register
<1>7. CASE Prompt(t)
  BY <1>a, <1>7 DEF Prompt
<1>8. CASE SaveSession(t)
  BY <1>a, <1>8 DEF SaveSession
<1>9. CASE Collect(t)
  BY <1>a, <1>9 DEF Collect, Judge
<1>10. CASE Timeout(t)
  BY <1>a, <1>10 DEF Timeout, Judge
<1>11. CASE Interrupt(t)
  BY <1>a, <1>11 DEF Interrupt
<1>12. CASE Reconcile(t)
  BY <1>a, <1>12 DEF Reconcile
<1>13. CASE Keep(t)
  BY <1>a, <1>13 DEF Keep
<1>14. CASE Mark(t)
  BY <1>a, <1>14 DEF Mark
<1>15. CASE Settle(t)
  BY <1>a, <1>15 DEF Settle
<1>16. CASE Drop(t)
  BY <1>a, <1>16 DEF Drop
<1>17. CASE PromptFails(t)
  BY <1>a, <1>17 DEF PromptFails
<1>18. CASE OutlivesSignals(t)
  BY <1>a, <1>18 DEF OutlivesSignals
<1> QED
  BY <1>1, <1>2, <1>3, <1>4, <1>5, <1>6, <1>7, <1>8, <1>9, <1>10, <1>11, <1>12, <1>13, <1>14, <1>15, <1>16, <1>17, <1>18
  DEF RunTask

-----------------------------------------------------------------------------
(* Who is alive beside whom.                                               *)

\* Away from its threads the main thread is alone.
Calm == \A t \in Tasks : ~Busy(t) /\ ~Alive(t)

CalmPlaces == Places \ {"off", "recover", "join", "ultra", "repairing"}

\* Where the main thread waits for nobody no thread is busy, and no worker alive
\* unless the engine is about to end.
LEMMA CalmBefore ==
  ASSUME AliveInv, engine.at \in CalmPlaces
  PROVE  /\ job = "open" /\ \A t \in Tasks : ~Busy(t)
         /\ Leaving \/ Calm
BY DEF AliveInv, CalmPlaces, Calm, Waiting, At, Busy, GivenUp

\* So it is enough for AliveInv when the main thread gets there.
LEMMA CalmAfter ==
  ASSUME AliveInv, UNCHANGED <<setting, stray>>, Calm', job' = "open", engine'.at \in CalmPlaces
  PROVE  AliveInv'
BY DEF AliveInv, CalmPlaces, Calm, Waiting, At, ActingIsRegistered, Busy

\* The actions by which the main thread goes from one such place to another.
CalmStep ==
  \/ PlannerAnswers
  \/ PlannerFails
  \/ AddTaskTree
  \/ ListTaskTree
  \/ ApproveUnreviewed
  \/ StartReview
  \/ ListIntegration
  \/ Approve
  \/ Refuse
  \/ AskRepair
  \/ ReviewAgain
  \/ InspectCheckout
  \/ Merge
  \/ CheckDiff
  \/ CleanTrees
  \/ Prune

\* What these steps of the main thread leave alone.
LEMMA CalmSteps ==
  ASSUME TypeInv, CalmStep
  PROVE  /\ engine.at \in CalmPlaces /\ engine'.at \in CalmPlaces
         /\ engine.at \in {"remove", "prune", "close"}
              => engine'.at \in {"remove", "prune", "close"}
         /\ UNCHANGED <<job, setting, filesVars, workVars, run, step>>
<1>a. DOMAIN engine = {"at", "info", "answers", "wave", "todo", "ultraUsed", "pass",
                       "changed", "unrepaired", "protected", "verdict", "kept"}
  BY DEF TypeInv, Engines
<1> USE <1>a DEF At, CalmPlaces, Places, taskVars, planVars, filesVars, workVars
<1>1. CASE PlannerAnswers
  BY <1>1 DEF PlannerAnswers, Failed
<1>2. CASE PlannerFails
  BY <1>2 DEF PlannerFails, Failed
<1>3. CASE AddTaskTree
  BY <1>3 DEF AddTaskTree, Failed
<1>4. CASE ListTaskTree
  BY <1>4 DEF ListTaskTree
<1>5. CASE ApproveUnreviewed
  BY <1>5 DEF ApproveUnreviewed
<1>6. CASE StartReview
  BY <1>6 DEF StartReview, Failed
<1>7. CASE ListIntegration
  BY <1>7 DEF ListIntegration
<1>8. CASE Approve
  BY <1>8 DEF Approve
<1>9. CASE Refuse
  BY <1>9 DEF Refuse, Failed
<1>10. CASE AskRepair
  BY <1>10 DEF AskRepair, Failed
<1>11. CASE ReviewAgain
  BY <1>11 DEF ReviewAgain, Failed
<1>12. CASE InspectCheckout
  <2>1. \/ engine' = [engine EXCEPT !.at = "merge"]
        \/ engine' = [engine EXCEPT !.at = "check"]
        \/ engine' = Failed(engine)
        \/ engine' = Failed([engine EXCEPT !.protected = {Integration}])
    BY <1>12 DEF InspectCheckout, Inspection
  <2>2. Failed(engine).at = "remove" /\ Failed([engine EXCEPT !.protected = {Integration}]).at = "remove"
    BY DEF Failed
  <2>3. engine'.at \in {"merge", "check", "remove"}
    BY <2>1, <2>2
  <2> QED
    BY <1>12, <2>3 DEF InspectCheckout
<1>13. CASE Merge
  BY <1>13 DEF Merge, Failed
<1>14. CASE CheckDiff
  BY <1>14 DEF CheckDiff, Failed
<1>15. CASE CleanTrees
  BY <1>15 DEF CleanTrees
<1>16. CASE Prune
  BY <1>16 DEF Prune
<1> QED
  BY <1>1, <1>2, <1>3, <1>4, <1>5, <1>6, <1>7, <1>8, <1>9, <1>10, <1>11, <1>12, <1>13, <1>14, <1>15, <1>16
  DEF CalmStep

\* The main thread keeps AliveInv: what it starts has no worker yet.
LEMMA MainAlive ==
  ASSUME TypeInv, AliveInv, MainThread
  PROVE  AliveInv'
<1>a. /\ DOMAIN engine = {"at", "info", "answers", "wave", "todo", "ultraUsed", "pass",
                          "changed", "unrepaired", "protected", "verdict", "kept"}
      /\ DOMAIN step = Tasks /\ engine.todo \subseteq Tasks
  BY DEF TypeInv, Engines, TasksTypeOK
<1>1. CASE CalmStep
  <2>1. /\ engine.at \in CalmPlaces /\ engine'.at \in CalmPlaces
        /\ Leaving => Leaving'
        /\ UNCHANGED <<job, setting, process, worker, stray, step>>
    BY <1>1, CalmSteps DEF workVars, filesVars, Leaving
  <2>2. job = "open" /\ (Leaving \/ Calm)
    BY <2>1, CalmBefore
  <2>3. CASE Calm
    <3>1. Calm'
      BY <2>1, <2>3 DEF Calm, Alive, Busy
    <3> QED
      BY <2>1, <2>2, <3>1, CalmAfter
  <2>4. CASE Leaving
    <3>1. \A t \in Tasks : ~Busy(t)
      BY <2>1, CalmBefore
    <3> QED
      BY <2>1, <2>2, <2>4, <3>1 DEF AliveInv, At, Waiting, Leaving, Busy, Alive, GivenUp,
        ActingIsRegistered
  <2> QED
    BY <2>2, <2>3, <2>4
<1>2. CASE Open
  <2>1. Calm' /\ job' = "open"
    BY <1>2 DEF AliveInv, Open, At, Calm, Alive, Busy, ActingIsRegistered, workVars
  <2>2. engine'.at \in CalmPlaces /\ UNCHANGED <<setting, stray>>
    BY <1>2, <1>a DEF Open, CalmPlaces, Places, planVars, workVars
  <2> QED
    BY <2>1, <2>2, CalmAfter
<1>3. CASE StartWave
  <2>1. Calm /\ job = "open"
    BY <1>3, CalmBefore DEF StartWave, At, CalmPlaces, Places, Leaving
  <2>2. UNCHANGED <<worker, stray, setting, job, process>> /\ engine'.at = "join"
    BY <1>3, <1>a DEF StartWave, planVars, workVars
  <2>3. \A t \in Tasks : step'[t] = "idle" \/ (step'[t] = "entered" /\ t \in engine'.todo)
    BY <1>3, <1>a DEF StartWave
  <2> QED
    BY <2>1, <2>2, <2>3 DEF AliveInv, Calm, At, Waiting, Busy, Alive, ActingIsRegistered
<1>4. CASE Join
  <2>1. \A t \in Tasks : ~Busy(t)
    BY <1>4 DEF Join, AllReturned, AliveInv, Busy
  <2>2. ~JoinRaises => \A t \in Tasks : ~Alive(t)
    BY <1>4, <2>1 DEF Join, JoinRaises, AliveInv, Busy, At, GivenUp, Leaving, Waiting
  <2>3. UNCHANGED <<worker, stray, setting, job, process>> /\ job = "open"
    BY <1>4 DEF Join, AliveInv, At, planVars, workVars, filesVars
  <2>4. CASE UNCHANGED step /\ engine' = Failed(engine)
    <3>1. engine'.at = "remove" /\ (At("join") \/ At("ultra"))
      BY <1>a, <1>4, <2>4 DEF Failed, Join
    <3> QED
      BY <2>1, <2>3, <2>4, <3>1 DEF AliveInv, At, Waiting, Leaving, Busy, Alive, GivenUp,
        ActingIsRegistered
  <2>5. CASE ~JoinRaises /\ NextWave /\ step' = [t \in Tasks |-> "idle"]
    BY <1>a, <2>2, <2>3, <2>5, CalmAfter DEF Calm, Busy, Alive, NextWave, Failed, CalmPlaces, Places
  <2>6. CASE ~JoinRaises /\ \E t \in Candidates :
               /\ engine' = [engine EXCEPT !.at = "ultra", !.todo = {t}, !.ultraUsed = TRUE]
               /\ step' = [step EXCEPT ![t] = "entered"]
    <3>1. PICK t \in Tasks : /\ engine'.at = "ultra" /\ engine'.todo = {t}
                             /\ step' = [step EXCEPT ![t] = "entered"]
      BY <1>a, <2>6 DEF Candidates
    <3>2. \A u \in Tasks : step'[u] = "entered" \/ step'[u] = step[u]
      BY <1>a, <3>1
    <3>3. \A u \in Tasks : u # t => step'[u] = step[u]
      BY <1>a, <3>1
    <3> QED
      BY <2>1, <2>2, <2>3, <2>6, <3>1, <3>2, <3>3 DEF AliveInv, At, Waiting, Busy, Alive,
        ActingIsRegistered
  <2> QED
    BY <1>4, <2>4, <2>5, <2>6 DEF Join
<1>5. CASE StartRepair
  <2>1. Calm /\ job = "open"
    BY <1>5, CalmBefore DEF StartRepair, At, CalmPlaces, Places, Leaving
  <2>2. UNCHANGED <<worker, stray, setting, job, process>>
    BY <1>5 DEF StartRepair, planVars, workVars, filesVars
  <2>3. CASE UNCHANGED step /\ engine'.at = "repair"
    BY <2>1, <2>2, <2>3, CalmAfter DEF Calm, Busy, Alive, CalmPlaces, Places
  <2>4. CASE \E t \in engine.todo :
               /\ engine' = [engine EXCEPT !.at = "repairing"]
               /\ step' = [r \in Tasks |-> IF r = t THEN "entered" ELSE "idle"]
    <3>1. PICK t \in engine.todo :
               /\ engine' = [engine EXCEPT !.at = "repairing"]
               /\ step' = [r \in Tasks |-> IF r = t THEN "entered" ELSE "idle"]
      BY <2>4
    <3>2. engine'.at = "repairing" /\ engine'.todo = engine.todo
      BY <1>a, <3>1
    <3> QED
      BY <2>1, <2>2, <3>1, <3>2 DEF AliveInv, Calm, At, Waiting, Busy, Alive,
        ActingIsRegistered
  <2> QED
    <3>1. \A t : engine' = [engine EXCEPT !.todo = @ \ {t}, !.unrepaired = TRUE]
                   => engine'.at = engine.at
      BY <1>a
    <3> QED
      BY <1>5, <2>3, <2>4, <3>1 DEF StartRepair, At
<1>6. CASE EndRepair
  <2>1. PICK t \in engine.todo :
          /\ step[t] \in {"returned", "raised"}
          /\ step[t] = "raised" => engine' = Failed(engine)
          /\ step' = [step EXCEPT ![t] = IF @ = "raised" THEN @ ELSE "idle"]
    BY <1>6 DEF EndRepair
  <2>2. \A u \in Tasks : u # t => step[u] = "idle"
    BY <1>6, <1>a, <2>1 DEF AliveInv, EndRepair, At
  <2>3. \A u \in Tasks : step'[u] = IF u = t /\ step[t] = "raised" THEN "raised" ELSE "idle"
    BY <1>a, <2>1, <2>2
  <2>4. UNCHANGED <<worker, stray, setting, job, process>> /\ At("repairing")
    BY <1>6 DEF EndRepair, planVars, filesVars, workVars
  <2>5. \A u \in Tasks : Alive(u) => u = t /\ GivenUp(t)
    BY <1>a, <2>1, <2>2, <2>4 DEF AliveInv, At, GivenUp
  <2>6. engine'.at \in {"repair", "remove"} /\ (engine' = Failed(engine) => engine'.at = "remove")
    BY <1>6, <1>a DEF EndRepair, Failed
  <2> QED
    BY <1>a, <2>1, <2>3, <2>4, <2>5, <2>6 DEF AliveInv, At, Waiting, Leaving, Busy, Alive, GivenUp,
      ActingIsRegistered
<1>7. CASE Close
  <2>1. /\ engine'.at = "off" /\ UNCHANGED <<worker, stray, setting, process>>
        /\ \A t \in Tasks : step'[t] = "idle"
    BY <1>7 DEF Close, EngineOff, planVars, workVars, filesVars
  <2> QED
    BY <2>1 DEF AliveInv, At, Waiting, Busy, Alive, ActingIsRegistered
<1> QED
  BY <1>1, <1>2, <1>3, <1>4, <1>5, <1>6, <1>7 DEF MainThread, CalmStep

\* Every step of the system keeps AliveInv.
LEMMA StepAlive ==
  ASSUME TypeInv, AliveInv, [Next]_vars
  PROVE  AliveInv'
<1>a. /\ TasksTypeOK /\ engine \in Engines
      /\ DOMAIN worker = Tasks /\ DOMAIN process = Tasks /\ DOMAIN step = Tasks
      /\ DOMAIN stray = Tasks
  BY DEF TypeInv, TasksTypeOK
<1> USE DEF planVars
<1>1. CASE Launch
  <2>1. engine'.at = "recover" /\ At("off") /\ job' = "open"
        /\ UNCHANGED <<setting, worker, stray, step, process>>
    BY <1>1 DEF Launch, EngineOff, At, taskVars, workVars, filesVars
  <2> QED
    BY <2>1 DEF AliveInv, At, Waiting, Busy, Alive, ActingIsRegistered
<1>2. CASE MainThread
  BY <1>2, MainAlive
<1>3. CASE ReviewerMerges \/ UserActs \/ Over \/ UNCHANGED vars
  <2>1. UNCHANGED <<setting, worker, stray, step, process, engine, job>>
    BY <1>3 DEF ReviewerMerges, UserActs, Over, vars, taskVars, workVars, filesVars
  <2> QED
    BY <2>1 DEF AliveInv, At, Waiting, Leaving, Busy, Alive, GivenUp, ActingIsRegistered
<1>4. CASE Crash
  <2>1. /\ engine'.at = "off" /\ UNCHANGED <<setting, stray, process, job>>
        /\ \A t \in Tasks : step'[t] = "idle"
        /\ \A t \in Tasks : Alive(t)' => Alive(t)
    BY <1>4 DEF Crash, ThreadsDie, EngineOff, filesVars, Alive, NoWorker
  <2> QED
    BY <2>1 DEF AliveInv, At, Waiting, Busy, ActingIsRegistered
<1>5. ASSUME NEW t \in Tasks, RecoverOrphan(t)
      PROVE  AliveInv'
  <2>1. /\ UNCHANGED <<setting, engine, job, step>> /\ At("recover") /\ ~Alive(t)'
        /\ \A u \in Tasks \ {t} : worker'[u] = worker[u] /\ process'[u] = process[u]
        /\ setting.tame => UNCHANGED stray
    BY <1>5, <1>a DEF RecoverOrphan, ReconcileOrphan, Alive, NoWorker
  <2> QED
    BY <2>1 DEF AliveInv, At, Waiting, Busy, Alive, ActingIsRegistered
<1>6. ASSUME NEW t \in Tasks, TaskThread(t)
      PROVE  AliveInv'
  <2>0. RunTask(t) /\ UNCHANGED <<job, engine>>
    BY <1>6 DEF TaskThread
  <2>1. step[t] # "idle"
    BY <2>0 DEF RunTask, RecoverExternalAction, BeginAttempt, RecordStart,
      Spawn, SpawnFails, Register, Prompt, SaveSession, Collect, Timeout, Interrupt,
      Reconcile, Keep, Mark, Settle, Drop, PromptFails, OutlivesSignals
  <2>2. ~At("off") /\ ~At("recover")
    BY <2>1 DEF AliveInv
  <2>3. Alive(t) => step[t] = "wait" \/ GivenUp(t)
    BY <2>2 DEF AliveInv
  <2>4. Alive(t) \/ step[t] = "prompt" => process[t] # "none"
    BY DEF AliveInv, ActingIsRegistered
  <2>5. /\ Busy(t) \/ (step[t] = "raised" /\ UNCHANGED <<step, worker>>)
        /\ Alive(t)' => step'[t] = "wait" \/ GivenUp(t)'
        /\ Alive(t)' \/ step'[t] = "prompt" => process'[t] # "none"
    BY <1>a, <2>0, <2>3, <2>4, ThreadAlive
  <2>6. /\ \A u \in Tasks \ {t} : /\ worker'[u] = worker[u] /\ process'[u] = process[u]
                                  /\ step'[u] = step[u]
        /\ UNCHANGED <<stray, setting>>
    <3>1. \A u \in Tasks \ {t} : /\ worker'[u] = worker[u] /\ process'[u] = process[u]
                                 /\ step'[u] = step[u]
      BY <1>a, <2>0, ThreadFrame
    <3>2. UNCHANGED <<stray, setting>>
      BY <2>0, ThreadFrame DEF RunTask, RecoverExternalAction, BeginAttempt, RecordStart,
        Spawn, SpawnFails, Register, Prompt, SaveSession, Collect, Timeout, Interrupt,
        Reconcile, Keep, Mark, Settle, Drop, PromptFails, OutlivesSignals, workVars
    <3> QED
      BY <3>1, <3>2
  <2>7. Busy(t) => Waiting /\ t \in engine.todo
    BY DEF AliveInv
  <2>8. \A u \in Tasks : Busy(u)' => Waiting' /\ u \in engine'.todo
    <3>1. \A u \in Tasks : u # t => (Busy(u)' <=> Busy(u))
      BY <2>6 DEF Busy
    <3>2. Busy(t)' => Busy(t)
      BY <2>5 DEF Busy
    <3> QED
      BY <2>0, <2>7, <3>1, <3>2 DEF AliveInv, Waiting, At
  <2>9. At("repairing")' =>
          \A u, v \in Tasks : step'[u] # "idle" /\ step'[v] # "idle" => u = v
    BY <2>0, <2>1, <2>6 DEF AliveInv, At
  <2>10. \A u \in Tasks : Alive(u)' => /\ process'[u] # "none"
                                       /\ step'[u] = "wait" \/ GivenUp(u)'
                                       /\ step'[u] = "raised" => Leaving' \/ (Waiting' /\ u \in engine'.todo)
    <3> SUFFICES ASSUME NEW u \in Tasks, Alive(u)'
                 PROVE  /\ process'[u] # "none"
                        /\ step'[u] = "wait" \/ GivenUp(u)'
                        /\ step'[u] = "raised" => Leaving' \/ (Waiting' /\ u \in engine'.todo)
      OBVIOUS
    <3>1. CASE u # t
      <4>1. Alive(u) /\ (GivenUp(u) => GivenUp(u)')
        BY <2>6, <3>1 DEF Alive, GivenUp
      <4> QED
        BY <2>0, <2>2, <2>6, <3>1, <4>1 DEF AliveInv, ActingIsRegistered, Leaving, Waiting, At
    <3>2. CASE u = t /\ Busy(t)
      BY <2>0, <2>5, <2>7, <3>2 DEF Waiting, At
    <3>3. CASE u = t /\ ~Busy(t)
      BY <2>0, <2>5, <3>3 DEF AliveInv, Alive, Leaving, Waiting, At
    <3> QED
      BY <3>1, <3>2, <3>3
  <2> QED
    BY <2>0, <2>2, <2>5, <2>6, <2>8, <2>9, <2>10 DEF AliveInv, At, ActingIsRegistered
<1>7. ASSUME NEW t \in Tasks, WorkerProcess(t)
      PROVE  AliveInv'
  <2>0. RunWorker(t) /\ UNCHANGED <<job, engine>>
    BY <1>7 DEF WorkerProcess
  <2>1. /\ UNCHANGED <<setting, step, process>> /\ (Alive(t)' => Alive(t))
        /\ stray'[t] \subseteq stray[t]
        /\ \A u \in Tasks \ {t} : worker'[u] = worker[u] /\ stray'[u] = stray[u]
    BY <1>a, <2>0, WorkerFrame
  <2>2. \A u \in Tasks : (Alive(u)' => Alive(u)) /\ stray'[u] \subseteq stray[u]
    BY <2>1 DEF Alive
  <2> QED
    BY <2>0, <2>1, <2>2 DEF AliveInv, At, Waiting, Leaving, Busy, GivenUp, ActingIsRegistered
<1> QED
  BY <1>1, <1>2, <1>3, <1>4, <1>5, <1>6, <1>7 DEF Next

\* No worker is there at the start.
LEMMA InitAlive == Init => AliveInv
BY DEF Init, AliveInv, TasksInit, EngineOff, At, Waiting, Busy, Alive, NoWorker,
  ActingIsRegistered

-----------------------------------------------------------------------------
(* What is known of an action, and what is so.                             *)

\* The states of an action in the ledger in which no worker has heard of it.
Unheard == {"none", "verified-not-applied"}

OverStates == {"completed", "completed-reconciled"}

\* The places of the main thread once all tasks of the plan have succeeded.
Reviews == {"review", "list-integration", "reviewing", "repair", "repairing",
            "inspect", "merge", "check"}

\* A result, an output, an entry of the ledger and a thread that is about to
\* report a success: each means that the task has acted; a repair comes only
\* after that; and whoever is given an action finds it in the ledger.  Only a worker
\* that is not tame acts after a verification has found that nobody has.
TaskLedger(t) ==
  /\ Writes(t) =>
       /\ result[t] = "success" => Worked(t, 1)
       /\ \A a \in 1..MaxAttempts : output[t][a] = "success" => Worked(t, 1)
       /\ step[t] \in {"keep", "mark", "settle"} => Worked(t, 1)
       /\ run[t].round = 2 => Worked(t, 1)
       /\ Alive(t) /\ worker[t].round = 2 => Worked(t, 1)
       /\ \A w \in stray[t] : w.round = 2 => Worked(t, 1)
       /\ \A r \in Rounds : ledger[t][r] \in OverStates => Worked(t, 1)
  /\ step[t] \in {"register", "prompt", "wait"} => worker[t].round = run[t].round
  /\ step[t] = "drop" => run[t].outcome # "success"
  /\ plan.external =>
       /\ \A r \in Rounds : ledger[t][r] = "none" => ~Worked(t, r)
       /\ setting.tame =>
            \A r \in Rounds : ledger[t][r] = "verified-not-applied" => ~Worked(t, r)
       /\ \A w \in stray[t] : ledger[t][w.round] # "none"
       /\ Alive(t) => ledger[t][worker[t].round] \notin Unheard
       /\ step[t] \in {"spawn", "register", "prompt", "wait", "reconcile", "keep",
                      "mark", "settle"}
            => ledger[t][run[t].round] \notin Unheard
       /\ step[t] = "attempt" => ledger[t][run[t].round] = "verified-not-applied"

\* Nothing has happened yet.
Fresh(t) ==
  /\ step[t] = "idle" /\ worker[t] = NoWorker /\ stray[t] = {}
  /\ result[t] = "none" /\ run[t] = NoRun
  /\ \A r \in Rounds : applied[t][r] = {} /\ ledger[t][r] = "none"
  /\ \A a \in 1..MaxAttempts : output[t][a] = "none"

LedgerInv ==
  /\ At("plan") => plan = NoPlan
  /\ plan = NoPlan =>
       /\ engine.at \in {"off", "recover", "plan", "remove", "prune", "close"}
       /\ \A t \in Tasks : Fresh(t)
  /\ \A t \in Tasks : TaskLedger(t)
  /\ engine.at \in Reviews => \A t \in TasksOf(plan) : Writes(t) => Worked(t, 1)
  /\ At("repair") \/ At("repairing") => engine.todo \subseteq TasksOf(plan)

\* What a thread does keeps the ledger of its task true.
LEMMA ThreadLedger ==
  ASSUME TypeInv, NEW t \in Tasks, RunTask(t), TaskLedger(t),
         Alive(t) => step[t] \in {"wait", "raised"}
  PROVE  /\ TaskLedger(t)'
         /\ \A r \in Rounds : Worked(t, r)' <=> Worked(t, r)
<1>a. /\ DOMAIN result = Tasks /\ DOMAIN record = Tasks /\ DOMAIN process = Tasks
      /\ DOMAIN worker = Tasks /\ DOMAIN run = Tasks /\ DOMAIN step = Tasks
      /\ ledger \in [Tasks -> [Rounds -> LedgerStates]]
      /\ NoWorker.state = "none"
  BY DEF TypeInv, TasksTypeOK, NoWorker
<1>b. /\ DOMAIN run[t] = {"where", "single", "round", "attempt", "resume", "session",
                          "outcome", "settles"}
      /\ run[t].round \in {1, 2} /\ 1 \in Rounds /\ 2 \in Rounds
      /\ worker[t].round \in Rounds
      /\ DOMAIN worker[t] = {"state", "session", "resumed", "said", "round", "attempt",
                             "where", "ok"}
  BY DEF TypeInv, TasksTypeOK, Runs, Rounds, Workers
<1> DEFINE r == run[t].round
<1>c. ASSUME NEW status, SetLedger(t, status)
      PROVE  /\ ledger'[t][r] = status
             /\ \A q \in Rounds \ {r} : ledger'[t][q] = ledger[t][q]
  BY <1>a, <1>b, <1>c DEF SetLedger, Round
<1>d. Writes(t) /\ Worked(t, r) => Worked(t, 1)
  BY <1>b DEF TaskLedger
<1>e. UNCHANGED <<plan, setting, stray>>
  BY DEF RunTask, planVars, workVars, RecoverExternalAction, BeginAttempt, RecordStart,
      Spawn, SpawnFails, Register, Prompt, SaveSession, Collect, Timeout, Interrupt,
      Reconcile, Keep, Mark, Settle, Drop, PromptFails, OutlivesSignals
<1>f. "success" \in {"success"} /\ \A v \in Verdicts(t) :
        /\ v = "completed" => Worked(t, r)
        /\ v = "not_applied" => ~Worked(t, r)
  BY DEF Verdicts, Worked, Round
<1>g. ASSUME UNCHANGED applied,
             \A q \in Rounds : ledger'[t][q] = "none" => ledger[t][q] = "none",
             \A q \in Rounds : ledger'[t][q] = "verified-not-applied" =>
               ledger[t][q] = "verified-not-applied" \/ ~Worked(t, q)
      PROVE  plan'.external =>
               /\ \A q \in Rounds : ledger'[t][q] = "none" => ~Worked(t, q)'
               /\ setting'.tame =>
                    \A q \in Rounds : ledger'[t][q] = "verified-not-applied" => ~Worked(t, q)'
               /\ \A w \in stray'[t] : ledger'[t][w.round] # "none"
  <2>1. \A w \in stray[t] : w.round \in Rounds
    BY DEF TypeInv, TasksTypeOK, Workers
  <2> QED
    BY <1>e, <1>g, <2>1 DEF TaskLedger, Worked
<1>h. ASSUME UNCHANGED applied, Writes(t)
      PROVE  \A w \in stray'[t] : w.round = 2 => Worked(t, 1)'
  BY <1>e, <1>h DEF TaskLedger, Worked
<1> USE DEF TaskLedger, Fetch, filesVars, workVars, planVars, Alive, Writes, Unheard, OverStates
<1>1. CASE RecoverExternalAction(t)
  <2>1. PICK v \in Verdicts(t) :
          \/ v = "completed" /\ SetLedger(t, "completed-reconciled") /\ step'[t] = "keep"
          \/ v = "not_applied" /\ SetLedger(t, "verified-not-applied") /\ step'[t] = "attempt"
          \/ v = "uncertain" /\ UNCHANGED ledger /\ step'[t] = "returned"
          \/ SetLedger(t, "uncertain") /\ step'[t] = "drop"
    BY <1>a, <1>1 DEF RecoverExternalAction
  <2>2. /\ step[t] \in {"entered", "reconcile"} /\ UNCHANGED <<output, worker, applied>>
        /\ run'[t].round = r /\ (result'[t] = "success" => result[t] = "success")
        /\ step'[t] = "drop" => run'[t].outcome # "success"
    BY <1>a, <1>b, <1>1 DEF RecoverExternalAction
  <2>3. \A q \in Rounds :
          /\ ledger'[t][q] = "none" => ledger[t][q] = "none"
          /\ ledger'[t][q] = "verified-not-applied" =>
               ledger[t][q] = "verified-not-applied" \/ ~Worked(t, q)
    BY <1>b, <1>c, <1>f, <2>1
  <2>4. \A q \in Rounds : Worked(t, q)' <=> Worked(t, q)
    BY <2>2 DEF Worked
  <2> QED
    BY <1>a, <1>b, <1>c, <1>d, <1>e, <1>f, <1>g, <1>h, <2>1, <2>2, <2>3, <2>4
<1>2. CASE BeginAttempt(t)
  BY <1>a, <1>b, <1>2 DEF BeginAttempt, Worked
<1>3. CASE RecordStart(t)
  <2>1. PICK status : SetLedger(t, status) /\ status \notin Unheard /\ (status \in OverStates => step[t] = "settle")
    BY <1>3 DEF RecordStart
  <2>2. /\ UNCHANGED <<result, output, worker, applied, run>>
        /\ step'[t] \in {"spawn", "returned"}
        /\ step[t] \in {"record", "settle"}
    BY <1>a, <1>3 DEF RecordStart
  <2>3. \A q \in Rounds : /\ ledger'[t][q] \in Unheard => ledger[t][q] = ledger'[t][q]
                          /\ Worked(t, q)' <=> Worked(t, q)
    BY <1>b, <1>c, <2>1, <2>2 DEF Worked
  <2> QED
    BY <1>a, <1>b, <1>c, <1>e, <1>g, <1>h, <2>1, <2>2, <2>3
<1>4. CASE Spawn(t)
  <2>1. \A q \in Rounds : Worked(t, q)' <=> Worked(t, q)
    BY <1>4 DEF Spawn, TypeInv, TasksTypeOK, Forget, Worked
  <2>2. /\ worker'[t].state # "prompted" /\ worker'[t].round = r
        /\ UNCHANGED <<result, ledger, output, run>>
        /\ step[t] = "spawn" /\ step'[t] = "register"
    BY <1>a, <1>4 DEF Spawn, NoWorker, Round
  <2> QED
    BY <1>b, <1>e, <2>1, <2>2
<1>5. CASE SpawnFails(t)
  BY <1>a, <1>b, <1>5 DEF SpawnFails, Worked
<1>6. CASE Register(t)
  BY <1>a, <1>b, <1>6 DEF Register, Worked
<1>7. CASE Prompt(t)
  BY <1>a, <1>b, <1>7 DEF Prompt, Worked
<1>8. CASE SaveSession(t)
  BY <1>a, <1>b, <1>8 DEF SaveSession, Worked
<1>9. CASE Collect(t)
  <2>1. PICK outcome :
          /\ outcome = "success" => output[t][ActualAttempt(t)] = "success"
          /\ IF plan.external /\ outcome # "success"
               THEN SetLedger(t, "uncertain") ELSE UNCHANGED ledger
          /\ step'[t] = IF outcome = "success" THEN "keep"
                        ELSE IF plan.external THEN "reconcile"
                        ELSE IF run'[t].attempt > run[t].attempt THEN "attempt"
                        ELSE "drop"
          /\ run'[t].round = r /\ run'[t].outcome = outcome
    BY <1>a, <1>b, <1>9 DEF Collect, Judge, Outcome
  <2>2. /\ worker'[t] = NoWorker /\ UNCHANGED <<applied, result, output>>
        /\ step[t] = "wait"
    BY <1>a, <1>9 DEF Collect
  <2>3. outcome = "success" /\ Writes(t) => Worked(t, 1)
    BY <2>1, AttemptType DEF TypeInv
  <2>4. \A q \in Rounds : /\ ledger'[t][q] \in OverStates => ledger[t][q] \in OverStates
                          /\ ledger'[t][q] \in Unheard => ledger[t][q] = ledger'[t][q]
                          /\ Worked(t, q)' <=> Worked(t, q)
    BY <1>b, <1>c, <2>1, <2>2 DEF Worked
  <2> QED
    BY <1>a, <1>b, <1>e, <1>g, <1>h, <2>1, <2>2, <2>3, <2>4
<1>10. CASE Timeout(t)
  <2>1. PICK outcome :
          /\ outcome = "success" => output[t][ActualAttempt(t)] = "success"
          /\ IF plan.external /\ outcome # "success"
               THEN SetLedger(t, "uncertain") ELSE UNCHANGED ledger
          /\ step'[t] = IF outcome = "success" THEN "keep"
                        ELSE IF plan.external THEN "reconcile"
                        ELSE IF run'[t].attempt > run[t].attempt THEN "attempt"
                        ELSE "drop"
          /\ run'[t].round = r /\ run'[t].outcome = outcome
    BY <1>a, <1>b, <1>10 DEF Timeout, Judge, Outcome
  <2>2. /\ worker'[t] = NoWorker /\ UNCHANGED <<applied, result, output>>
        /\ step[t] = "wait"
    BY <1>a, <1>10 DEF Timeout
  <2>3. outcome = "success" /\ Writes(t) => Worked(t, 1)
    BY <2>1, AttemptType DEF TypeInv
  <2>4. \A q \in Rounds : /\ ledger'[t][q] \in OverStates => ledger[t][q] \in OverStates
                          /\ ledger'[t][q] \in Unheard => ledger[t][q] = ledger'[t][q]
                          /\ Worked(t, q)' <=> Worked(t, q)
    BY <1>b, <1>c, <2>1, <2>2 DEF Worked
  <2> QED
    BY <1>a, <1>b, <1>e, <1>g, <1>h, <2>1, <2>2, <2>3, <2>4
<1>11. CASE Interrupt(t)
  BY <1>a, <1>b, <1>11 DEF Interrupt, Worked
<1>12. CASE Reconcile(t)
  <2>1. PICK v \in Verdicts(t) :
          \/ v = "completed" /\ SetLedger(t, "completed-reconciled") /\ step'[t] = "keep"
          \/ v = "not_applied" /\ SetLedger(t, "verified-not-applied") /\ step'[t] = "attempt"
          \/ v = "uncertain" /\ UNCHANGED ledger /\ step'[t] = "returned"
          \/ SetLedger(t, "uncertain") /\ step'[t] = "drop"
    BY <1>a, <1>12 DEF Reconcile
  <2>2. /\ step[t] \in {"entered", "reconcile"} /\ UNCHANGED <<output, worker, applied>>
        /\ run'[t].round = r /\ (result'[t] = "success" => result[t] = "success")
        /\ step'[t] = "drop" => run'[t].outcome # "success"
    BY <1>a, <1>b, <1>12 DEF Reconcile
  <2>3. \A q \in Rounds :
          /\ ledger'[t][q] = "none" => ledger[t][q] = "none"
          /\ ledger'[t][q] = "verified-not-applied" =>
               ledger[t][q] = "verified-not-applied" \/ ~Worked(t, q)
    BY <1>b, <1>c, <1>f, <2>1
  <2>4. \A q \in Rounds : Worked(t, q)' <=> Worked(t, q)
    BY <2>2 DEF Worked
  <2> QED
    BY <1>a, <1>b, <1>c, <1>d, <1>e, <1>f, <1>g, <1>h, <2>1, <2>2, <2>3, <2>4
<1>13. CASE Keep(t)
  BY <1>a, <1>b, <1>13 DEF Keep, Worked
<1>14. CASE Mark(t)
  BY <1>a, <1>b, <1>14 DEF Mark, Worked
<1>15. CASE Settle(t)
  <2>1. PICK status : SetLedger(t, status) /\ status \notin Unheard /\ (status \in OverStates => step[t] = "settle")
    BY <1>15 DEF Settle
  <2>2. /\ UNCHANGED <<result, output, worker, applied, run>>
        /\ step'[t] \in {"spawn", "returned"}
        /\ step[t] \in {"record", "settle"}
    BY <1>a, <1>15 DEF Settle
  <2>3. \A q \in Rounds : /\ ledger'[t][q] \in Unheard => ledger[t][q] = ledger'[t][q]
                          /\ Worked(t, q)' <=> Worked(t, q)
    BY <1>b, <1>c, <2>1, <2>2 DEF Worked
  <2> QED
    BY <1>a, <1>b, <1>c, <1>e, <1>g, <1>h, <2>1, <2>2, <2>3
<1>16. CASE Drop(t)
  BY <1>a, <1>b, <1>16 DEF Drop, Worked
<1>17. CASE PromptFails(t)
  BY <1>a, <1>b, <1>17 DEF PromptFails, Worked
<1>18. CASE OutlivesSignals(t)
  BY <1>a, <1>b, <1>18 DEF OutlivesSignals, Worked
<1> QED
  BY <1>1, <1>2, <1>3, <1>4, <1>5, <1>6, <1>7, <1>8, <1>9, <1>10, <1>11, <1>12, <1>13, <1>14, <1>15, <1>16, <1>17, <1>18
  DEF RunTask

\* So does what a worker does.
LEMMA WorkerLedger ==
  ASSUME TypeInv, NEW t \in Tasks, RunWorker(t), TaskLedger(t),
         setting.tame => stray[t] = {}
  PROVE  /\ TaskLedger(t)'
         /\ \A r \in Rounds : Worked(t, r) => Worked(t, r)'
<1>a. /\ DOMAIN worker = Tasks
      /\ output \in [Tasks -> [1..MaxAttempts -> {"none", "success"} \cup Failures]]
      /\ applied \in [Tasks -> [Rounds -> SUBSET ({Forgotten} \cup Sessions)]]
      /\ \A w \in stray[t] \cup {worker[t]} : w.round \in {1, 2}
      /\ Rounds = {1, 2}
  BY DEF TypeInv, TasksTypeOK, Workers, Rounds
<1>b. /\ Alive(t)' => Alive(t)
      /\ worker'[t].round = worker[t].round /\ stray'[t] \subseteq stray[t]
      /\ UNCHANGED <<plan, setting, result, ledger, run, step>>
  BY WorkerFrame DEF TypeInv, planVars
<1> USE DEF TaskLedger, Writes, Unheard, OverStates
\* Who may act.
<1> DEFINE Acting == {w \in stray[t] \cup {worker[t]} : w \in stray[t] \/ Alive(t)}
<1>1. ASSUME NEW w \in Acting, WorkOf(t, w), UNCHANGED output
      PROVE  /\ TaskLedger(t)'
             /\ \A r \in Rounds : Worked(t, r) => Worked(t, r)'
  <2>1. \/ UNCHANGED applied
        \/ applied' = [applied EXCEPT ![t][w.round] = @ \cup {w.session}]
    BY <1>1 DEF WorkOf
  <2>2. \A r \in Rounds : /\ Worked(t, r) => Worked(t, r)'
                          /\ Worked(t, r)' => Worked(t, r) \/ r = w.round
    BY <1>a, <2>1 DEF Worked
  <2>3. plan.external =>
          /\ ledger[t][w.round] # "none"
          /\ setting.tame => ledger[t][w.round] # "verified-not-applied"
    BY <1>1
  <2>4. /\ plan.external =>
             /\ \A r \in Rounds : ledger[t][r] = "none" => ~Worked(t, r)'
             /\ setting.tame =>
                  \A r \in Rounds : ledger[t][r] = "verified-not-applied" => ~Worked(t, r)'
        /\ \A r \in Rounds : Worked(t, r) => Worked(t, r)'
    BY <2>2, <2>3
  <2> QED
    BY <1>a, <1>b, <1>1, <2>4
<1>2. ASSUME NEW w \in Acting, NEW ok \in BOOLEAN, ExitOf(t, w, ok), UNCHANGED applied
      PROVE  /\ TaskLedger(t)'
             /\ \A r \in Rounds : Worked(t, r) => Worked(t, r)'
  <2>1. PICK out : /\ out = "success" /\ Writes(t) => Worked(t, w.round)
                   /\ output' = IF out = "none" THEN output
                                ELSE [output EXCEPT ![t][w.attempt] = out]
    BY <1>2 DEF ExitOf
  <2>2. \A r \in Rounds : Worked(t, r)' <=> Worked(t, r)
    BY <1>2 DEF Worked
  <2>3. \A a \in 1..MaxAttempts : output'[t][a] = "success" => output[t][a] = "success" \/ out = "success"
    BY <1>a, <2>1
  <2>4. Writes(t) /\ out = "success" => Worked(t, 1)
    BY <1>a, <1>2, <2>1
  <2> QED
    BY <1>a, <1>b, <2>2, <2>3, <2>4
<1>3. CASE Heed(t) \/ Announce(t)
  <2>1. UNCHANGED <<output, applied>>
    BY <1>3 DEF Heed, Announce, filesVars
  <2> QED
    BY <1>a, <1>b, <2>1 DEF Worked
<1>4. CASE Work(t)
  BY <1>1, <1>4 DEF Work, filesVars
<1>5. CASE Exit(t)
  BY <1>2, <1>5 DEF Exit
<1>6. CASE StrayWorks(t)
  BY <1>1, <1>6 DEF StrayWorks, filesVars
<1>7. CASE StrayExits(t)
  BY <1>2, <1>7 DEF StrayExits
<1> QED
  BY <1>3, <1>4, <1>5, <1>6, <1>7 DEF RunWorker

\* What is so of a task stays so, when its thread stands still or is at its
\* start or end.
LEMMA TaskKept ==
  ASSUME NEW t \in Tasks, TaskLedger(t),
         UNCHANGED <<plan, setting, applied, output, ledger, worker, stray>>,
         result'[t] = "success" => result[t] = "success",
         \/ step'[t] = step[t] /\ run'[t] = run[t]
         \/ /\ step'[t] \in {"idle", "entered"}
            /\ run'[t].round = 2 /\ Writes(t) => Worked(t, 1)
  PROVE  TaskLedger(t)'
BY DEF TaskLedger, Worked, Alive, Writes

\* Where the steps of the main thread away from its threads lead: to the review
\* only from the review, and to repairs of tasks of the plan.
LEMMA CalmPhases ==
  ASSUME TypeInv, CalmStep
  PROVE  /\ engine'.at \in Reviews => engine.at \in Reviews
         /\ engine'.at = "repair" => engine'.todo \subseteq TasksOf(plan)
         /\ engine'.at = "plan" => engine.at = "plan" /\ UNCHANGED plan
         /\ \/ PlannerAnswers /\ engine'.at = "prepare"
            \/ /\ UNCHANGED plan
               /\ engine.at \in {"plan", "remove", "prune", "close"}
                    => engine'.at \in {"plan", "remove", "prune", "close"}
<1>a. DOMAIN engine = {"at", "info", "answers", "wave", "todo", "ultraUsed", "pass",
                       "changed", "unrepaired", "protected", "verdict", "kept"}
  BY DEF TypeInv, Engines
<1> USE <1>a DEF At, Reviews, taskVars, planVars
<1>1. CASE PlannerAnswers
  BY <1>1 DEF PlannerAnswers, Failed
<1>2. CASE PlannerFails
  BY <1>2 DEF PlannerFails, Failed
<1>3. CASE AddTaskTree
  BY <1>3 DEF AddTaskTree, Failed
<1>4. CASE ListTaskTree
  BY <1>4 DEF ListTaskTree
<1>5. CASE ApproveUnreviewed
  BY <1>5 DEF ApproveUnreviewed
<1>6. CASE StartReview
  BY <1>6 DEF StartReview, Failed
<1>7. CASE ListIntegration
  BY <1>7 DEF ListIntegration
<1>8. CASE Approve
  BY <1>8 DEF Approve
<1>9. CASE Refuse
  BY <1>9 DEF Refuse, Failed
<1>10. CASE AskRepair
  BY <1>10 DEF AskRepair, Failed
<1>11. CASE ReviewAgain
  BY <1>11 DEF ReviewAgain, Failed
<1>12. CASE InspectCheckout
  <2>1. \/ engine' = [engine EXCEPT !.at = "merge"]
        \/ engine' = [engine EXCEPT !.at = "check"]
        \/ engine' = Failed(engine)
        \/ engine' = Failed([engine EXCEPT !.protected = {Integration}])
    BY <1>12 DEF InspectCheckout, Inspection
  <2>2. Failed(engine).at = "remove" /\ Failed([engine EXCEPT !.protected = {Integration}]).at = "remove"
    BY DEF Failed
  <2>3. engine'.at \in {"merge", "check", "remove"}
    BY <2>1, <2>2
  <2> QED
    BY <1>12, <2>3 DEF InspectCheckout
<1>13. CASE Merge
  BY <1>13 DEF Merge, Failed
<1>14. CASE CheckDiff
  BY <1>14 DEF CheckDiff, Failed
<1>15. CASE CleanTrees
  BY <1>15 DEF CleanTrees
<1>16. CASE Prune
  BY <1>16 DEF Prune
<1> QED
  BY <1>1, <1>2, <1>3, <1>4, <1>5, <1>6, <1>7, <1>8, <1>9, <1>10, <1>11, <1>12, <1>13, <1>14, <1>15, <1>16
  DEF CalmStep

\* The main thread keeps LedgerInv: it touches results and threads, never the ledger.
LEMMA MainLedger ==
  ASSUME TypeInv, AliveInv, LedgerInv, MainThread
  PROVE  LedgerInv'
<1>a. /\ DOMAIN engine = {"at", "info", "answers", "wave", "todo", "ultraUsed", "pass",
                          "changed", "unrepaired", "protected", "verdict", "kept"}
      /\ engine.todo \subseteq Tasks
      /\ DOMAIN step = Tasks /\ DOMAIN run = Tasks
  BY DEF TypeInv, Engines, TasksTypeOK
<1>b. \A t \in Tasks : TaskLedger(t)
  BY DEF LedgerInv
<1>c. ASSUME UNCHANGED <<plan, setting, applied, output, ledger, worker, stray, result, run, step>>
      PROVE  /\ \A t \in Tasks : TaskLedger(t)'
             /\ (\A t \in Tasks : Fresh(t)) => \A t \in Tasks : Fresh(t)'
             /\ \A t \in Tasks : (Writes(t) => Worked(t, 1)) => (Writes(t) => Worked(t, 1))'
  BY <1>b, <1>c, TaskKept DEF Fresh, Writes, Worked
<1>1. CASE CalmStep
  <2>1. /\ UNCHANGED <<setting, applied, output, ledger, worker, stray, result, run, step>>
        /\ engine'.at \in CalmPlaces
    BY <1>1, CalmSteps DEF filesVars, workVars
  <2>2. CASE PlannerAnswers /\ engine'.at = "prepare" /\ ~UNCHANGED plan
    <3>1. plan = NoPlan /\ \A t \in Tasks : Fresh(t)
      BY <2>2 DEF PlannerAnswers, LedgerInv
    <3>2. \A t \in Tasks : TaskLedger(t)'
      BY <2>1, <3>1 DEF TaskLedger, Fresh, NoRun, NoWorker, Worked, Alive, OverStates, Unheard
    <3>3. plan' # NoPlan
      BY <2>2, PlannerType DEF NoPlan
    <3> QED
      BY <2>2, <3>2, <3>3 DEF LedgerInv, At, Reviews
  <2>3. CASE UNCHANGED plan
    <3>1. PlannerAnswers => At("plan")
      BY DEF PlannerAnswers
    <3>2. /\ engine'.at \in Reviews => engine.at \in Reviews
          /\ engine'.at = "repair" => engine'.todo \subseteq TasksOf(plan)
          /\ engine'.at = "plan" => engine.at = "plan"
          /\ \/ PlannerAnswers /\ engine'.at = "prepare"
             \/ engine.at \in {"plan", "remove", "prune", "close"}
                    => engine'.at \in {"plan", "remove", "prune", "close"}
      BY <1>1, CalmPhases
    <3>3. engine.at \notin {"off", "recover"} /\ engine'.at # "repairing"
      BY <1>1, CalmSteps DEF CalmPlaces
    <3>4. PlannerAnswers /\ engine'.at = "prepare" => plan # NoPlan
      <4>1. ASSUME PlannerAnswers, engine'.at = "prepare" PROVE plan'.mode # "none"
        <5>1. engine.at = "plan"
          BY <4>1 DEF PlannerAnswers, At
        <5>2. /\ [engine EXCEPT !.answers = 1].at = "plan"
              /\ Failed(engine).at = "remove"
          BY <1>a, <5>1 DEF Failed
        <5>3. PICK raw \in setting.raws :
                plan' = ForWorkspace(UnderCeiling(Validated(raw), setting.authority),
                                     engine.info.dirty)
          BY <4>1, <5>2 DEF PlannerAnswers
        <5>4. raw \in Plan
          BY SettingsAssumption DEF TypeInv, Setting, RawPlan
        <5> QED
          BY <5>3, <5>4 DEF ForWorkspace, UnderCeiling, Validated, Plan, Modes
      <4> QED
        BY <2>3, <4>1 DEF NoPlan
    <3>5. \A t \in Tasks : TaskLedger(t)'
      BY <1>c, <2>1, <2>3
    <3>6. plan' = NoPlan =>
            /\ engine'.at \in {"off", "recover", "plan", "remove", "prune", "close"}
            /\ \A t \in Tasks : Fresh(t)'
      BY <1>c, <2>1, <2>3, <3>2, <3>3, <3>4 DEF LedgerInv
    <3>7. engine'.at \in Reviews => \A t \in TasksOf(plan') : (Writes(t) => Worked(t, 1))'
      BY <2>1, <2>3, <3>2 DEF LedgerInv, Writes, Worked
    <3> QED
      BY <2>3, <3>2, <3>3, <3>5, <3>6, <3>7 DEF LedgerInv, At
  <2> QED
    BY <1>1, <2>2, <2>3, CalmPhases
<1>2. CASE Open
  <2>1. UNCHANGED <<plan, setting, applied, output, ledger, worker, stray, run, step>>
        /\ \A t \in Tasks : result'[t] = IF result[t] = "success" THEN "success" ELSE "none"
    BY <1>2 DEF Open, planVars, workVars
  <2>2. \A t \in Tasks : TaskLedger(t)'
    BY <1>b, <2>1, TaskKept
  <2>3. (\A t \in Tasks : Fresh(t)) => \A t \in Tasks : Fresh(t)'
    BY <2>1 DEF Fresh
  <2>4. engine'.at = IF plan = NoPlan THEN "plan" ELSE "prepare"
    BY <1>2, <1>a DEF Open
  <2> QED
    BY <2>1, <2>2, <2>3, <2>4 DEF LedgerInv, At, Reviews
<1>d. CASE At("prepare") \/ Waiting \/ At("repair")
  <2>1. plan # NoPlan
    BY <1>d DEF LedgerInv, At, Waiting
  <2> QED
    <3>3. CASE StartWave
      <4>1. /\ UNCHANGED <<plan, setting, applied, output, ledger, worker, stray>>
            /\ \A t \in Tasks : /\ result'[t] \in {"blocked", result[t]}
                                /\ run'[t].round = 1 /\ step'[t] \in {"entered", "idle"}
            /\ engine'.at = "join"
        BY <3>3, <1>a DEF StartWave, planVars, workVars, NoRun
      <4>2. \A t \in Tasks : TaskLedger(t)'
        BY <1>b, <4>1, TaskKept
      <4> QED
        BY <2>1, <4>1, <4>2 DEF LedgerInv, At, Reviews
    <3>4. CASE Join
      <4>1. UNCHANGED <<plan, setting, applied, output, ledger, worker, stray, result>>
        BY <3>4 DEF Join, planVars, workVars, filesVars
      <4>2. \A t \in Tasks : \/ run'[t] = run[t] /\ step'[t] = step[t]
                             \/ run'[t].round = 1 /\ step'[t] \in {"idle", "entered"}
        <5>1. CASE UNCHANGED <<run, step>>
          BY <5>1
        <5>2. CASE run' = [t \in Tasks |-> NoRun] /\ step' = [t \in Tasks |-> "idle"]
          BY <5>2 DEF NoRun
        <5>3. CASE \E t \in Candidates :
                     /\ run' = [run EXCEPT ![t] = [NoRun EXCEPT !.where = run[t].where,
                                                                !.single = TRUE]]
                     /\ step' = [step EXCEPT ![t] = "entered"]
          <6>1. PICK t \in Candidates :
                     /\ run' = [run EXCEPT ![t] = [NoRun EXCEPT !.where = run[t].where,
                                                                !.single = TRUE]]
                     /\ step' = [step EXCEPT ![t] = "entered"]
            BY <5>3
          <6>2. [NoRun EXCEPT !.where = run[t].where, !.single = TRUE].round = 1
            BY DEF NoRun
          <6> QED
            BY <1>a, <6>1, <6>2
        <5> QED
          BY <3>4, <5>1, <5>2, <5>3 DEF Join
      <4>3. \A t \in Tasks : TaskLedger(t)'
        BY <1>b, <4>1, <4>2, TaskKept
      <4>4. \/ engine' = Failed(engine)
            \/ \E t \in Candidates :
                 engine' = [engine EXCEPT !.at = "ultra", !.todo = {t}, !.ultraUsed = TRUE]
            \/ NextWave
        BY <3>4 DEF Join
      <4>5. engine'.at \in {"remove", "ultra", "prepare", "review"}
        BY <1>a, <4>4 DEF NextWave, Failed
      <4>6. engine'.at = "review" => \A t \in TasksOf(plan) : result[t] = "success"
        BY <1>a, <4>4 DEF NextWave, Failed
      <4>7. engine'.at = "review" => \A t \in TasksOf(plan) : Writes(t) => Worked(t, 1)
        BY <1>b, <4>6 DEF TaskLedger, TasksOf, TasksIn
      <4> QED
        BY <2>1, <4>1, <4>3, <4>5, <4>7 DEF LedgerInv, At, Reviews, Writes, Worked
    <3>5. CASE StartRepair
      <4>1. /\ UNCHANGED <<plan, setting, applied, output, ledger, worker, stray, result>>
            /\ At("repair")
        BY <3>5 DEF StartRepair, planVars, workVars, filesVars
      <4>2. \A t \in Tasks : \/ run'[t] = run[t] /\ step'[t] = step[t]
                             \/ run'[t].round = 1 /\ step'[t] \in {"idle", "entered"}
                             \/ t \in engine.todo /\ step'[t] \in {"idle", "entered"}
        BY <3>5, <1>a DEF StartRepair, NoRun
      <4>3. \A t \in engine.todo : Writes(t) => Worked(t, 1)
        BY <4>1 DEF LedgerInv, At, Reviews
      <4>4. \A t \in Tasks : TaskLedger(t)'
        BY <1>b, <4>1, <4>2, <4>3, TaskKept
      <4>5. engine'.at \in {"repair", "repairing"} /\ engine'.todo \subseteq engine.todo
        <5>1. \A t : LET e == [engine EXCEPT !.todo = @ \ {t}, !.unrepaired = TRUE] IN
                     e.at = engine.at /\ e.todo \subseteq engine.todo
          BY <1>a
        <5>2. LET e == [engine EXCEPT !.at = "repairing"] IN
                e.at = "repairing" /\ e.todo = engine.todo
          BY <1>a
        <5> QED
          BY <3>5, <4>1, <5>1, <5>2 DEF StartRepair, At
      <4> QED
        BY <2>1, <4>1, <4>4, <4>5 DEF LedgerInv, At, Reviews, Writes, Worked
    <3>6. CASE EndRepair
      <4>1. /\ UNCHANGED <<plan, setting, applied, output, ledger, worker, stray, result, run>>
            /\ At("repairing")
        BY <3>6 DEF EndRepair, planVars, workVars, filesVars
      <4>2. \A t \in Tasks : step'[t] \in {step[t], "idle"}
        BY <3>6, <1>a DEF EndRepair
      <4>3. \A t \in Tasks : TaskLedger(t)'
        <5>1. \A t \in Tasks : run[t].round = 2 /\ Writes(t) => Worked(t, 1)
          BY <1>b DEF TaskLedger
        <5> QED
          BY <1>b, <4>1, <4>2, <5>1, TaskKept
      <4>4. engine'.at \in {"repair", "remove"} /\ engine'.todo \subseteq engine.todo
        BY <3>6, <1>a DEF EndRepair, Failed
      <4> QED
        BY <2>1, <4>1, <4>3, <4>4 DEF LedgerInv, At, Reviews, Writes, Worked
    <3> QED
      BY <1>d, <3>3, <3>4, <3>5, <3>6, <1>1, <1>2 DEF MainThread, CalmStep, At, Waiting, Close
<1>7. CASE Close
  <2>1. UNCHANGED <<plan, setting, applied, output, ledger, worker, stray, result>>
        /\ engine'.at = "off"
        /\ \A t \in Tasks : step'[t] = "idle" /\ run'[t] = NoRun
    BY <1>7 DEF Close, planVars, workVars, filesVars, EngineOff
  <2>2. \A t \in Tasks : TaskLedger(t)'
    BY <1>b, <2>1, TaskKept DEF NoRun
  <2>3. (\A t \in Tasks : Fresh(t)) => \A t \in Tasks : Fresh(t)'
    BY <2>1 DEF Fresh
  <2> QED
    BY <2>1, <2>2, <2>3 DEF LedgerInv, At, Reviews
<1> QED
  BY <1>1, <1>2, <1>d, <1>7 DEF MainThread, CalmStep, StartWave, Join, StartRepair, EndRepair, Waiting

\* Every step of the system keeps LedgerInv, a crash included.
LEMMA StepLedger ==
  ASSUME TypeInv, AliveInv, LedgerInv, [Next]_vars
  PROVE  LedgerInv'
<1>a. TasksTypeOK /\ \A t \in Tasks : TaskLedger(t)
  BY DEF TypeInv, LedgerInv
<1>b. ASSUME UNCHANGED <<plan, setting, applied, output, ledger, worker, stray, result, run, step>>,
             \/ engine'.at = engine.at /\ engine'.todo = engine.todo
             \/ At("off") /\ engine'.at = "recover"
      PROVE  LedgerInv'
  <2>1. \A t \in Tasks : TaskLedger(t)'
    BY <1>a, <1>b, TaskKept
  <2> QED
    BY <1>b, <2>1 DEF LedgerInv, At, Reviews, Fresh, Writes, Worked
<1>1. CASE Launch
  BY <1>1, <1>b DEF Launch, EngineOff, taskVars, planVars, filesVars, workVars
<1>2. CASE MainThread
  BY <1>2, MainLedger
<1>3. CASE ReviewerMerges \/ UserActs \/ Over \/ UNCHANGED vars
  BY <1>3, <1>b DEF ReviewerMerges, UserActs, Over, vars, taskVars, planVars, filesVars, workVars
<1>4. CASE Crash
  <2>1. /\ UNCHANGED <<plan, setting, stray, applied, output, ledger, result>> /\ engine'.at = "off"
        /\ \A t \in Tasks : step'[t] = "idle" /\ run'[t] = NoRun
    BY <1>4 DEF Crash, ThreadsDie, EngineOff, planVars, filesVars
  <2>2. \A t \in Tasks : Alive(t)' => Alive(t) /\ worker'[t] = worker[t]
    BY <1>4 DEF Crash, ThreadsDie, Alive, NoWorker
  <2>4. \A t \in Tasks : worker[t] = NoWorker => worker'[t] = NoWorker
    BY <1>4 DEF Crash, ThreadsDie
  <2>3. \A t \in Tasks : TaskLedger(t)'
    <3> SUFFICES ASSUME NEW t \in Tasks PROVE TaskLedger(t)'
      OBVIOUS
    <3>1. TaskLedger(t)
      BY <1>a
    <3> QED
      BY <2>1, <2>2, <3>1 DEF TaskLedger, NoRun, Worked, Writes
  <2> QED
    BY <2>1, <2>2, <2>3, <2>4 DEF LedgerInv, At, Reviews, Fresh
<1>5. ASSUME NEW t \in Tasks, RecoverOrphan(t)
      PROVE  LedgerInv'
  <2>1. /\ UNCHANGED <<plan, setting, applied, output, ledger, result, run, step, engine>>
        /\ At("recover")
        /\ worker' = [worker EXCEPT ![t] = NoWorker]
    BY <1>5 DEF RecoverOrphan, ReconcileOrphan, planVars
  <2>2. \A u \in Tasks : step[u] = "idle"
    BY <2>1 DEF AliveInv
  <2>3. \A u \in Tasks : Alive(u)' => Alive(u) /\ worker'[u] = worker[u]
    BY <1>a, <2>1 DEF Alive, NoWorker, TasksTypeOK
  <2>5. \A u \in Tasks : \A w \in stray'[u] :
          w \in stray[u] \/ (Alive(u) /\ w.round = worker[u].round)
    <3>1. CASE UNCHANGED stray
      BY <3>1
    <3>2. CASE Alive(t) /\ stray' = [stray EXCEPT ![t] = @ \cup
                       {[worker[t] EXCEPT !.session = Forgotten, !.said = TRUE]}]
      <4>1. [worker[t] EXCEPT !.session = Forgotten, !.said = TRUE].round = worker[t].round
        BY <1>a DEF TasksTypeOK, Workers
      <4> QED
        BY <1>a, <3>2, <4>1 DEF TasksTypeOK
    <3> QED
      BY <1>5, <3>1, <3>2 DEF RecoverOrphan, ReconcileOrphan
  <2>6. (\A u \in Tasks : Fresh(u)) => \A u \in Tasks : Fresh(u)'
    <3>1. ASSUME \A u \in Tasks : Fresh(u)
          PROVE  UNCHANGED stray
      <4>1. ~Alive(t)
        BY <3>1 DEF Fresh, Alive, NoWorker
      <4> QED
        BY <1>5, <4>1 DEF RecoverOrphan, ReconcileOrphan
    <3> QED
      BY <1>a, <2>1, <3>1 DEF Fresh, TasksTypeOK
  <2>4. \A u \in Tasks : TaskLedger(u)'
    <3> SUFFICES ASSUME NEW u \in Tasks PROVE TaskLedger(u)'
      OBVIOUS
    <3>1. TaskLedger(u)
      BY <1>a
    <3> QED
      BY <2>1, <2>2, <2>3, <2>5, <3>1 DEF TaskLedger, Worked, Writes, Unheard
  <2> QED
    BY <2>1, <2>4, <2>6 DEF LedgerInv, At, Reviews, Writes, Worked
<1>d. ASSUME NEW t \in Tasks, UNCHANGED <<plan, engine>>, TaskLedger(t)', ~Fresh(t),
             \A u \in Tasks \ {t} : TaskLedger(u)',
             \A u \in Tasks : Worked(u, 1) => Worked(u, 1)'
      PROVE  LedgerInv'
  <2>1. TasksOf(plan) \subseteq Tasks
    BY DEF TasksOf, TasksIn
  <2>2. plan # NoPlan
    BY <1>d DEF LedgerInv
  <2>3. \A u \in Tasks : TaskLedger(u)'
    BY <1>d
  <2> QED
    BY <1>d, <2>1, <2>2, <2>3 DEF LedgerInv, At, Reviews, Writes
<1>6. ASSUME NEW t \in Tasks, TaskThread(t)
      PROVE  LedgerInv'
  <2>0. RunTask(t) /\ UNCHANGED <<job, engine>>
    BY <1>6 DEF TaskThread
  <2>1. step[t] # "idle"
    BY <2>0 DEF RunTask, RecoverExternalAction, BeginAttempt, RecordStart,
      Spawn, SpawnFails, Register, Prompt, SaveSession, Collect, Timeout, Interrupt,
      Reconcile, Keep, Mark, Settle, Drop, PromptFails, OutlivesSignals
  <2>2. Alive(t) => step[t] \in {"wait", "raised"}
    BY <2>1 DEF AliveInv, GivenUp
  <2>3. TaskLedger(t)' /\ \A r \in Rounds : Worked(t, r)' <=> Worked(t, r)
    BY <1>a, <2>0, <2>2, ThreadLedger
  <2>4. UNCHANGED <<plan, setting, stray>>
    BY <2>0 DEF RunTask, planVars, workVars, RecoverExternalAction, BeginAttempt, RecordStart,
      Spawn, SpawnFails, Register, Prompt, SaveSession, Collect, Timeout, Interrupt,
      Reconcile, Keep, Mark, Settle, Drop, PromptFails, OutlivesSignals
  <2>5. \A u \in Tasks \ {t} : TaskLedger(u)' /\ (Worked(u, 1) => Worked(u, 1)')
    <3> SUFFICES ASSUME NEW u \in Tasks \ {t}
                 PROVE  TaskLedger(u)' /\ (Worked(u, 1) => Worked(u, 1)')
      OBVIOUS
    <3>1. /\ result'[u] = result[u] /\ ledger'[u] = ledger[u]
          /\ worker'[u] = worker[u] /\ applied'[u] = applied[u]
          /\ run'[u] = run[u] /\ step'[u] = step[u] /\ UNCHANGED output
      BY <1>a, <2>0, ThreadFrame
    <3>2. TaskLedger(u)
      BY <1>a
    <3> QED
      BY <2>4, <3>1, <3>2 DEF TaskLedger, Worked, Writes, Alive
  <2>6. 1 \in Rounds /\ ~Fresh(t)
    BY <2>1 DEF Rounds, Fresh
  <2> QED
    BY <1>d, <2>0, <2>3, <2>4, <2>5, <2>6
<1>7. ASSUME NEW t \in Tasks, WorkerProcess(t)
      PROVE  LedgerInv'
  <2>0. RunWorker(t) /\ UNCHANGED engine
    BY <1>7 DEF WorkerProcess
  <2>1. TaskLedger(t)' /\ \A r \in Rounds : Worked(t, r) => Worked(t, r)'
    BY <1>a, <2>0, WorkerLedger DEF AliveInv
  <2>2. /\ worker[t] # NoWorker \/ stray[t] # {}
        /\ UNCHANGED <<plan, setting, result, ledger, run, step>>
        /\ \A u \in Tasks \ {t} : worker'[u] = worker[u] /\ applied'[u] = applied[u]
                                  /\ output'[u] = output[u] /\ stray'[u] = stray[u]
    BY <1>a, <2>0, WorkerFrame DEF planVars
  <2>5. \A u \in Tasks \ {t} : TaskLedger(u)' /\ (Worked(u, 1) => Worked(u, 1)')
    <3> SUFFICES ASSUME NEW u \in Tasks \ {t}
                 PROVE  TaskLedger(u)' /\ (Worked(u, 1) => Worked(u, 1)')
      OBVIOUS
    <3>1. TaskLedger(u)
      BY <1>a
    <3> QED
      BY <2>2, <3>1 DEF TaskLedger, Worked, Writes, Alive
  <2>6. 1 \in Rounds /\ ~Fresh(t)
    BY <2>2 DEF Rounds, Fresh
  <2> QED
    BY <1>d, <2>0, <2>1, <2>2, <2>5, <2>6
<1> QED
  BY <1>1, <1>2, <1>3, <1>4, <1>5, <1>6, <1>7 DEF Next

\* The ledger of a new job is empty, and nothing has been done.
LEMMA InitLedger == Init => LedgerInv
<1> SUFFICES ASSUME Init PROVE LedgerInv
  OBVIOUS
<1>1. \A t \in Tasks : Fresh(t)
  BY DEF Init, TasksInit, Fresh, Alive, NoWorker
<1>2. \A t \in Tasks : TaskLedger(t)
  BY <1>1 DEF Init, NoPlan, Fresh, TaskLedger, Writes, Alive, NoWorker
<1> QED
  BY <1>1, <1>2 DEF Init, EngineOff, LedgerInv, At, Reviews


-----------------------------------------------------------------------------
(* Theorems.                                                               *)

WorkInv == TypeInv /\ AliveInv /\ LedgerInv

\* All that is said above of types, of threads and their workers, and of the
\* ledger is so in every state a job can reach.
THEOREM WorkInvariant == Spec => []WorkInv
<1>1. Init => WorkInv
  BY InitType, InitAlive, InitLedger DEF WorkInv
<1>2. WorkInv /\ [Next]_vars => WorkInv'
  BY StepType, StepAlive, StepLedger DEF WorkInv
<1> QED
  BY <1>1, <1>2, PTL DEF Spec

\* Whoever comes after a crash finds every worker that can act: its process has
\* been registered in state.json before it got its prompt (process_runner.py).
THEOREM ActingAnnounced == Spec => []ActingIsRegistered
<1>1. WorkInv => ActingIsRegistered
  BY DEF WorkInv, AliveInv
<1> QED
  BY <1>1, WorkInvariant, PTL

\* An engine is never at work beside a worker of the engine before it, as long as
\* workers are tame: they read their prompt, end when they are told to, and are
\* recognised in the table of processes.  What is shown is that every one of them
\* has been found and told to (_reconcile_orphan_processes), not that it obeys.
THEOREM OrphansGone == Spec => []NoOrphanBesideEngine
<1>1. WorkInv => NoOrphanBesideEngine
  BY DEF WorkInv, AliveInv, NoOrphanBesideEngine, GivenUp
<1> QED
  BY <1>1, WorkInvariant, PTL

\* No task that writes is reported successful that has never acted, whatever was
\* lost, late, interrupted, retried or left behind by a crash (_run_task).
THEOREM SuccessesReal == Spec => []SuccessIsReal
<1>1. WorkInv => SuccessIsReal
  BY DEF WorkInv, LedgerInv, TaskLedger, SuccessIsReal, Rounds
<1> QED
  BY <1>1, WorkInvariant, PTL

\* The ledger of external actions never calls an action completed of a task that
\* has not acted, and has an entry for every action that has been carried out.
THEOREM LedgerIsTruthful == Spec => []LedgerTruthful
<1>1. WorkInv => LedgerTruthful
  BY DEF WorkInv, LedgerInv, TaskLedger, LedgerTruthful, OverStates, Unheard
<1> QED
  BY <1>1, WorkInvariant, PTL

\* The steps of the threads and of the main thread that start an external action.
LEMMA RecordComesFromBegin ==
  ASSUME TypeInv, [Next]_vars, NEW t \in Tasks,
         step[t] \in {"entered", "attempt"}, step'[t] = "record"
  PROVE  BeginAttempt(t)
<1>a. TasksTypeOK /\ DOMAIN step = Tasks
  BY DEF TypeInv, TasksTypeOK
<1>1. CASE Launch \/ ReviewerMerges \/ UserActs \/ Over \/ UNCHANGED vars
           \/ \E u \in Tasks : RecoverOrphan(u)
  BY <1>1 DEF Launch, ReviewerMerges, UserActs, Over, vars, taskVars, RecoverOrphan, ReconcileOrphan
<1>2. CASE Crash
  BY <1>2 DEF Crash, ThreadsDie
<1>3. CASE MainThread
  <2>1. CASE CalmStep
    BY <2>1, CalmSteps
  <2>2. CASE Open
    BY <2>2 DEF Open
  <2>3. CASE StartWave
    BY <2>3 DEF StartWave
  <2>4. CASE Join
    <3>1. \/ UNCHANGED step
          \/ step' = [u \in Tasks |-> "idle"]
          \/ \E u : step' = [step EXCEPT ![u] = "entered"]
      BY <2>4 DEF Join
    <3> QED
      BY <1>a, <3>1
  <2>5. CASE StartRepair
    BY <2>5 DEF StartRepair
  <2>6. CASE EndRepair
    BY <1>a, <2>6 DEF EndRepair
  <2>7. CASE Close
    BY <2>7 DEF Close
  <2> QED
    BY <1>3, <2>1, <2>2, <2>3, <2>4, <2>5, <2>6, <2>7 DEF MainThread, CalmStep
<1>4. ASSUME NEW u \in Tasks, WorkerProcess(u) PROVE FALSE
  BY <1>4, <1>a, WorkerFrame DEF WorkerProcess
<1>5. ASSUME NEW u \in Tasks, TaskThread(u) PROVE BeginAttempt(t)
  <2>1. u = t
    BY <1>5, <1>a, ThreadFrame DEF TaskThread
  <2>2. RunTask(t)
    BY <1>5, <2>1 DEF TaskThread
  <2>3. ~RecoverExternalAction(t)
    BY <1>a DEF RecoverExternalAction, Fetch
  <2> QED
    BY <2>2, <2>3 DEF RunTask, RecordStart, Spawn, SpawnFails, Register, Prompt,
      SaveSession, Collect, Timeout, Interrupt, Reconcile, Keep, Mark, Settle, Drop,
      PromptFails, OutlivesSignals
<1> QED
  BY <1>1, <1>2, <1>3, <1>4, <1>5 DEF Next

\* A thread that begins an action anew has seen why it may.
LEMMA RepeatsSeeing ==
  ASSUME TypeInv, LedgerInv, [Next]_vars, NEW t \in Tasks, plan.external, setting.tame,
         step[t] \in {"entered", "attempt"}, step'[t] = "record",
         run'[t].resume = 0, Worked(t, Round(t))
  PROVE  \/ ledger[t][Round(t)] \in {"completed", "completed-reconciled"}
         \/ Unfinished(t) /\ record[t].where # run[t].where
<1>1. BeginAttempt(t)
  BY RecordComesFromBegin
<1>2. /\ Round(t) \in Rounds /\ ledger[t][Round(t)] \in LedgerStates
      /\ DOMAIN run = Tasks /\ "resume" \in DOMAIN run[t]
  BY DEF TypeInv, TasksTypeOK, Runs, Round
<1>3. ledger[t][Round(t)] \notin {"none", "verified-not-applied"}
  BY <1>2 DEF LedgerInv, TaskLedger, Unheard
<1>4. step[t] = "entered" /\ ~NeedsRecovery(t)
  BY <1>1, <1>2, <1>3 DEF BeginAttempt, LedgerInv, TaskLedger, Round
<1>5. CASE ledger[t][Round(t)] \in {"started", "uncertain"}
  <2>1. Unfinished(t) /\ record[t].session # 0
    BY <1>4, <1>5 DEF NeedsRecovery, Unfinished
  <2>2. run'[t].resume = ResumeSession(t)
    BY <1>1, <1>2 DEF BeginAttempt
  <2> QED
    BY <2>1, <2>2 DEF ResumeSession
<1> QED
  BY <1>2, <1>3, <1>5 DEF LedgerStates

\* As long as workers are tame, an action that has been carried out and is not
\* known to be completed is given to a new session only when the session before it
\* belongs to another workspace: for any number of tasks, retries, crashes and
\* interrupts (_run_task).  Of those that are known to be completed it says nothing.
THEOREM NeverBlindlyRepeats == Spec => NoBlindRepeat
<1>1. TypeInv /\ LedgerInv /\ [Next]_vars =>
      [\A t \in Tasks :
         setting.tame /\ Repeats(t) /\ Worked(t, Round(t)) /\ ~RecordedCompleted(t)
         => record[t].where # run[t].where]_vars
  BY RepeatsSeeing DEF Repeats, RecordedCompleted
<1>2. WorkInv => TypeInv /\ LedgerInv
  BY DEF WorkInv
<1> QED
  BY <1>1, <1>2, WorkInvariant, PTL DEF Spec, NoBlindRepeat

\* No step takes a commit out of the checkout.
LEMMA StepUserWork ==
  ASSUME TypeInv, [Next]_vars
  PROVE  repo.head \subseteq repo'.head
<1>a. DOMAIN repo = {"head", "dirty"}
  BY DEF TypeInv, WorkspaceTypeOK
<1>b. EditRoot => repo.head \subseteq repo'.head
  BY <1>a DEF EditRoot
<1>1. CASE Merge
  BY <1>1, <1>a DEF Merge, MergeIntegration, CanMerge, workspaceVars
<1>2. CASE UserActs
  BY <1>2, <1>b DEF UserActs, UserCommits, UserEdits
<1>3. ASSUME NEW t \in Tasks, WorkerProcess(t)
      PROVE  repo.head \subseteq repo'.head
  BY <1>3, <1>b DEF WorkerProcess, RunWorker, Heed, Announce, Work, Exit,
    StrayWorks, StrayExits, WorkOf, EditIn, CommitIn, workspaceVars
<1>4. CASE UNCHANGED repo
  BY <1>4
<1>5. ASSUME NEW t \in Tasks, TaskThread(t)
      PROVE  UNCHANGED repo
  BY <1>5 DEF TaskThread, RunTask, RecoverExternalAction, BeginAttempt, RecordStart,
      Spawn, SpawnFails, Register, Prompt, SaveSession, Collect, Timeout, Interrupt,
      Reconcile, Keep, Mark, Settle, Drop, PromptFails, OutlivesSignals, workspaceVars
<1>6. MainThread => Merge \/ UNCHANGED repo
  BY DEF MainThread, Open, PlannerAnswers, PlannerFails, AddTaskTree, ListTaskTree,
    StartWave, Join, ApproveUnreviewed, StartReview, ListIntegration, Approve, Refuse,
    AskRepair, StartRepair, EndRepair, ReviewAgain, InspectCheckout, CheckDiff,
    CleanTrees, Prune, Close, AddTree, ListTree, RemoveTrees, DeleteBranches, workspaceVars
<1> QED
  BY <1>1, <1>2, <1>3, <1>4, <1>5, <1>6
  DEF Next, Launch, ReviewerMerges, CommitIn, EditIn, Crash, Over, RecoverOrphan,
      ReconcileOrphan, vars, workspaceVars

\* The job never takes a commit of the user out of the checkout: the only thing it
\* does to the head is a fast-forward of what the head is by then.
THEOREM UserWorkStays == Spec => UserWorkKept
<1>1. TypeInv /\ [Next]_vars => [repo.head \subseteq repo'.head]_vars
  BY StepUserWork
<1>2. WorkInv => TypeInv
  BY DEF WorkInv
<1> QED
  BY <1>1, <1>2, WorkInvariant, PTL DEF Spec, UserWorkKept

-----------------------------------------------------------------------------
(* The plan, and writers that share the checkout.                          *)

Budgets == [crashes : Nat, interrupts : Nat, commits : Nat, edits : Nat]

\* What is in plan.json is a valid plan, and when it has been split no two tasks
\* of a wave write.
PlanInv ==
  /\ plan \in Plan \cup {NoPlan}
  /\ plan # NoPlan => ValidPlan(plan)
  /\ plan.serialized =>
       \A q \in DOMAIN plan.waves :
         \A t, u \in ToSet(plan.waves[q]) : t \in plan.writes => t = u
  /\ budget \in Budgets

\* The main thread is at a wave of the plan, and waits for tasks of that wave.
WaveInv ==
  /\ At("recover") \/ At("plan") => engine.wave = 1
  /\ At("prepare") \/ At("list") \/ At("join") \/ At("ultra") =>
       plan # NoPlan /\ engine.wave \in DOMAIN plan.waves
  /\ At("join") \/ At("ultra") => engine.todo \subseteq ToSet(plan.waves[engine.wave])

\* No plan, or one as the schema of plan.json wants it: it has a first wave.
LEMMA FirstWave ==
  ASSUME PlanInv, plan # NoPlan
  PROVE  /\ plan.waves \in Seq(Seq(Tasks)) /\ Len(plan.waves) \in Nat
         /\ DOMAIN plan.waves = 1..Len(plan.waves) /\ 1 \in DOMAIN plan.waves
<1>1. plan.waves \in Seq(Seq(Tasks)) /\ plan.waves # << >>
  BY DEF PlanInv, Plan, ValidPlan, ValidWaves
<1>2. Len(plan.waves) \in Nat /\ DOMAIN plan.waves = 1..Len(plan.waves) /\ Len(plan.waves) > 0
  BY <1>1, PartsType
<1> QED
  BY <1>1, <1>2

\* What a job gets for its plan is split when the workspace is shared and there are
\* writers, and of the type of plans.
LEMMA AnsweredPlan ==
  ASSUME TypeInv, NEW raw \in setting.raws, ValidPlan(raw),
         plan' = ForWorkspace(UnderCeiling(Validated(raw), setting.authority),
                              engine.info.dirty)
  PROVE  /\ plan' \in Plan
         /\ plan'.serialized =>
              \A q \in DOMAIN plan'.waves :
                \A t, u \in ToSet(plan'.waves[q]) : t \in plan'.writes => t = u
         /\ plan'.serialized \/ ~engine.info.dirty \/ NoWriter(plan')
<1> DEFINE p == UnderCeiling(Validated(raw), setting.authority)
<1>1. /\ raw \in Plan /\ ~raw.serialized /\ setting.authority \in BOOLEAN
      /\ engine.info.dirty \in BOOLEAN
  BY SettingsAssumption DEF TypeInv, Setting, RawPlan, Engines
<1>2. /\ p \in Plan
      /\ p.waves = raw.waves /\ p.deps = raw.deps /\ p.mode = raw.mode
      /\ p.ultra = raw.ultra /\ p.writes = raw.writes /\ p.serialized = raw.serialized
      /\ p.ids = raw.ids
  BY <1>1 DEF UnderCeiling, Validated, Plan
<1>3. ValidPlan(p)
  BY <1>2 DEF ValidPlan, ValidWaves, ValidMode, UltraTasks, TasksOf
<1> HIDE DEF p
<1>4. plan' = ForWorkspace(p, engine.info.dirty)
  BY DEF p
<1>5. plan' \in Plan
  BY <1>1, <1>2, <1>3, <1>4, SplitStaysValid
<1>6. ASSUME plan'.serialized, NEW q \in DOMAIN plan'.waves
      PROVE  \A t, u \in ToSet(plan'.waves[q]) : t \in plan'.writes => t = u
  <2>1. plan' = [p EXCEPT !.serialized = TRUE,
                          !.ids = IF @ = "long" THEN "invalid" ELSE @,
                          !.waves = Split(p)]
    BY <1>1, <1>2, <1>4, <1>6 DEF ForWorkspace, Split, SplitEach
  <2>2. plan'.waves = Split(p) /\ plan'.writes = p.writes
    BY <1>2, <2>1 DEF Plan
  <2>3. p.waves \in Seq(Seq(Tasks))
    BY <1>2 DEF Plan
  <2> QED
    BY <1>6, <2>2, <2>3, SplitApart
<1>7. plan'.serialized \/ ~engine.info.dirty \/ NoWriter(plan')
  <2>1. CASE engine.info.dirty /\ ~NoWriter(p)
    BY <1>2, <1>4, <2>1 DEF ForWorkspace, Plan
  <2>2. CASE NoWriter(p)
    BY <1>4, <2>2 DEF ForWorkspace
  <2> QED
    BY <2>1, <2>2
<1> QED
  BY <1>5, <1>6, <1>7

\* Only an answer of the planner makes a plan.
LEMMA PlanChanges ==
  ASSUME [Next]_vars
  PROVE  UNCHANGED plan \/ PlannerAnswers
BY DEF Next, Launch, MainThread, Open, PlannerFails, AddTaskTree, ListTaskTree,
  StartWave, Join, ApproveUnreviewed, StartReview, ListIntegration, Approve, Refuse,
  AskRepair, StartRepair, EndRepair, ReviewAgain, InspectCheckout, Merge, CheckDiff,
  CleanTrees, Prune, Close, ReviewerMerges, Crash, ThreadsDie, UserActs, Over,
  RecoverOrphan, ReconcileOrphan, TaskThread, RunTask, RecoverExternalAction,
  BeginAttempt, RecordStart, Spawn, SpawnFails, Register, Prompt, SaveSession,
  Collect, Timeout, Interrupt, Reconcile, Keep, Mark, Settle, Drop,
  PromptFails, OutlivesSignals, WorkerProcess, RunWorker, Heed, Announce, Work, Exit,
  StrayWorks, StrayExits, vars, taskVars, planVars

\* The budget is only spent while there is some of it left.
LEMMA BudgetType ==
  ASSUME budget \in Budgets, [Next]_vars
  PROVE  budget' \in Budgets
<1> USE DEF Budgets
<1>1. CASE Crash
  BY <1>1 DEF Crash
<1>2. CASE UserActs
  BY <1>2 DEF UserActs
<1>3. ASSUME NEW t \in Tasks, Interrupt(t) PROVE budget' \in Budgets
  BY <1>3 DEF Interrupt
<1>4. CASE UNCHANGED budget
  BY <1>4
<1>5. \/ UNCHANGED budget \/ Crash \/ UserActs \/ \E t \in Tasks : Interrupt(t)
  BY DEF Next, Launch, MainThread, Open, PlannerAnswers, PlannerFails, AddTaskTree,
    ListTaskTree, StartWave, Join, ApproveUnreviewed, StartReview, ListIntegration,
    Approve, Refuse, AskRepair, StartRepair, EndRepair, ReviewAgain, InspectCheckout,
    Merge, CheckDiff, CleanTrees, Prune, Close, ReviewerMerges, Over, RecoverOrphan,
    ReconcileOrphan, TaskThread, RunTask, RecoverExternalAction, BeginAttempt,
    RecordStart, Spawn, SpawnFails, Register, Prompt, SaveSession, Collect, Timeout,
    Reconcile, Keep, Mark, Settle, Drop,
    PromptFails, OutlivesSignals, WorkerProcess, RunWorker, Heed, Announce, Work, Exit,
    StrayWorks, StrayExits, vars, taskVars
<1> QED
  BY <1>1, <1>2, <1>3, <1>4, <1>5

\* Every step keeps a valid plan.
LEMMA StepPlan ==
  ASSUME TypeInv, PlanInv, [Next]_vars
  PROVE  PlanInv'
<1>1. budget' \in Budgets
  BY BudgetType DEF PlanInv
<1>2. CASE UNCHANGED plan
  BY <1>1, <1>2 DEF PlanInv, NoPlan
<1>3. CASE PlannerAnswers
  <2>1. \/ UNCHANGED plan
        \/ \E raw \in setting.raws :
             /\ ValidPlan(raw) /\ ValidPlan(plan')
             /\ plan' = ForWorkspace(UnderCeiling(Validated(raw), setting.authority),
                                     engine.info.dirty)
    BY <1>3 DEF PlannerAnswers
  <2>2. CASE \E raw \in setting.raws :
               /\ ValidPlan(raw) /\ ValidPlan(plan')
               /\ plan' = ForWorkspace(UnderCeiling(Validated(raw), setting.authority),
                                       engine.info.dirty)
    BY <1>1, <2>2, AnsweredPlan DEF PlanInv
  <2> QED
    BY <1>2, <2>1, <2>2
<1> QED
  BY <1>2, <1>3, PlanChanges

\* Every step of the main thread keeps it at a wave of the plan.
LEMMA MainWave ==
  ASSUME TypeInv, AliveInv, PlanInv, WaveInv, MainThread
  PROVE  WaveInv'
<1>a. /\ DOMAIN engine = {"at", "info", "answers", "wave", "todo", "ultraUsed", "pass",
                          "changed", "unrepaired", "protected", "verdict", "kept"}
      /\ engine.todo \subseteq Tasks /\ engine.wave \in Nat \ {0}
  BY DEF TypeInv, Engines
<1>b. plan # NoPlan =>
        /\ Len(plan.waves) \in Nat /\ DOMAIN plan.waves = 1..Len(plan.waves)
        /\ 1 \in DOMAIN plan.waves
  BY FirstWave
<1>c. ASSUME engine'.at \notin {"recover", "plan", "prepare", "list", "join", "ultra"}
      PROVE  WaveInv'
  BY <1>c DEF WaveInv, At
<1>1. CASE Open
  BY <1>1, <1>a, <1>b DEF Open, WaveInv, At, planVars
<1>2. CASE PlannerAnswers
  <2>1. CASE /\ UNCHANGED plan
             /\ engine' = [engine EXCEPT !.answers = 1] \/ engine' = Failed(engine)
    BY <1>2, <1>a, <1>c, <2>1 DEF PlannerAnswers, Failed, WaveInv, At
  <2>2. CASE \E raw \in setting.raws :
               /\ ValidPlan(raw) /\ ValidPlan(plan')
               /\ plan' = ForWorkspace(UnderCeiling(Validated(raw), setting.authority),
                                       engine.info.dirty)
               /\ engine' = [engine EXCEPT !.at = "prepare",
                                           !.ultraUsed = UltraTasks(raw) # {}]
    <3>1. plan' \in Plan /\ ValidPlan(plan')
      BY <2>2, AnsweredPlan
    <3>2. plan'.waves \in Seq(Seq(Tasks)) /\ plan'.waves # << >> /\ plan' # NoPlan'
      BY <3>1 DEF Plan, Modes, NoPlan, ValidPlan, ValidWaves
    <3>3. 1 \in DOMAIN plan'.waves
      BY <3>2, PartsType
    <3>4. engine'.at = "prepare" /\ engine'.wave = 1
      BY <1>2, <1>a, <2>2 DEF PlannerAnswers, WaveInv, At
    <3> QED
      BY <3>2, <3>3, <3>4 DEF WaveInv, At
  <2> QED
    BY <1>2, <2>1, <2>2 DEF PlannerAnswers
<1>3. CASE AddTaskTree \/ ListTaskTree
  BY <1>3, <1>a, <1>c DEF AddTaskTree, ListTaskTree, Failed, WaveInv, At, taskVars, planVars
<1>4. CASE StartWave
  <2>1. /\ engine'.at = "join" /\ engine'.wave = engine.wave /\ UNCHANGED plan
        /\ engine'.todo \subseteq ToSet(plan.waves[engine.wave])
    BY <1>4, <1>a DEF StartWave, ToDo, Wave, planVars
  <2> QED
    BY <1>4, <2>1 DEF WaveInv, StartWave, At
<1>5. CASE Join
  <2>0. UNCHANGED plan
    BY <1>5 DEF Join, planVars
  <2>1. CASE engine' = Failed(engine)
    BY <1>a, <1>c, <2>1 DEF Failed
  <2>2. CASE NextWave
    <3>1. CASE engine.wave < Len(plan.waves)
      <4>1. engine'.at = "prepare" /\ engine'.wave = engine.wave + 1
        BY <1>a, <2>2, <3>1 DEF NextWave
      <4>2. plan # NoPlan /\ engine.wave \in DOMAIN plan.waves
        BY <1>5 DEF WaveInv, Join
      <4>3. engine.wave + 1 \in DOMAIN plan.waves
        BY <1>a, <1>b, <3>1, <4>2
      <4> QED
        BY <2>0, <4>1, <4>2, <4>3 DEF WaveInv, At
    <3>2. CASE ~(engine.wave < Len(plan.waves))
      BY <1>a, <1>c, <2>2, <3>2 DEF NextWave, Failed
    <3> QED
      BY <3>1, <3>2
  <2>3. CASE \E t \in Candidates :
               engine' = [engine EXCEPT !.at = "ultra", !.todo = {t}, !.ultraUsed = TRUE]
    <3>1. PICK t \in engine.todo : /\ engine'.at = "ultra" /\ engine'.todo = {t}
                                   /\ engine'.wave = engine.wave
      BY <1>a, <2>3 DEF Candidates
    <3> QED
      BY <1>5, <2>0, <3>1 DEF WaveInv, At, Join
  <2> QED
    BY <1>5, <2>1, <2>2, <2>3 DEF Join
<1>6. CASE Close
  BY <1>6, <1>c DEF Close, EngineOff
<1>7. CASE /\ engine'.at \notin {"recover", "plan", "prepare", "list", "join", "ultra"}
  BY <1>7, <1>c
<1>8. ASSUME PlannerFails \/ ApproveUnreviewed \/ StartReview \/ ListIntegration
             \/ Approve \/ Refuse \/ AskRepair \/ StartRepair \/ EndRepair
             \/ ReviewAgain \/ InspectCheckout \/ Merge \/ CheckDiff \/ CleanTrees \/ Prune
      PROVE  engine'.at \notin {"recover", "plan", "prepare", "list", "join", "ultra"}
  <2>1. CASE InspectCheckout
    <3>1. \/ engine' = [engine EXCEPT !.at = "merge"]
          \/ engine' = [engine EXCEPT !.at = "check"]
          \/ engine' = Failed(engine)
          \/ engine' = Failed([engine EXCEPT !.protected = {Integration}])
      BY <2>1 DEF InspectCheckout, Inspection
    <3> QED
      BY <1>a, <3>1 DEF Failed
  <2>2. CASE PlannerFails \/ ApproveUnreviewed \/ StartReview \/ ListIntegration
    BY <1>a, <2>2 DEF PlannerFails, ApproveUnreviewed, StartReview, ListIntegration, Failed
  <2>3. CASE Approve \/ Refuse \/ AskRepair \/ ReviewAgain
    <3>1. CASE Approve \/ Refuse \/ ReviewAgain
      <4>1. /\ Failed(engine).at = "remove"
            /\ \A x : [engine EXCEPT !.at = x].at = x
            /\ [engine EXCEPT !.at = "reviewing", !.pass = 2].at = "reviewing"
        BY <1>a DEF Failed
      <4>2. engine'.at \in {"remove", "inspect", "check", "reviewing"}
        BY <3>1, <4>1 DEF Approve, Refuse, ReviewAgain
      <4> QED
        BY <4>2
    <3>2. CASE AskRepair
      BY <1>a, <3>2 DEF AskRepair, Failed
    <3> QED
      BY <2>3, <3>1, <3>2
  <2>4. CASE StartRepair \/ EndRepair
    BY <1>a, <2>4 DEF StartRepair, EndRepair, Failed, At
  <2>5. CASE Merge \/ CheckDiff \/ CleanTrees \/ Prune
    BY <1>a, <2>5 DEF Merge, CheckDiff, CleanTrees, Prune, Failed
  <2> QED
    BY <1>8, <2>1, <2>2, <2>3, <2>4, <2>5
<1> QED
  BY <1>1, <1>2, <1>3, <1>4, <1>5, <1>6, <1>7, <1>8 DEF MainThread

\* And so does every step of the system.
LEMMA StepWave ==
  ASSUME TypeInv, AliveInv, PlanInv, WaveInv, [Next]_vars
  PROVE  WaveInv'
<1>1. CASE MainThread
  BY <1>1, MainWave
<1>2. CASE Launch
  <2>1. engine'.at = "recover" /\ engine'.wave = 1
    BY <1>2 DEF Launch, EngineOff
  <2> QED
    BY <2>1 DEF WaveInv, At
<1>3. CASE Crash
  <2>1. engine'.at = "off"
    BY <1>3 DEF Crash, EngineOff
  <2> QED
    BY <2>1 DEF WaveInv, At
<1>4. CASE UNCHANGED engine /\ ~PlannerAnswers
  BY <1>4, PlanChanges DEF WaveInv, At, NoPlan
<1>5. \/ MainThread \/ Launch \/ Crash \/ UNCHANGED engine
  BY DEF Next, ReviewerMerges, UserActs, Over, RecoverOrphan, TaskThread, WorkerProcess, vars
<1> QED
  BY <1>1, <1>2, <1>3, <1>4, <1>5 DEF MainThread

\* Where no engine is at work, workers end and none is started.
LEMMA FewerOrphans ==
  ASSUME TypeInv, AliveInv, [Next]_vars, engine'.at \in {"off", "recover"}
  PROVE  \/ \A t \in Tasks : ~Alive(t)'
         \/ /\ UNCHANGED plan
            /\ \A t \in Tasks : Alive(t)' => Alive(t) /\ worker'[t].where = worker[t].where
<1>a. TasksTypeOK /\ DOMAIN worker = Tasks /\ (\A t \in Tasks : worker[t] \in Workers)
      /\ DOMAIN engine = {"at", "info", "answers", "wave", "todo", "ultraUsed", "pass",
                          "changed", "unrepaired", "protected", "verdict", "kept"}
  BY DEF TypeInv, TasksTypeOK, Engines
<1>1. CASE Launch \/ UserActs \/ ReviewerMerges \/ Over \/ UNCHANGED vars
  <2>1. UNCHANGED <<worker, plan>>
    BY <1>1 DEF Launch, UserActs, ReviewerMerges, Over, vars, taskVars, workVars, planVars
  <2> QED
    BY <2>1 DEF Alive
<1>2. CASE Crash
  <2>1. UNCHANGED plan /\ worker' = [t \in Tasks |-> IF Alive(t) THEN worker[t] ELSE NoWorker]
    BY <1>2 DEF Crash, ThreadsDie, planVars
  <2> QED
    BY <2>1 DEF Alive, NoWorker
<1>3. CASE MainThread
  <2>1. CASE Close
    BY <2>1 DEF Close, Alive, workVars, planVars
  <2>2. CASE CalmStep
    BY <2>2, CalmSteps DEF CalmPlaces
  <2>3. engine'.at \notin {"off", "recover"} \/ Close \/ CalmStep
    BY <1>3, <1>a DEF MainThread, CalmStep, Open, StartWave, Join, NextWave, StartRepair,
      EndRepair, Failed, At
  <2> QED
    BY <1>3, <2>1, <2>2, <2>3
<1>4. ASSUME NEW t \in Tasks, RecoverOrphan(t)
      PROVE  /\ UNCHANGED plan
             /\ \A u \in Tasks : Alive(u)' => Alive(u) /\ worker'[u].where = worker[u].where
  <2>1. UNCHANGED plan /\ worker' = [worker EXCEPT ![t] = NoWorker]
    BY <1>4 DEF RecoverOrphan, ReconcileOrphan, planVars
  <2> QED
    BY <1>a, <2>1 DEF Alive, NoWorker
<1>5. ASSUME NEW t \in Tasks, TaskThread(t) PROVE FALSE
  <2>1. UNCHANGED engine /\ RunTask(t)
    BY <1>5 DEF TaskThread
  <2>2. step[t] = "idle"
    BY <2>1 DEF AliveInv, At
  <2> QED
    BY <2>1, <2>2 DEF RunTask, RecoverExternalAction, BeginAttempt, RecordStart,
      Spawn, SpawnFails, Register, Prompt, SaveSession, Collect, Timeout, Interrupt,
      Reconcile, Keep, Mark, Settle, Drop, PromptFails, OutlivesSignals
<1>6. ASSUME NEW t \in Tasks, WorkerProcess(t)
      PROVE  /\ UNCHANGED plan
             /\ \A u \in Tasks : Alive(u)' => Alive(u) /\ worker'[u].where = worker[u].where
  <2>1. /\ Alive(t)' => Alive(t)
        /\ worker'[t].where = worker[t].where /\ UNCHANGED plan
        /\ \A u \in Tasks \ {t} : worker'[u] = worker[u]
    BY <1>6, <1>a, WorkerFrame DEF WorkerProcess, planVars
  <2> QED
    BY <2>1 DEF Alive
<1> QED
  BY <1>1, <1>2, <1>3, <1>4, <1>5, <1>6 DEF Next

\* What the steps of the main thread away from its threads leave of the checkout,
\* in a job without repairs.
LEMMA CalmLooks ==
  ASSUME TypeInv, ~setting.repairs, ~At("repair"), CalmStep
  PROVE  /\ UNCHANGED <<setting, budget>> /\ repo'.dirty = repo.dirty
         /\ engine'.info = engine.info /\ engine'.at \notin {"repair", "repairing"}
<1>a. /\ DOMAIN engine = {"at", "info", "answers", "wave", "todo", "ultraUsed", "pass",
                          "changed", "unrepaired", "protected", "verdict", "kept"}
      /\ repo \in [head : SUBSET Commits, dirty : BOOLEAN]
  BY DEF TypeInv, Engines, WorkspaceTypeOK
<1>1. UNCHANGED <<setting, budget>>
  BY DEF CalmStep, PlannerAnswers, PlannerFails, AddTaskTree, ListTaskTree,
    ApproveUnreviewed, StartReview, ListIntegration, Approve, Refuse, AskRepair,
    ReviewAgain, InspectCheckout, Merge, CheckDiff, CleanTrees, Prune, taskVars, planVars
<1>2. repo'.dirty = repo.dirty
  BY <1>a DEF CalmStep, PlannerAnswers, PlannerFails, AddTaskTree, ListTaskTree,
    ApproveUnreviewed, StartReview, ListIntegration, Approve, Refuse, AskRepair,
    ReviewAgain, InspectCheckout, Merge, CheckDiff, CleanTrees, Prune, workspaceVars,
    AddTree, ListTree, MergeIntegration, RemoveTrees, DeleteBranches
<1>3. engine'.info = engine.info /\ engine'.at \notin {"repair", "repairing"}
  <2> USE <1>a DEF At, Failed
  <2>1. CASE PlannerAnswers \/ PlannerFails \/ AddTaskTree \/ ListTaskTree
    BY <2>1 DEF PlannerAnswers, PlannerFails, AddTaskTree, ListTaskTree
  <2>2. CASE ApproveUnreviewed \/ StartReview \/ ListIntegration
    BY <2>2 DEF ApproveUnreviewed, StartReview, ListIntegration
  <2>3. CASE Approve \/ Refuse \/ AskRepair \/ ReviewAgain
    BY <2>3 DEF Approve, Refuse, AskRepair, ReviewAgain
  <2>4. CASE InspectCheckout
    <3>1. \/ engine' = [engine EXCEPT !.at = "merge"]
          \/ engine' = [engine EXCEPT !.at = "check"]
          \/ engine' = Failed(engine)
          \/ engine' = Failed([engine EXCEPT !.protected = {Integration}])
      BY <2>4 DEF InspectCheckout, Inspection
    <3> QED
      BY <3>1
  <2>5. CASE Merge \/ CheckDiff \/ CleanTrees \/ Prune
    BY <2>5 DEF Merge, CheckDiff, CleanTrees, Prune
  <2> QED
    BY <2>1, <2>2, <2>3, <2>4, <2>5 DEF CalmStep
<1> QED
  BY <1>1, <1>2, <1>3

\* The workers are tame, and only the job edits the checkout, and repairs nothing.
Hands == setting.tame /\ setting.edits = 0 /\ ~setting.repairs

\* A writer, and its worker, are in a worktree.
InTree(t) ==
  /\ step[t] # "idle" => run[t].where = "tree"
  /\ worker[t].state # "none" => worker[t].where = "tree"

\* In such a job a plan that has not been serialized leaves the checkout without
\* edits, and so every engine gives its writers worktrees.
CleanInv ==
  Hands =>
    /\ budget.edits = 0
    /\ ~At("repair") /\ ~At("repairing")
    /\ At("plan") /\ repo.dirty => engine.info.dirty
    /\ plan # NoPlan /\ ~plan.serialized =>
         /\ \/ NoWriter(plan)
            \/ ~repo.dirty /\ (~At("off") /\ ~At("recover") => ~engine.info.dirty)
         /\ \A t \in Tasks : Writes(t) => InTree(t)

\* A thread stays where it is, and its worker is there, too.
LEMMA ThreadWhere ==
  ASSUME TasksTypeOK, NEW t \in Tasks, RunTask(t), InTree(t)
  PROVE  InTree(t)' /\ step[t] # "idle" /\ (UNCHANGED budget \/ Interrupt(t))
<1>a. /\ DOMAIN worker = Tasks /\ DOMAIN run = Tasks /\ DOMAIN step = Tasks
      /\ worker[t] \in Workers /\ run[t] \in Runs
  BY DEF TasksTypeOK
<1>b. DOMAIN run[t] = {"where", "single", "round", "attempt", "resume", "session",
                       "outcome", "settles"}
  BY <1>a DEF Runs
<1> USE <1>a, <1>b DEF InTree, Fetch, workVars, filesVars
<1>1. CASE RecoverExternalAction(t) \/ BeginAttempt(t) \/ RecordStart(t)
  BY <1>1 DEF RecoverExternalAction, BeginAttempt, RecordStart
<1>2. CASE Spawn(t)
  BY <1>2 DEF Spawn, NoWorker
<1>3. CASE SpawnFails(t) \/ Register(t) \/ SaveSession(t) \/ OutlivesSignals(t)
  BY <1>3 DEF SpawnFails, Register, SaveSession, OutlivesSignals
<1>4. CASE Prompt(t)
  BY <1>4 DEF Prompt, Workers
<1>5. CASE PromptFails(t)
  BY <1>5 DEF PromptFails, NoWorker
<1>6. CASE Collect(t) \/ Timeout(t)
  <2>1. PICK outcome : Judge(t, outcome)
    BY <1>6 DEF Collect, Timeout
  <2>2. worker'[t].state = "none" /\ step[t] = "wait" /\ UNCHANGED budget
    BY <1>6 DEF Collect, Timeout, NoWorker
  <2>3. run'[t].where = run[t].where
    BY <2>1 DEF Judge
  <2> QED
    BY <2>2, <2>3
<1>7. CASE Interrupt(t)
  BY <1>7 DEF Interrupt, NoWorker
<1>8. CASE Reconcile(t)
  BY <1>8 DEF Reconcile
<1>9. CASE Keep(t) \/ Mark(t) \/ Settle(t) \/ Drop(t)
  BY <1>9 DEF Keep, Mark, Settle, Drop
<1> QED
  BY <1>1, <1>2, <1>3, <1>4, <1>5, <1>6, <1>7, <1>8, <1>9 DEF RunTask

\* Every step of the main thread keeps writers in worktrees.
LEMMA MainClean ==
  ASSUME TypeInv, AliveInv, LedgerInv, WaveInv, CleanInv, Hands, MainThread
  PROVE  CleanInv'
<1>a. /\ DOMAIN engine = {"at", "info", "answers", "wave", "todo", "ultraUsed", "pass",
                          "changed", "unrepaired", "protected", "verdict", "kept"}
      /\ DOMAIN run = Tasks /\ DOMAIN step = Tasks /\ engine.todo \subseteq Tasks
  BY DEF TypeInv, Engines, TasksTypeOK
<1>1. CASE CalmStep
  <2>1. /\ engine.at \in CalmPlaces /\ engine'.at \in CalmPlaces
        /\ UNCHANGED <<worker, run, step>>
    BY <1>1, CalmSteps DEF workVars
  <2>2. /\ UNCHANGED <<setting, budget>> /\ repo'.dirty = repo.dirty
        /\ engine'.info = engine.info /\ engine'.at \notin {"repair", "repairing"}
    BY <1>1, CalmLooks DEF CleanInv, Hands
  <2>3. /\ engine'.at = "plan" => engine.at = "plan" /\ UNCHANGED plan
        /\ UNCHANGED plan \/ PlannerAnswers
    BY <1>1, CalmPhases
  <2>4. CASE UNCHANGED plan
    <3>1. \A t \in Tasks : (Writes(t) => InTree(t)) => (Writes(t) => InTree(t))'
      BY <2>1, <2>4 DEF Writes, InTree
    <3>2. ~At("off") /\ ~At("recover") /\ NoPlan' = NoPlan /\ (NoWriter(plan))' = NoWriter(plan)
      BY <2>1, <2>4 DEF CalmPlaces, At, NoPlan
    <3> QED
      BY <2>1, <2>2, <2>3, <2>4, <3>1, <3>2 DEF CleanInv, Hands, At
  <2>5. CASE PlannerAnswers /\ ~UNCHANGED plan
    <3>1. At("plan") /\ \A t \in Tasks : Fresh(t)
      BY <2>5 DEF LedgerInv, PlannerAnswers
    <3>2. \A t \in Tasks : InTree(t)'
      BY <2>1, <3>1 DEF Fresh, InTree, NoWorker
    <3>3. PICK raw \in setting.raws :
            /\ ValidPlan(raw)
            /\ plan' = ForWorkspace(UnderCeiling(Validated(raw), setting.authority),
                                    engine.info.dirty)
      BY <2>5 DEF PlannerAnswers
    <3>4. plan'.serialized \/ ~engine.info.dirty \/ NoWriter(plan')
      BY <3>3, AnsweredPlan
    <3>5. engine'.at # "plan"
      BY <2>3, <2>5
    <3> QED
      BY <2>2, <3>1, <3>2, <3>4, <3>5 DEF CleanInv, Hands, At
  <2> QED
    BY <2>3, <2>4, <2>5
<1>2. CASE Open
  <2>1. /\ engine'.at = IF plan = NoPlan THEN "plan" ELSE "prepare"
        /\ engine'.info = repo
        /\ UNCHANGED <<setting, plan, worker, run, step, budget, repo>>
    BY <1>2, <1>a DEF Open, planVars, workVars, workspaceVars
  <2>2. \A t \in Tasks : (Writes(t) => InTree(t)) => (Writes(t) => InTree(t))'
    BY <2>1 DEF Writes, InTree
  <2> QED
    BY <2>1, <2>2 DEF CleanInv, Hands, At, NoPlan
<1>3. CASE StartWave
  <2>1. /\ engine'.at = "join" /\ engine'.info = engine.info
        /\ UNCHANGED <<setting, plan, worker, budget, repo>>
    BY <1>3, <1>a DEF StartWave, planVars, workVars, workspaceVars
  <2>2. ASSUME NEW t \in Tasks, plan # NoPlan, ~plan.serialized, Writes(t) PROVE InTree(t)'
    <3>1. InTree(t)
      BY <2>2 DEF CleanInv
    <3>2. \/ step'[t] = "idle"
          \/ t \in TasksOf(plan) /\ run'[t] = [NoRun EXCEPT !.where = IF Isolated(t) THEN "tree" ELSE "root"]
      BY <1>3 DEF StartWave, ToDo
    <3>3. t \in TasksOf(plan) => ~engine.info.dirty
      BY <1>3, <2>2 DEF CleanInv, StartWave, At, NoWriter, Writes
    <3>4. t \in TasksOf(plan) => Isolated(t)
      BY <2>2, <3>3 DEF Isolated
    <3> QED
      BY <2>1, <3>1, <3>2, <3>4 DEF InTree, NoRun
  <2> QED
    BY <1>3, <2>1, <2>2 DEF CleanInv, Hands, At, NoPlan, StartWave, Writes
<1>4. CASE Join
  <2>1. UNCHANGED <<setting, plan, worker, budget, repo>>
    BY <1>4 DEF Join, planVars, workVars, workspaceVars
  <2>2. /\ engine'.info = engine.info /\ engine.at \in {"join", "ultra"}
        /\ engine'.at \in {"ultra", "prepare", "review", "remove"}
    BY <1>4, <1>a DEF Join, NextWave, Failed, At
  <2>3. ASSUME NEW t \in Tasks, InTree(t) PROVE InTree(t)'
    <3>1. \/ step'[t] = step[t] /\ run'[t] = run[t]
          \/ step'[t] = "idle"
          \/ step[t] # "idle" /\ run'[t] = [NoRun EXCEPT !.where = run[t].where, !.single = TRUE]
      <4>1. CASE UNCHANGED <<run, step>> \/ step' = [u \in Tasks |-> "idle"]
        BY <4>1
      <4>2. ASSUME NEW c \in Candidates,
                   run' = [run EXCEPT ![c] = [NoRun EXCEPT !.where = run[c].where,
                                                           !.single = TRUE]],
                   step' = [step EXCEPT ![c] = "entered"]
            PROVE  \/ step'[t] = step[t] /\ run'[t] = run[t]
                   \/ step[t] # "idle" /\ run'[t] = [NoRun EXCEPT !.where = run[t].where, !.single = TRUE]
        <5>1. c \in Tasks /\ step[c] # "idle"
          BY <1>4, <1>a, <4>2 DEF Join, AllReturned, Candidates
        <5>2. CASE t = c
          BY <1>a, <4>2, <5>1, <5>2
        <5>3. CASE t # c
          BY <1>a, <4>2, <5>3
        <5> QED
          BY <5>2, <5>3
      <4> QED
        BY <1>4, <4>1, <4>2 DEF Join
    <3> QED
      BY <2>1, <2>3, <3>1 DEF InTree, NoRun
  <2> QED
    BY <2>1, <2>2, <2>3 DEF CleanInv, Hands, At, NoPlan, Writes
<1>5. CASE Close
  <2>1. /\ UNCHANGED <<setting, plan, worker, budget, repo>>
        /\ \A t \in Tasks : step'[t] = "idle"
        /\ engine'.at = "off"
    BY <1>5 DEF Close, planVars, workVars, workspaceVars, EngineOff
  <2>2. \A t \in Tasks : (Writes(t) => InTree(t)) => (Writes(t) => InTree(t))'
    BY <2>1 DEF Writes, InTree
  <2> QED
    BY <1>5, <2>1, <2>2 DEF CleanInv, Hands, At, NoPlan, Close
<1> QED
  BY <1>1, <1>2, <1>3, <1>4, <1>5 DEF MainThread, CalmStep, StartRepair, EndRepair, CleanInv, Hands

\* What a behaviour starts with stays.
LEMMA StepSetting ==
  ASSUME [Next]_vars
  PROVE  UNCHANGED setting
BY DEF Next, Launch, MainThread, Open, PlannerAnswers, PlannerFails, AddTaskTree,
  ListTaskTree, StartWave, Join, ApproveUnreviewed, StartReview, ListIntegration,
  Approve, Refuse, AskRepair, StartRepair, EndRepair, ReviewAgain, InspectCheckout,
  Merge, CheckDiff, CleanTrees, Prune, Close, ReviewerMerges, Crash, ThreadsDie,
  UserActs, Over, RecoverOrphan, ReconcileOrphan, TaskThread, RunTask,
  RecoverExternalAction, BeginAttempt, RecordStart, Spawn, SpawnFails, Register,
  Prompt, SaveSession, Collect, Timeout, Interrupt, Reconcile, Keep, Mark, Settle,
  Drop, PromptFails, OutlivesSignals, WorkerProcess, RunWorker, Heed, Announce, Work,
  Exit, StrayWorks, StrayExits, vars, taskVars, planVars

\* And so does every step of the system.
LEMMA StepClean ==
  ASSUME TypeInv, AliveInv, LedgerInv, WaveInv, PlanInv, CleanInv, [Next]_vars
  PROVE  CleanInv'
<1>a. /\ TasksTypeOK /\ DOMAIN worker = Tasks
      /\ DOMAIN budget = {"crashes", "interrupts", "commits", "edits"}
      /\ repo \in [head : SUBSET Commits, dirty : BOOLEAN]
  BY DEF TypeInv, TasksTypeOK, WorkspaceTypeOK, PlanInv, Budgets
<1>b. UNCHANGED setting
  BY StepSetting
<1> SUFFICES ASSUME Hands PROVE CleanInv'
  BY <1>b DEF CleanInv, Hands
<1>c. ASSUME UNCHANGED plan, budget'.edits = budget.edits, repo'.dirty => repo.dirty,
             \/ engine'.at \in {"off", "recover"}
             \/ UNCHANGED engine,
             \A t \in Tasks : (Writes(t) => InTree(t)) => (Writes(t) => InTree(t))'
      PROVE  CleanInv'
  BY <1>b, <1>c DEF CleanInv, Hands, At, NoPlan
<1>1. CASE MainThread
  BY <1>1, MainClean
<1>2. CASE Launch \/ Crash
  <2>1. /\ UNCHANGED <<plan, repo>> /\ budget'.edits = budget.edits
        /\ engine'.at \in {"off", "recover"}
    BY <1>2, <1>a DEF Launch, Crash, ThreadsDie, EngineOff, taskVars, planVars, workspaceVars
  <2>2. ASSUME NEW t \in Tasks
        PROVE  \/ UNCHANGED <<step, run, worker>>
               \/ /\ step'[t] = "idle"
                  /\ worker'[t] = worker[t] \/ worker'[t].state = "none"
    BY <1>2 DEF Launch, Crash, ThreadsDie, taskVars, workVars, NoWorker
  <2>3. \A t \in Tasks : (Writes(t) => InTree(t)) => (Writes(t) => InTree(t))'
    BY <2>1, <2>2 DEF Writes, InTree
  <2> QED
    BY <1>c, <2>1, <2>3
<1>3. CASE ReviewerMerges \/ UserActs \/ Over \/ UNCHANGED vars
  <2>1. UNCHANGED <<plan, worker, run, step, engine>>
    BY <1>3 DEF ReviewerMerges, UserActs, Over, vars, taskVars, planVars, workVars
  <2>2. budget'.edits = budget.edits /\ (repo'.dirty => repo.dirty)
    <3>1. CASE UserActs
      <4>1. budget.edits = 0
        BY DEF CleanInv
      <4> QED
        BY <1>a, <3>1, <4>1 DEF UserActs, UserCommits
    <3> QED
      BY <1>3, <3>1 DEF ReviewerMerges, Over, vars, taskVars, workspaceVars, CommitIn, EditIn
  <2>3. \A t \in Tasks : (Writes(t) => InTree(t)) => (Writes(t) => InTree(t))'
    BY <2>1 DEF Writes, InTree
  <2> QED
    BY <1>c, <2>1, <2>2, <2>3
<1>4. ASSUME NEW u \in Tasks, RecoverOrphan(u) PROVE CleanInv'
  <2>1. UNCHANGED <<plan, run, step, budget, repo, engine>>
    BY <1>4 DEF RecoverOrphan, ReconcileOrphan, planVars, workspaceVars
  <2>2. ASSUME NEW t \in Tasks
        PROVE  worker'[t] = worker[t] \/ worker'[t].state = "none"
    BY <1>4, <1>a DEF RecoverOrphan, ReconcileOrphan, NoWorker
  <2>3. \A t \in Tasks : (Writes(t) => InTree(t)) => (Writes(t) => InTree(t))'
    BY <2>1, <2>2 DEF Writes, InTree
  <2> QED
    BY <1>c, <2>1, <2>3
<1>5. ASSUME NEW t \in Tasks, TaskThread(t) PROVE CleanInv'
  <2>1. RunTask(t) /\ UNCHANGED engine
    BY <1>5 DEF TaskThread
  <2>2. UNCHANGED <<plan, repo>>
    BY <2>1 DEF RunTask, RecoverExternalAction, BeginAttempt, RecordStart, Spawn,
      SpawnFails, Register, Prompt, SaveSession, Collect, Timeout, Interrupt, Reconcile,
      Keep, Mark, Settle, Drop, PromptFails, OutlivesSignals, planVars, workspaceVars
  <2>3. budget'.edits = budget.edits
    BY <1>a, <2>1 DEF RunTask, RecoverExternalAction, BeginAttempt, RecordStart, Spawn,
      SpawnFails, Register, Prompt, SaveSession, Collect, Timeout, Interrupt, Reconcile,
      Keep, Mark, Settle, Drop, PromptFails, OutlivesSignals
  <2>4. ASSUME NEW u \in Tasks, InTree(u) PROVE InTree(u)'
    <3>1. CASE u = t
      BY <1>a, <2>1, <2>4, <3>1, ThreadWhere
    <3>2. CASE u # t
      <4>1. worker'[u] = worker[u] /\ run'[u] = run[u] /\ step'[u] = step[u]
        BY <1>a, <2>1, <3>2, ThreadFrame
      <4> QED
        BY <2>4, <4>1 DEF InTree
    <3> QED
      BY <3>1, <3>2
  <2> QED
    BY <1>c, <2>1, <2>2, <2>3, <2>4 DEF Writes
<1>6. ASSUME NEW t \in Tasks, WorkerProcess(t) PROVE CleanInv'
  <2>1. RunWorker(t) /\ UNCHANGED engine
    BY <1>6 DEF WorkerProcess
  <2>2. /\ UNCHANGED <<plan, run, step>> /\ worker'[t].where = worker[t].where
        /\ worker[t].state = "none" => worker'[t] = worker[t]
        /\ \A u \in Tasks \ {t} : worker'[u] = worker[u]
    BY <1>a, <2>1, WorkerFrame DEF planVars
  <2>3. UNCHANGED budget
    BY <2>1 DEF RunWorker, Heed, Announce, Work, Exit, StrayWorks, StrayExits
  <2>4. \A u \in Tasks : InTree(u) => InTree(u)'
    BY <2>2 DEF InTree
  <2>5. \/ UNCHANGED repo
        \/ Writes(t) /\ worker[t].where = "root" /\ worker[t].state = "prompted" /\ EditRoot
    <3>1. stray[t] = {}
      BY DEF AliveInv, Hands
    <3> QED
      BY <2>1, <3>1 DEF RunWorker, Heed, Announce, Work, Exit, StrayWorks, StrayExits, WorkOf,
        workspaceVars, EditIn, CommitIn, Alive
  <2>6. CASE UNCHANGED repo
    BY <1>c, <2>1, <2>2, <2>3, <2>4, <2>6 DEF Writes
  <2>7. CASE Writes(t) /\ worker[t].where = "root" /\ worker[t].state = "prompted"
    <3>1. plan # NoPlan
      BY <2>7 DEF LedgerInv, Fresh, NoWorker
    <3>2. plan.serialized
      BY <2>7, <3>1 DEF CleanInv, InTree
    <3>3. ~At("plan")
      BY <3>1 DEF LedgerInv
    <3> QED
      BY <1>b, <2>1, <2>2, <2>3, <3>2, <3>3 DEF CleanInv, Hands, At
  <2> QED
    BY <2>5, <2>6, <2>7
<1> QED
  BY <1>1, <1>2, <1>3, <1>4, <1>5, <1>6 DEF Next

\* Writers of a plan that has been serialized.
SerialApart == setting.tame /\ plan.serialized => \A t, u \in WritersInRoot : t = u

\* Every step keeps them apart: beside an engine they are tasks of one wave, or of
\* a repair, which is of one task; beside none they only end.
LEMMA StepApart ==
  ASSUME TypeInv, AliveInv, SerialApart, AliveInv', PlanInv', WaveInv', [Next]_vars
  PROVE  SerialApart'
<1>1. UNCHANGED setting
  BY StepSetting
<1>2. setting.tame =>
        /\ WritersInRoot = {t \in Tasks : Writes(t) /\ Alive(t) /\ worker[t].where = "root"}
        /\ WritersInRoot' = {t \in Tasks : (Writes(t) /\ Alive(t) /\ worker[t].where = "root")'}
  BY <1>1 DEF AliveInv, WritersInRoot, Alive, Writes
<1>3. CASE engine'.at \in {"off", "recover"}
  BY <1>1, <1>2, <1>3, FewerOrphans DEF SerialApart, Writes
<1>4. CASE engine'.at \notin {"off", "recover"}
  <2> SUFFICES ASSUME setting.tame, plan'.serialized,
                      NEW t \in Tasks, NEW u \in Tasks, t \in plan'.writes,
                      Alive(t)', Alive(u)'
               PROVE  t = u
    BY <1>1, <1>2 DEF SerialApart, Writes
  <2>1. step'[t] = "wait" /\ step'[u] = "wait"
    BY <1>1, <1>4 DEF AliveInv, At, GivenUp
  <2>2. /\ engine'.at \in {"join", "ultra", "repairing"}
        /\ t \in engine'.todo /\ u \in engine'.todo
    BY <2>1 DEF AliveInv, Busy, Waiting, At
  <2>3. CASE engine'.at = "repairing"
    BY <2>1, <2>3 DEF AliveInv, At
  <2>4. CASE engine'.at \in {"join", "ultra"}
    <3>1. engine'.wave \in DOMAIN plan'.waves
          /\ t \in ToSet(plan'.waves[engine'.wave]) /\ u \in ToSet(plan'.waves[engine'.wave])
      BY <2>2, <2>4 DEF WaveInv, At
    <3> QED
      BY <3>1 DEF PlanInv
  <2> QED
    BY <2>2, <2>3, <2>4
<1> QED
  BY <1>3, <1>4

\* What is said of the plan and of its writers.
WritersInv == PlanInv /\ WaveInv /\ SerialApart /\ CleanInv

\* The start: no plan, and nobody at work.
LEMMA InitPlan == Init => WritersInv
<1> SUFFICES ASSUME Init PROVE PlanInv /\ WaveInv /\ SerialApart /\ CleanInv
  BY DEF WritersInv
<1>1. setting \in Setting
  BY SettingsAssumption DEF Init
<1>2. budget \in Budgets
  BY <1>1 DEF Init, Setting, Budgets
<1> QED
  BY <1>2 DEF Init, PlanInv, WaveInv, SerialApart, CleanInv, Hands, NoPlan, EngineOff, At

\* The plan of a job, and who writes beside whom, in every state it can reach.
THEOREM PlanInvariant == Spec => []WritersInv
<1>1. Init => WritersInv
  BY InitPlan
<1>2. WorkInv /\ WorkInv' /\ [Next]_vars /\ WritersInv => WritersInv'
  BY StepPlan, StepWave, StepApart, StepClean DEF WorkInv, WritersInv
<1> QED
  BY <1>1, <1>2, WorkInvariant, PTL DEF Spec

\* As long as workers are tame, two of them never write together in the checkout:
\* neither when the plan has been serialized for it (_apply_workspace_policy,
\* engine.py), orphans of a crashed engine included, nor when it has been made for
\* a checkout without edits, nobody else edits it, and nothing is repaired.
THEOREM WritersApart == Spec => []OneWriterInRoot
<1>1. WorkInv /\ WritersInv => OneWriterInRoot
  <2> SUFFICES ASSUME WorkInv, WritersInv, setting.tame, ~plan.serialized,
                      setting.edits = 0, ~setting.repairs, NEW t \in WritersInRoot
               PROVE  FALSE
    BY DEF OneWriterInRoot, WritersInv, SerialApart
  <2>1. t \in Tasks /\ Writes(t) /\ worker[t].state = "prompted" /\ worker[t].where = "root"
    BY DEF WorkInv, AliveInv, WritersInRoot
  <2>2. plan # NoPlan
    BY <2>1 DEF WorkInv, LedgerInv, Fresh, NoWorker
  <2> QED
    BY <2>1, <2>2 DEF WritersInv, CleanInv, Hands, InTree
<1> QED
  BY <1>1, WorkInvariant, PlanInvariant, PTL

\* All of what JobWork is about has its type, the waves of the plan included.
THEOREM TypeCorrect == Spec => []TypeOK
<1>1. WorkInv /\ WritersInv => TypeOK
  BY DEF WorkInv, TypeInv, WritersInv, PlanInv, TypeOK, Budgets
<1> QED
  BY <1>1, WorkInvariant, PlanInvariant, PTL

-----------------------------------------------------------------------------
(* Uncertain actions.  What NoBlindRepeat excepts, a session of another    *)
(* workspace, takes a checkout that changes between two engines, or a      *)
(* repair without the worktree of the first round.                         *)

\* Nobody but the job will touch the checkout, nor the reviewer ask for repairs.
Undisturbed == ~setting.repairs /\ setting.commits = 0 /\ setting.edits = 0

\* Where a task runs in such a job.
Place(t) == IF Writes(t) /\ ~setting.dirty THEN "tree" ELSE "root"

\* From the record of an attempt to the answer of its worker.
Invoking == {"record", "spawn", "register", "prompt", "wait"}

\* The thread, the worker and the resumable record of a task are in its place.
Placed(t) ==
  /\ step[t] # "idle" => run[t].where = Place(t)
  /\ step[t] \in Invoking => record[t].where = Place(t)
  /\ step[t] \in {"register", "prompt"} \/ worker[t].state # "none" =>
       worker[t].where = Place(t) /\ record[t].where = Place(t)
  /\ \A w \in stray[t] : w.where = Place(t)
  /\ record[t].status \in {"running", "interrupted"} => record[t].where = Place(t)

\* A task that no engine has begun with.
Untouched(t) ==
  /\ step[t] = "idle"
  /\ worker[t].state = "none"
  /\ stray[t] = {}
  /\ record[t].status \notin {"running", "interrupted"}

\* Every engine finds the checkout with edits, or every one without, and so
\* all of them run a task in the same place.
PlaceInv ==
  /\ ~setting.repairs /\ budget.commits = 0 /\ budget.edits = 0
  /\ repo.dirty = setting.dirty
  /\ ~At("off") /\ ~At("recover") => engine.info.dirty = setting.dirty
  /\ ~At("repair") /\ ~At("repairing")
  /\ At("plan") => plan = NoPlan
  /\ plan = NoPlan => \A t \in Tasks : Untouched(t)
  /\ \A t \in Tasks : Placed(t)

\* The invariant holds before the first engine.
LEMMA InitPlace ==
  ASSUME Undisturbed, Init
  PROVE  PlaceInv
<1>1. ~setting.repairs /\ budget.commits = 0 /\ budget.edits = 0
  BY DEF Undisturbed, Init
<1>2. repo.dirty = setting.dirty
  BY DEF Init, WorkspaceInit
<1>3. engine.at = "off"
  BY DEF Init, EngineOff
<1>4. \A t \in Tasks : Untouched(t) /\ Placed(t)
  BY DEF Init, TasksInit, NoWorker, NoRecord, Untouched, Placed, Invoking
<1> QED
  BY <1>1, <1>2, <1>3, <1>4 DEF PlaceInv, At

\* A thread runs its task where the task belongs.
LEMMA ThreadPlaced ==
  ASSUME TasksTypeOK, NEW t \in Tasks, RunTask(t), Placed(t)
  PROVE  Placed(t)'
<1>a. /\ DOMAIN record = Tasks /\ DOMAIN worker = Tasks /\ DOMAIN run = Tasks
      /\ DOMAIN step = Tasks /\ record[t] \in Records /\ worker[t] \in Workers
      /\ run[t] \in Runs
  BY DEF TasksTypeOK
<1>b. /\ DOMAIN record[t] = {"status", "attempt", "session", "where"}
      /\ DOMAIN run[t] = {"where", "single", "round", "attempt", "resume", "session",
                          "outcome", "settles"}
      /\ run[t].outcome \in Results
  BY <1>a DEF Records, Runs
<1>c. UNCHANGED <<setting, plan, stray>>
  BY DEF RunTask, RecoverExternalAction, BeginAttempt, RecordStart, Spawn, SpawnFails,
    Register, Prompt, SaveSession, Collect, Timeout, Interrupt, Reconcile, Keep, Mark,
    Settle, Drop, PromptFails, OutlivesSignals, planVars, workVars
<1>d. Place(t)' = Place(t)
  BY <1>c DEF Place, Writes
<1> USE <1>a, <1>b, <1>c, <1>d DEF Placed, Invoking, Fetch, workVars, filesVars
<1>1. CASE RecoverExternalAction(t)
  BY <1>1 DEF RecoverExternalAction
<1>2. CASE BeginAttempt(t)
  BY <1>2 DEF BeginAttempt
<1>3. CASE RecordStart(t)
  BY <1>3 DEF RecordStart
<1>4. CASE Spawn(t)
  BY <1>4 DEF Spawn, NoWorker
<1>5. CASE SpawnFails(t)
  BY <1>5 DEF SpawnFails
<1>6. CASE Register(t)
  BY <1>6 DEF Register
<1>7. CASE Prompt(t)
  BY <1>7 DEF Prompt, Workers
<1>8. CASE SaveSession(t)
  BY <1>8 DEF SaveSession
<1>9. CASE Collect(t) \/ Timeout(t)
  <2>1. PICK outcome : Judge(t, outcome)
    BY <1>9 DEF Collect, Timeout
  <2>2. UNCHANGED record /\ worker'[t].state = "none"
    BY <1>9 DEF Collect, Timeout, NoWorker
  <2>3. run'[t].where = run[t].where /\ step'[t] \notin Invoking
    BY <2>1 DEF Judge
  <2> QED
    BY <1>9, <2>2, <2>3 DEF Collect, Timeout
<1>10. CASE Interrupt(t)
  BY <1>10 DEF Interrupt, NoWorker
<1>11. CASE Reconcile(t)
  BY <1>11 DEF Reconcile
<1>12. CASE Keep(t)
  BY <1>12 DEF Keep
<1>13. CASE Mark(t)
  BY <1>13 DEF Mark
<1>14. CASE Settle(t)
  BY <1>14 DEF Settle
<1>15. CASE Drop(t)
  BY <1>15 DEF Drop, Results, Failures
<1>16. CASE PromptFails(t) \/ OutlivesSignals(t)
  BY <1>16 DEF PromptFails, OutlivesSignals, NoWorker
<1> QED
  BY <1>1, <1>2, <1>3, <1>4, <1>5, <1>6, <1>7, <1>8, <1>9, <1>10, <1>11, <1>12,
     <1>13, <1>14, <1>15, <1>16 DEF RunTask

\* Every step of a thread keeps the invariant.
LEMMA ThreadPlace ==
  ASSUME TypeInv, AliveInv, PlanInv, WaveInv, PlaceInv, NEW t \in Tasks, TaskThread(t)
  PROVE  PlaceInv'
<1>a. /\ TasksTypeOK
      /\ DOMAIN budget = {"crashes", "interrupts", "commits", "edits"}
  BY DEF TypeInv, PlanInv, Budgets
<1>1. RunTask(t) /\ UNCHANGED engine
  BY DEF TaskThread
<1>2. UNCHANGED <<setting, plan, repo>>
  BY <1>1 DEF RunTask, RecoverExternalAction, BeginAttempt, RecordStart, Spawn,
    SpawnFails, Register, Prompt, SaveSession, Collect, Timeout, Interrupt, Reconcile,
    Keep, Mark, Settle, Drop, PromptFails, OutlivesSignals, planVars, workspaceVars
<1>3. budget'.commits = budget.commits /\ budget'.edits = budget.edits
  BY <1>a, <1>1 DEF RunTask, RecoverExternalAction, BeginAttempt, RecordStart, Spawn,
    SpawnFails, Register, Prompt, SaveSession, Collect, Timeout, Interrupt, Reconcile,
    Keep, Mark, Settle, Drop, PromptFails, OutlivesSignals
<1>4. plan # NoPlan
  <2>1. step[t] # "idle"
    BY <1>1 DEF RunTask, RecoverExternalAction, BeginAttempt, RecordStart,
      Spawn, SpawnFails, Register, Prompt, SaveSession, Collect, Timeout, Interrupt,
      Reconcile, Keep, Mark, Settle, Drop, PromptFails, OutlivesSignals
  <2> QED
    BY <2>1 DEF PlaceInv, Untouched
<1>5. \A u \in Tasks : Placed(u)'
  <2>1. Placed(t)'
    BY <1>a, <1>1, ThreadPlaced DEF PlaceInv
  <2>2. ASSUME NEW u \in Tasks, u # t PROVE Placed(u)'
    <3>1. /\ record'[u] = record[u] /\ worker'[u] = worker[u] /\ run'[u] = run[u]
          /\ step'[u] = step[u] /\ stray'[u] = stray[u]
      BY <1>a, <1>1, <2>2, ThreadFrame
    <3> QED
      BY <1>2, <3>1 DEF PlaceInv, Placed, Place, Writes
  <2> QED
    BY <2>1, <2>2
<1> QED
  BY <1>1, <1>2, <1>3, <1>4, <1>5 DEF PlaceInv, At, NoPlan

\* A worker edits the checkout only when it runs there, and then the checkout
\* had edits before.
LEMMA WorkerPlace ==
  ASSUME TypeInv, AliveInv, PlaceInv, NEW t \in Tasks, WorkerProcess(t)
  PROVE  PlaceInv'
<1>a. /\ TasksTypeOK /\ DOMAIN worker = Tasks /\ worker[t] \in Workers
      /\ repo \in [head : SUBSET Commits, dirty : BOOLEAN] /\ setting.dirty \in BOOLEAN
  BY SettingsAssumption DEF TypeInv, TasksTypeOK, WorkspaceTypeOK, Setting
<1>1. RunWorker(t) /\ UNCHANGED engine
  BY DEF WorkerProcess
<1>2. /\ UNCHANGED <<setting, plan, record, run, step>>
      /\ worker[t].state # "none" \/ stray[t] # {}
      /\ worker[t].state = "none" => worker'[t] = worker[t]
      /\ worker'[t].where = worker[t].where /\ stray'[t] \subseteq stray[t]
      /\ \A u \in Tasks \ {t} : worker'[u] = worker[u] /\ stray'[u] = stray[u]
  <2>1. worker[t].state # "none" \/ stray[t] # {}
    BY <1>1 DEF RunWorker, Heed, Announce, Work, Exit, StrayWorks, StrayExits, Alive
  <2> QED
    BY <1>a, <1>1, <2>1, WorkerFrame DEF planVars
<1>3. UNCHANGED budget
  BY <1>1 DEF RunWorker, Heed, Announce, Work, Exit, StrayWorks, StrayExits
<1>5. repo'.dirty = setting.dirty
  <2>1. CASE UNCHANGED repo
    BY <2>1 DEF PlaceInv
  <2>2. CASE \E w \in stray[t] \cup {worker[t]} :
               /\ w \in stray[t] \/ Alive(t)
               /\ Writes(t) /\ w.where = "root" /\ EditRoot
    <3>1. Place(t) = "root"
      BY <1>2, <2>2 DEF PlaceInv, Placed, Alive
    <3>2. setting.dirty
      BY <2>2, <3>1 DEF Place
    <3> QED
      BY <1>a, <2>2, <3>2 DEF EditRoot
  <2> QED
    BY <1>1, <2>1, <2>2 DEF RunWorker, Heed, Announce, Work, Exit, StrayWorks, StrayExits, WorkOf,
      workspaceVars, EditIn, CommitIn
<1>6. \A u \in Tasks : Placed(u)'
  <2>1. ASSUME NEW u \in Tasks PROVE Placed(u)'
    <3>1. worker[u].state # "none" \/ worker'[u] = worker[u]
      BY <1>2
    <3>2. worker'[u].where = worker[u].where /\ stray'[u] \subseteq stray[u]
      BY <1>2
    <3>3. Place(u)' = Place(u)
      BY <1>2 DEF Place, Writes
    <3>4. Placed(u)
      BY DEF PlaceInv
    <3> QED
      BY <1>2, <3>1, <3>2, <3>3, <3>4 DEF Placed
  <2> QED
    BY <2>1
<1>7. plan # NoPlan
  BY <1>2 DEF PlaceInv, Untouched
<1> QED
  BY <1>1, <1>2, <1>3, <1>5, <1>6, <1>7 DEF PlaceInv, At, NoPlan

\* A step of the main thread that waits for nobody.
LEMMA CalmPlace ==
  ASSUME TypeInv, AliveInv, PlanInv, WaveInv, PlaceInv, CalmStep
  PROVE  PlaceInv'
<1>1. /\ engine.at \in CalmPlaces /\ engine'.at \in CalmPlaces
      /\ UNCHANGED <<record, worker, stray, run, step>>
  BY CalmSteps DEF filesVars, workVars
<1>2. /\ UNCHANGED <<setting, budget>> /\ repo'.dirty = repo.dirty
      /\ engine'.info = engine.info /\ engine'.at \notin {"repair", "repairing"}
  BY CalmLooks DEF PlaceInv
<1>5. /\ engine'.at = "plan" => engine.at = "plan" /\ UNCHANGED plan
      /\ UNCHANGED plan \/ PlannerAnswers
  BY CalmPhases
<1>6. CASE UNCHANGED plan
  <2>1. \A t \in Tasks : Placed(t)' /\ (Untouched(t) => Untouched(t)')
    BY <1>1, <1>2, <1>6 DEF PlaceInv, Placed, Place, Writes, Untouched
  <2> QED
    BY <1>1, <1>2, <1>5, <1>6, <2>1 DEF PlaceInv, At, CalmPlaces, NoPlan
<1>7. CASE PlannerAnswers
  <2>1. \A t \in Tasks : Untouched(t)
    BY <1>7 DEF PlaceInv, PlannerAnswers
  <2>2. \A t \in Tasks : Placed(t)' /\ Untouched(t)'
    BY <1>1, <2>1 DEF Untouched, Placed, Invoking
  <2> QED
    BY <1>1, <1>2, <1>5, <1>6, <2>2 DEF PlaceInv, At, CalmPlaces
<1> QED
  BY <1>5, <1>6, <1>7

\* Every step of the main thread keeps the invariant.
LEMMA MainPlace ==
  ASSUME TypeInv, AliveInv, PlanInv, WaveInv, PlaceInv, MainThread
  PROVE  PlaceInv'
<1>a. /\ DOMAIN engine = {"at", "info", "answers", "wave", "todo", "ultraUsed", "pass",
                          "changed", "unrepaired", "protected", "verdict", "kept"}
      /\ DOMAIN run = Tasks /\ DOMAIN step = Tasks /\ engine.todo \subseteq Tasks
  BY DEF TypeInv, Engines, TasksTypeOK
<1>b. ~At("repair") /\ ~At("repairing") /\ \A t \in Tasks : Placed(t)
  BY DEF PlaceInv
<1>1. CASE CalmStep
  BY <1>1, CalmPlace
<1>2. CASE Open
  <2>1. /\ engine'.at = IF plan = NoPlan THEN "plan" ELSE "prepare"
        /\ engine'.info = repo
        /\ UNCHANGED <<setting, plan, record, worker, stray, run, step, budget, repo>>
    BY <1>2, <1>a DEF Open, planVars, workVars, workspaceVars
  <2>2. \A t \in Tasks : Placed(t)' /\ (Untouched(t) => Untouched(t)')
    BY <1>b, <2>1 DEF Placed, Place, Writes, Untouched
  <2> QED
    BY <2>1, <2>2 DEF PlaceInv, At, NoPlan
<1>3. CASE StartWave
  <2>1. /\ engine'.at = "join" /\ engine'.info = engine.info
        /\ UNCHANGED <<setting, plan, record, worker, stray, budget, repo>>
    BY <1>3, <1>a DEF StartWave, planVars, workVars, workspaceVars
  <2>2. plan # NoPlan
    BY <1>3 DEF StartWave, WaveInv
  <2>3. engine.info.dirty = setting.dirty
    BY <1>3 DEF StartWave, PlaceInv, At
  <2>4. ASSUME NEW t \in Tasks PROVE Placed(t)'
    <3>1. \/ step'[t] = "idle"
          \/ /\ step'[t] = "entered"
             /\ run'[t] = [NoRun EXCEPT !.where = IF Isolated(t) THEN "tree" ELSE "root"]
      BY <1>3 DEF StartWave
    <3>2. step'[t] # "idle" => run'[t].where = Place(t)
      BY <2>3, <3>1 DEF Isolated, Place, NoRun
    <3> QED
      BY <1>b, <2>1, <3>1, <3>2 DEF Placed, Place, Writes, Invoking
  <2> QED
    BY <1>3, <2>1, <2>2, <2>4 DEF PlaceInv, At, NoPlan, StartWave
<1>4. CASE Join
  <2>1. UNCHANGED <<setting, plan, record, worker, stray, budget, repo>>
    BY <1>4 DEF Join, planVars, filesVars, workVars, workspaceVars
  <2>2. plan # NoPlan /\ engine.at \in {"join", "ultra"}
    BY <1>4 DEF Join, WaveInv, At
  <2>3. /\ engine'.info = engine.info
        /\ engine'.at \in {"ultra", "prepare", "review", "remove"}
    BY <1>4, <1>a DEF Join, NextWave, Failed
  <2>4. ASSUME NEW t \in Tasks PROVE Placed(t)'
    <3>1. \/ step'[t] = step[t] /\ run'[t] = run[t]
          \/ step'[t] = "idle"
          \/ /\ step'[t] = "entered" /\ step[t] \in {"returned", "raised"}
             /\ run'[t] = [NoRun EXCEPT !.where = run[t].where, !.single = TRUE]
      <4>1. CASE UNCHANGED <<run, step>>
        BY <4>1
      <4>2. CASE step' = [u \in Tasks |-> "idle"]
        BY <4>2
      <4>3. ASSUME NEW c \in Candidates,
                   run' = [run EXCEPT ![c] = [NoRun EXCEPT !.where = run[c].where,
                                                           !.single = TRUE]],
                   step' = [step EXCEPT ![c] = "entered"]
            PROVE  \/ step'[t] = step[t] /\ run'[t] = run[t]
                   \/ /\ step'[t] = "entered" /\ step[t] \in {"returned", "raised"}
                      /\ run'[t] = [NoRun EXCEPT !.where = run[t].where, !.single = TRUE]
        <5>1. c \in Tasks /\ step[c] \in {"returned", "raised"}
          BY <1>4, <1>a, <4>3 DEF Join, AllReturned, Candidates
        <5>2. CASE t = c
          BY <1>a, <4>3, <5>1, <5>2
        <5>3. CASE t # c
          BY <1>a, <4>3, <5>3
        <5> QED
          BY <5>2, <5>3
      <4> QED
        BY <1>4, <4>1, <4>2, <4>3 DEF Join
    <3>2. step'[t] # "idle" => run'[t].where = Place(t)
      BY <1>b, <3>1 DEF Placed, NoRun
    <3>3. step'[t] \in Invoking \cup {"register", "prompt"} => step'[t] = step[t]
      BY <3>1 DEF Invoking
    <3> QED
      BY <1>b, <2>1, <3>2, <3>3 DEF Placed, Place, Writes
  <2> QED
    BY <2>1, <2>2, <2>3, <2>4 DEF PlaceInv, At, NoPlan
<1>5. CASE Close
  <2>1. /\ UNCHANGED <<setting, plan, record, worker, stray, budget, repo>>
        /\ \A t \in Tasks : step'[t] = "idle"
        /\ engine'.at = "off"
    BY <1>5 DEF Close, planVars, filesVars, workVars, workspaceVars, EngineOff
  <2>2. \A t \in Tasks : Placed(t)' /\ (Untouched(t) => Untouched(t)')
    BY <1>b, <2>1 DEF Placed, Place, Writes, Untouched, Invoking
  <2> QED
    BY <2>1, <2>2 DEF PlaceInv, At, NoPlan
<1> QED
  BY <1>b, <1>1, <1>2, <1>3, <1>4, <1>5 DEF MainThread, CalmStep, StartRepair, EndRepair

\* Every step of the system keeps the invariant.
LEMMA StepPlace ==
  ASSUME TypeInv, AliveInv, PlanInv, WaveInv, PlaceInv, [Next]_vars
  PROVE  PlaceInv'
<1>a. /\ TasksTypeOK /\ DOMAIN worker = Tasks /\ DOMAIN record = Tasks
      /\ DOMAIN budget = {"crashes", "interrupts", "commits", "edits"}
  BY DEF TypeInv, TasksTypeOK, PlanInv, Budgets
<1>b. \A t \in Tasks : Placed(t)
  BY DEF PlaceInv
<1>1. CASE MainThread
  BY <1>1, MainPlace
<1>2. CASE Launch \/ Crash
  <2>1. /\ UNCHANGED <<setting, plan, stray, record, repo>>
        /\ budget'.commits = budget.commits /\ budget'.edits = budget.edits
        /\ engine'.at \in {"off", "recover"}
    BY <1>2, <1>a DEF Launch, Crash, ThreadsDie, EngineOff, taskVars, planVars, filesVars,
      workVars, workspaceVars
  <2>2. ASSUME NEW t \in Tasks
        PROVE  \/ UNCHANGED <<step, run, worker>>
               \/ /\ step'[t] = "idle"
                  /\ worker'[t] = worker[t] \/ worker'[t].state = "none"
    BY <1>2 DEF Launch, Crash, ThreadsDie, taskVars, workVars, NoWorker
  <2>3. \A t \in Tasks : Placed(t)' /\ (Untouched(t) => Untouched(t)')
    BY <1>b, <2>1, <2>2 DEF Placed, Place, Writes, Untouched, Invoking
  <2> QED
    BY <2>1, <2>3 DEF PlaceInv, At, NoPlan
<1>3. CASE ReviewerMerges \/ UserActs \/ Over \/ UNCHANGED vars
  <2>1. ~UserActs
    BY DEF UserActs, PlaceInv
  <2>2. UNCHANGED <<setting, plan, record, worker, stray, run, step, budget, repo, engine>>
    BY <1>3, <2>1 DEF ReviewerMerges, Over, vars, taskVars, planVars, filesVars, workVars,
      workspaceVars, CommitIn, EditIn
  <2>3. \A t \in Tasks : Placed(t)' /\ (Untouched(t) => Untouched(t)')
    BY <1>b, <2>2 DEF Placed, Place, Writes, Untouched
  <2> QED
    BY <2>2, <2>3 DEF PlaceInv, At, NoPlan
<1>4. ASSUME NEW u \in Tasks, RecoverOrphan(u) PROVE PlaceInv'
  <2>1. UNCHANGED <<setting, plan, run, step, budget, repo, engine>>
    BY <1>4 DEF RecoverOrphan, ReconcileOrphan, planVars, workspaceVars
  <2>2. ASSUME NEW t \in Tasks
        PROVE  /\ worker'[t] = worker[t] \/ worker'[t].state = "none"
               /\ \/ record'[t] = record[t]
                  \/ Alive(t) /\ record'[t].where = record[t].where
               /\ \A w \in stray'[t] :
                    w \in stray[t] \/ (Alive(t) /\ w.where = worker[t].where)
    <3>1. \/ record' = record
          \/ Alive(u) /\ \E s : record' = [record EXCEPT ![u].status = "interrupted", ![u].session = s]
      BY <1>4 DEF RecoverOrphan, ReconcileOrphan, InterruptedRecord
    <3>2. worker' = [worker EXCEPT ![u] = NoWorker]
      BY <1>4 DEF RecoverOrphan, ReconcileOrphan
    <3>3. \/ UNCHANGED stray
          \/ Alive(u) /\ stray' = [stray EXCEPT ![u] = @ \cup
                           {[worker[u] EXCEPT !.session = Forgotten, !.said = TRUE]}]
      BY <1>4 DEF RecoverOrphan, ReconcileOrphan
    <3>4. [worker[u] EXCEPT !.session = Forgotten, !.said = TRUE].where = worker[u].where
      BY <1>a DEF TasksTypeOK, Workers
    <3>5. worker'[t] = worker[t] \/ worker'[t].state = "none"
      BY <1>a, <3>2 DEF NoWorker
    <3>6. record'[t] = record[t] \/ (Alive(t) /\ record'[t].where = record[t].where)
      <4>1. CASE record' = record
        BY <4>1
      <4>2. ASSUME Alive(u), NEW s,
                   record' = [record EXCEPT ![u].status = "interrupted", ![u].session = s]
            PROVE  record'[t] = record[t] \/ (Alive(t) /\ record'[t].where = record[t].where)
        BY <1>a, <4>2 DEF TasksTypeOK, Records
      <4> QED
        BY <3>1, <4>1, <4>2
    <3>7. \A w \in stray'[t] : w \in stray[t] \/ (Alive(t) /\ w.where = worker[t].where)
      <4>1. DOMAIN stray = Tasks
        BY <1>a DEF TasksTypeOK
      <4>2. CASE t # u
        BY <3>3, <4>1, <4>2
      <4>3. CASE t = u
        BY <3>3, <3>4, <4>1, <4>3
      <4> QED
        BY <4>2, <4>3
    <3> QED
      BY <3>5, <3>6, <3>7
  <2>3. \A t \in Tasks : step[t] = "idle"
    BY <1>4 DEF RecoverOrphan, AliveInv
  <2>4. ASSUME NEW t \in Tasks
        PROVE  Placed(t)' /\ (Untouched(t) => Untouched(t)')
    BY <1>b, <2>1, <2>2, <2>3 DEF Placed, Place, Writes, Untouched, Alive, Invoking
  <2> QED
    BY <2>1, <2>4 DEF PlaceInv, At, NoPlan
<1>5. ASSUME NEW t \in Tasks, TaskThread(t) PROVE PlaceInv'
  BY <1>5, ThreadPlace
<1>6. ASSUME NEW t \in Tasks, WorkerProcess(t) PROVE PlaceInv'
  BY <1>6, WorkerPlace
<1> QED
  BY <1>1, <1>2, <1>3, <1>4, <1>5, <1>6 DEF Next

\* In a job that nobody disturbs and whose workers are tame no new session is ever
\* given an external action that may have been carried out, unless the ledger has it as completed: after
\* any number of crashes, retries and interruptions either its session is resumed
\* or the action is verified first (engine.py _run_task, "Never mechanically retry
\* such an invocation under a new session").
THEOREM NothingUncertainRepeated == Undisturbed /\ Spec => NeverRepeatUncertain
<1>1. Undisturbed /\ Init => PlaceInv
  BY InitPlace
<1>2. WorkInv /\ WritersInv /\ PlaceInv /\ [Next]_vars => PlaceInv'
  BY StepPlace DEF WorkInv, WritersInv
<1>3. WorkInv /\ PlaceInv /\ [Next]_vars =>
      [\A t \in Tasks :
         setting.tame /\ Repeats(t) /\ Worked(t, Round(t)) => RecordedCompleted(t)]_vars
  <2> SUFFICES ASSUME WorkInv, PlaceInv, [Next]_vars, NEW t \in Tasks, setting.tame,
                      Repeats(t), Worked(t, Round(t))
               PROVE  RecordedCompleted(t)
    OBVIOUS
  <2>1. Placed(t)
    BY DEF PlaceInv
  <2>2. step[t] # "idle" /\ ~(Unfinished(t) /\ record[t].where # run[t].where)
    BY <2>1 DEF Placed, Unfinished, Repeats
  <2> QED
    BY <2>2, RepeatsSeeing DEF WorkInv, Repeats, RecordedCompleted
<1> QED
  BY <1>1, <1>2, <1>3, WorkInvariant, PlanInvariant, PTL DEF Spec, NeverRepeatUncertain
=============================================================================
