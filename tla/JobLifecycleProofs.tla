------------------------- MODULE JobLifecycleProofs -------------------------
(* Theorems about JobLifecycle, for any number of controllers, pages and   *)
(* commands, any plan, with and without crashes.                           *)
EXTENDS JobLifecycle, ControlQueueProofs

\* What a launcher is about to record is of the right kind.
ChildKinds ==
  \A l \in Launchers :
     /\ cli[l] = "record" => child[l] \in Controllers
     /\ cli[l] = "record-ui" => child[l] \in Uis

\* A wave runs only while waves are left.
WavesLeft == \A e \in Engines : pc[e] = "working" => left[e] > 0

\* Types, and the shape of the control queue.
TypeInv == TypeOK /\ ChildKinds /\ WavesLeft /\ QueueInv(control)

\* The types hold initially.
LEMMA InitType == Init => TypeInv
<1> SUFFICES ASSUME Init PROVE TypeInv
  OBVIOUS
<1>1. QueueInv(control) /\ QueueTypeOK(control)
  BY EmptyQueueInv DEF Init, QueueInv
<1>2. status \in ACTIVE_STATES
  BY DEF Init, ACTIVE_STATES, PAUSED_STATES
<1>3. left \in [Engines -> 0..Waves]
  BY WavesAssumption DEF Init
<1>4. cli \in [Launchers -> LauncherPCs]
  <2>1. PICK mode \in StartModes : \E cast \in Casts[mode] : cli =
          [l \in Launchers |->
             IF l \in cast THEN "begin"
             ELSE IF l \in Clients THEN "done"
             ELSE IF l \in Uis THEN "off"
             ELSE CASE mode \in {"start", "run"} -> "policy"
                    [] mode = "start-setup" -> "launch-ui"
                    [] mode = "run-setup" -> "serve"]
    BY DEF Init
  <2>2. mode \in {"start", "run"} \/ mode = "start-setup" \/ mode = "run-setup"
    BY StartModesAssumption
  <2> QED BY <2>1, <2>2 DEF LauncherPCs
<1>5. ChildKinds
  BY StartModesAssumption DEF Init, ChildKinds
<1>6. WavesLeft
  BY DEF Init, WavesLeft
<1> QED
  BY <1>1, <1>2, <1>3, <1>4, <1>5, <1>6 DEF TypeInv, TypeOK, Init, EnginePCs

\* A step of a command keeps the types.
LEMMA CommandType ==
  ASSUME TypeInv, NEW l \in Launchers, Command(l)
  PROVE  TypeInv'
<1> USE DEF TypeInv, TypeOK, ChildKinds, WavesLeft, jobVars, engineVars,
            cliVars, At, Goto, LauncherPCs, EnginePCs
<1>1. CASE SetSpeedPolicy(l)
  BY <1>1 DEF SetSpeedPolicy, RunInForeground, Engines
<1>2. CASE SavePage(l)
  BY <1>2 DEF SavePage, RunInForeground, Engines
<1>3. CASE ClosePage(l)
  BY <1>3 DEF ClosePage
<1>4. CASE SetPlanning(l)
  BY <1>4 DEF SetPlanning, ACTIVE_STATES
<1>5. CASE Spawn(l)
  BY <1>5 DEF Spawn, Engines
<1>6. CASE RecordController(l)
  BY <1>6 DEF RecordController
<1>7. CASE LaunchUi(l)
  BY <1>7 DEF LaunchUi
<1>8. CASE RecordUi(l)
  BY <1>8 DEF RecordUi
<1>9. CASE StopUi(l)
  BY <1>9 DEF StopUi
<1>10. CASE SetCancelled(l)
  BY <1>10 DEF SetCancelled, TERMINAL_STATES
<1>11. CASE ReadStatus(l)
  BY <1>11 DEF ReadStatus
<1>12. CASE MarkInterrupted(l)
  BY <1>12 DEF MarkInterrupted, ACTIVE_STATES, PAUSED_STATES
<1>13. CASE EnqueuePause(l)
  <2>1. QueueInv(control') /\ QueueTypeOK(control')
    BY <1>13, EnqueueInv DEF EnqueuePause, Commands, CONTROL_KINDS, Modes,
       Boundaries, QueueInv
  <2> QED BY <1>13, <2>1 DEF EnqueuePause
<1>14. CASE EnqueueCancel(l)
  <2>1. QueueInv(control') /\ QueueTypeOK(control')
    BY <1>14, EnqueueInv DEF EnqueueCancel, Commands, CONTROL_KINDS, Modes,
       Boundaries, QueueInv
  <2> QED BY <1>14, <2>1 DEF EnqueueCancel
<1>15. CASE RequestCancel(l)
  BY <1>15 DEF RequestCancel
<1>16. CASE LookAfterCancel(l)
  BY <1>16 DEF LookAfterCancel
<1>17. CASE ReadResume(l)
  BY <1>17 DEF ReadResume
<1>18. CASE EnqueueResume(l)
  <2>1. QueueInv(control') /\ QueueTypeOK(control')
    BY <1>18, EnqueueInv DEF EnqueueResume, Commands, CONTROL_KINDS, Modes,
       Boundaries, QueueInv
  <2> QED BY <1>18, <2>1 DEF EnqueueResume
<1>19. CASE ReadSpeed(l)
  BY <1>19 DEF ReadSpeed
<1> QED
  BY <1>1, <1>2, <1>3, <1>4, <1>5, <1>6, <1>7, <1>8, <1>9, <1>10, <1>11,
     <1>12, <1>13, <1>14, <1>15, <1>16, <1>17, <1>18, <1>19 DEF Command

\* Taking the first request keeps the queue in order.
LEMMA TakesType ==
  ASSUME TypeInv, NEW e, NEW kind, NEW place, NEW decision \in Decisions,
         Takes(e, kind, place, decision)
  PROVE  QueueInv(control') /\ QueueTypeOK(control')
BY FirstPending, CompleteInv DEF TypeInv, TypeOK, Takes, QueueInv

\* A step of a controller keeps the types.
LEMMA ControllerType ==
  ASSUME TypeInv, NEW c \in Controllers, ControllerStep(c) \/ Heartbeat(c)
  PROVE  TypeInv'
<1> USE DEF TypeInv, TypeOK, ChildKinds, WavesLeft, jobVars, cliVars,
            EnginePCs, Engines, Move, JobUnchangedBut
<1>1. CASE TryLease(c)
  BY <1>1 DEF TryLease
<1>2. CASE TakeJob(c)
  BY <1>2 DEF TakeJob
<1>3. CASE ReadJob(c)
  BY <1>3 DEF ReadJob
<1>4. CASE Wake(c)
  BY <1>4 DEF Wake, ACTIVE_STATES
<1>5. CASE Heartbeat(c)
  BY <1>5 DEF Heartbeat, engineVars
<1> QED BY <1>1, <1>2, <1>3, <1>4, <1>5 DEF ControllerStep

\* A step of an engine keeps the types.
LEMMA EngineType ==
  ASSUME TypeInv, NEW e \in Engines, EngineStep(e) \/ EngineDies(e)
  PROVE  TypeInv'
<1> USE DEF TypeInv, TypeOK, ChildKinds, WavesLeft, jobVars, cliVars,
            EnginePCs, Move, JobUnchangedBut, EngineSets, ACTIVE_STATES,
            PAUSED_STATES, TERMINAL_STATES
<1>1. CASE EnterStore(e)
  BY <1>1 DEF EnterStore
<1>2. CASE BeginPlan(e)
  BY <1>2 DEF BeginPlan
<1>3. CASE SavePlan(e)
  BY <1>3 DEF SavePlan
<1>4. CASE BeginRun(e)
  BY <1>4 DEF BeginRun
<1>5. CASE AppliesCancel(e)
  <2>1. QueueInv(control') /\ QueueTypeOK(control')
    BY <1>5, TakesType DEF AppliesCancel, Decisions
  <2> QED BY <1>5, <2>1 DEF AppliesCancel
<1>6. CASE AppliesPause(e)
  <2>1. QueueInv(control') /\ QueueTypeOK(control')
    BY <1>6, TakesType DEF AppliesPause, Decisions
  <2> QED BY <1>6, <2>1 DEF AppliesPause
<1>7. CASE SettlesNeedless(e)
  <2>1. QueueInv(control') /\ QueueTypeOK(control')
    BY <1>7, TakesType DEF SettlesNeedless, Decisions
  <2> QED BY <1>7, <2>1 DEF SettlesNeedless
<1>8. CASE AppliesResume(e)
  <2>1. QueueInv(control') /\ QueueTypeOK(control')
    BY <1>8, TakesType DEF AppliesResume, Decisions
  <2> QED BY <1>8, <2>1 DEF AppliesResume
<1>9. CASE PauseTimesOut(e)
  BY <1>9 DEF PauseTimesOut
<1>10. CASE StartWave(e)
  BY <1>10 DEF StartWave
<1>11. CASE EndWave(e)
  BY <1>11, WavesAssumption DEF EndWave
<1>12. CASE BeginReview(e)
  BY <1>12 DEF BeginReview
<1>13. CASE Approve(e)
  BY <1>13 DEF Approve
<1>14. CASE CompleteJob(e)
  BY <1>14 DEF CompleteJob
<1>15. CASE Fails(e)
  BY <1>15 DEF Fails
<1>16. CASE HandleFailure(e)
  BY <1>16 DEF HandleFailure
<1>17. CASE Leave(e)
  BY <1>17 DEF Leave
<1>18. CASE EngineDies(e)
  BY <1>18 DEF EngineDies
<1> QED
  BY <1>1, <1>2, <1>3, <1>4, <1>5, <1>6, <1>7, <1>8, <1>9,
     <1>10, <1>11, <1>12, <1>13, <1>14, <1>15, <1>16, <1>17, <1>18
  DEF EngineStep

\* Every step keeps the types.
LEMMA StepType == TypeInv /\ [Next]_vars => TypeInv'
<1> SUFFICES ASSUME TypeInv, [Next]_vars PROVE TypeInv'
  OBVIOUS
<1>1. ASSUME NEW l \in Launchers, LauncherDies(l) PROVE TypeInv'
  BY <1>1 DEF LauncherDies, TypeInv, TypeOK, ChildKinds, WavesLeft, jobVars,
     engineVars, Goto, LauncherPCs
<1>2. CASE HeartbeatAges
  BY <1>2 DEF HeartbeatAges, TypeInv, TypeOK, ChildKinds, WavesLeft,
     engineVars, cliVars
<1>3. CASE Terminated \/ UNCHANGED vars
  BY <1>3 DEF Terminated, vars, jobVars, engineVars, cliVars, TypeInv, TypeOK,
     ChildKinds, WavesLeft
<1> QED BY <1>1, <1>2, <1>3, CommandType, ControllerType, EngineType DEF Next

\* Every variable keeps its type, and the control queue its numbering and its
\* supersession rule: the invariant the other proofs of this component build on.
LEMMA TypeInvariant == Spec => []TypeInv
BY InitType, StepType, PTL DEF Spec

\* Every variable keeps its type, whatever races and crashes.
THEOREM TypeCorrect == Spec => []TypeOK
<1>1. TypeInv => TypeOK
  BY DEF TypeInv
<1> QED BY <1>1, TypeInvariant, PTL
-----------------------------------------------------------------------------
(* The lease.                                                              *)

\* A step of a command touches no lease; it starts controllers, or the engine
\* of a foreground run, and neither begins with one.
LEMMA CommandLease ==
  ASSUME TypeInv, OneController, NEW l \in Launchers, Command(l)
  PROVE  OneController'
<1> USE DEF TypeInv, TypeOK, OneController, Holding, EnginePCs, Engines,
            engineVars
<1>1. CASE SetSpeedPolicy(l) \/ SavePage(l)
  BY <1>1, ProcessesAssumption DEF SetSpeedPolicy, SavePage, RunInForeground
<1>2. CASE Spawn(l)
  BY <1>2 DEF Spawn
<1>3. CASE UNCHANGED <<lease, pc>>
  BY <1>3
<1> QED
  BY <1>1, <1>2, <1>3 DEF Command, ClosePage, SetPlanning, RecordController,
     LaunchUi, RecordUi, StopUi, SetCancelled, ReadStatus, MarkInterrupted,
     EnqueuePause, EnqueueCancel, RequestCancel, LookAfterCancel, ReadResume,
     EnqueueResume, ReadSpeed

\* Only the controller that finds the lease free takes it, and only its owner
\* gives it back.
LEMMA ControllerLease ==
  ASSUME TypeInv, OneController, NEW c \in Controllers,
         ControllerStep(c) \/ Heartbeat(c)
  PROVE  OneController'
<1> USE ProcessesAssumption DEF TypeInv, TypeOK, OneController, Holding,
        EnginePCs, Engines, Launchers, Move
<1>1. CASE TryLease(c)
  BY <1>1 DEF TryLease
<1>2. CASE TakeJob(c)
  BY <1>2 DEF TakeJob
<1>3. CASE ReadJob(c)
  BY <1>3 DEF ReadJob
<1>4. CASE Wake(c)
  BY <1>4 DEF Wake
<1>5. CASE Heartbeat(c)
  BY <1>5 DEF Heartbeat, engineVars
<1> QED BY <1>1, <1>2, <1>3, <1>4, <1>5 DEF ControllerStep

\* An engine that goes from one place to another is past its lease, and leaves it
\* alone until its process ends.
LEMMA EngineMoves ==
  ASSUME TypeInv, NEW e \in Engines, EngineStep(e), ~Leave(e)
  PROVE  /\ UNCHANGED lease
         /\ pc[e] \in Holding
         /\ \E place \in EnginePCs : pc' = [pc EXCEPT ![e] = place]
<1> USE DEF TypeInv, TypeOK, Holding, EnginePCs, Engines
<1> USE DEF Move, EngineSets
<1>1. CASE EnterStore(e)
  BY <1>1 DEF EnterStore
<1>2. CASE BeginPlan(e)
  BY <1>2 DEF BeginPlan
<1>3. CASE SavePlan(e)
  BY <1>3 DEF SavePlan
<1>4. CASE BeginRun(e)
  BY <1>4 DEF BeginRun
<1>5. CASE AppliesCancel(e)
  BY <1>5 DEF AppliesCancel, Takes
<1>6. CASE AppliesPause(e)
  BY <1>6 DEF AppliesPause, Takes
<1>7. CASE SettlesNeedless(e)
  BY <1>7 DEF SettlesNeedless, Takes
<1>8. CASE AppliesResume(e)
  BY <1>8 DEF AppliesResume, Takes
<1>9. CASE PauseTimesOut(e)
  BY <1>9 DEF PauseTimesOut
<1>10. CASE StartWave(e)
  BY <1>10 DEF StartWave
<1>11. CASE EndWave(e)
  BY <1>11 DEF EndWave
<1>12. CASE BeginReview(e)
  BY <1>12 DEF BeginReview
<1>13. CASE Approve(e)
  BY <1>13 DEF Approve
<1>14. CASE CompleteJob(e)
  BY <1>14 DEF CompleteJob
<1>15. CASE Fails(e)
  BY <1>15 DEF Fails
<1>16. CASE HandleFailure(e)
  BY <1>16 DEF HandleFailure
<1> QED
  BY <1>1, <1>2, <1>3, <1>4, <1>5, <1>6, <1>7, <1>8, <1>9, <1>10,
     <1>11, <1>12, <1>13, <1>14, <1>15, <1>16 DEF EngineStep

\* So it keeps the lease.
LEMMA EngineLease ==
  ASSUME TypeInv, OneController, NEW e \in Engines,
         EngineStep(e) \/ EngineDies(e)
  PROVE  OneController'
<1> USE DEF TypeInv, TypeOK, OneController, Holding, EnginePCs, Engines
<1>1. CASE Leave(e) \/ EngineDies(e)
  BY <1>1 DEF Leave, EngineDies, Move
<1>2. CASE EngineStep(e) /\ ~Leave(e)
  <2>1. /\ UNCHANGED lease
        /\ pc[e] \in Holding
        /\ \E place \in EnginePCs : pc' = [pc EXCEPT ![e] = place]
    BY <1>2, EngineMoves
  <2> QED BY <2>1
<1> QED BY <1>1, <1>2

\* At most one of the controllers of a job is past its lease, however many are
\* launched and whoever crashes (controller.py JobController.run).
THEOREM LeaseIsExclusive == Spec => []OneController
<1>1. Init => OneController
  BY DEF Init, OneController, Holding, Engines
<1>2. TypeInv /\ OneController /\ [Next]_vars => OneController'
  <2> SUFFICES ASSUME TypeInv, OneController, [Next]_vars PROVE OneController'
    OBVIOUS
  <2>1. CASE UNCHANGED <<lease, pc>>
    BY <2>1 DEF OneController
  <2> QED
    BY <2>1, CommandLease, ControllerLease, EngineLease DEF Next, LauncherDies,
       HeartbeatAges, Terminated, vars, engineVars
<1> QED BY <1>1, <1>2, TypeInvariant, PTL DEF Spec

-----------------------------------------------------------------------------
(* One engine.  The lease keeps controllers apart, not the engine of a run *)
(* in the foreground, which has none: what follows is about the jobs that  *)
(* are started in the background.                                          *)

NoForeground == StartModes \subseteq {"start", "start-setup"}

\* No engine runs in the foreground, and none is about to.
BackgroundInv ==
  /\ pc[Foreground] = "off"
  /\ cli[Starter] # "serve"
  /\ cli[Starter] = "policy" => launch[Starter]
  /\ \A l \in Launchers : cli[l] \in {"flag", "look", "stop-ui"} => l \in Clients

\* The commands start no engine but controllers.
LEMMA CommandBackground ==
  ASSUME TypeInv, BackgroundInv, NEW l \in Launchers, Command(l)
  PROVE  BackgroundInv'
<1> USE ProcessesAssumption
    DEF TypeInv, TypeOK, BackgroundInv, At, Goto, IsClient, jobVars, engineVars,
        cliVars, Launchers, Engines
<1>1. CASE SetSpeedPolicy(l)
  BY <1>1 DEF SetSpeedPolicy, RunInForeground
<1>2. CASE SavePage(l)
  BY <1>2 DEF SavePage, RunInForeground
<1>3. CASE ClosePage(l) \/ SetPlanning(l) \/ RecordController(l) \/ RecordUi(l)
  BY <1>3 DEF ClosePage, SetPlanning, RecordController, RecordUi
<1>4. CASE Spawn(l)
  BY <1>4 DEF Spawn
<1>5. CASE LaunchUi(l)
  BY <1>5 DEF LaunchUi
<1>6. CASE StopUi(l)
  BY <1>6 DEF StopUi
<1>7. CASE SetCancelled(l) \/ ReadStatus(l) \/ MarkInterrupted(l) \/ EnqueuePause(l)
  BY <1>7 DEF SetCancelled, ReadStatus, MarkInterrupted, EnqueuePause
<1>8. CASE EnqueueCancel(l) \/ RequestCancel(l) \/ LookAfterCancel(l)
  BY <1>8 DEF EnqueueCancel, RequestCancel, LookAfterCancel
<1>9. CASE ReadResume(l) \/ EnqueueResume(l) \/ ReadSpeed(l)
  BY <1>9 DEF ReadResume, EnqueueResume, ReadSpeed
<1> QED
  BY <1>1, <1>2, <1>3, <1>4, <1>5, <1>6, <1>7, <1>8, <1>9 DEF Command

\* Neither does anything else.
LEMMA StepBackground ==
  ASSUME TypeInv, BackgroundInv, [Next]_vars
  PROVE  BackgroundInv'
<1> USE ProcessesAssumption DEF TypeInv, TypeOK, Engines
<1>1. ASSUME NEW l \in Launchers, LauncherDies(l) PROVE BackgroundInv'
  BY <1>1 DEF LauncherDies, Goto, BackgroundInv, engineVars, Launchers
<1>2. ASSUME UNCHANGED cliVars, pc'[Foreground] = pc[Foreground]
      PROVE  BackgroundInv'
  BY <1>2 DEF BackgroundInv, cliVars
<1>3. ASSUME NEW c \in Controllers, ControllerStep(c) \/ Heartbeat(c)
      PROVE  UNCHANGED cliVars /\ pc'[Foreground] = pc[Foreground]
  BY <1>3 DEF ControllerStep, TryLease, TakeJob, ReadJob, Wake, Heartbeat, Move,
     engineVars
<1>4. ASSUME NEW e \in Engines, EngineStep(e) \/ EngineDies(e)
      PROVE  UNCHANGED cliVars /\ pc'[Foreground] = pc[Foreground]
  <2>1. UNCHANGED cliVars
    BY <1>4 DEF EngineDies, EngineStep, EnterStore, BeginPlan, SavePlan, BeginRun,
       AppliesCancel, AppliesPause, SettlesNeedless, AppliesResume, PauseTimesOut,
       StartWave, EndWave, BeginReview, Approve, CompleteJob, Fails, HandleFailure,
       Leave, EngineSets, Takes
  <2>2. pc[e] # "off" /\ \E place : pc' = [pc EXCEPT ![e] = place]
    <3>1. CASE Leave(e) \/ EngineDies(e)
      BY <3>1 DEF Leave, EngineDies, Move, Running
    <3>2. CASE EngineStep(e) /\ ~Leave(e)
      BY <3>2, EngineMoves DEF Holding
    <3> QED BY <1>4, <3>1, <3>2
  <2> QED BY <2>1, <2>2 DEF BackgroundInv
<1>5. CASE HeartbeatAges \/ Terminated \/ UNCHANGED vars
  BY <1>2, <1>5 DEF HeartbeatAges, Terminated, vars, engineVars
<1> QED
  BY <1>1, <1>2, <1>3, <1>4, <1>5, CommandBackground DEF Next

\* Of a job that is started in the background at most one engine is ever at work,
\* whatever is resumed, crashes or comes late: the lease is enough there, and only
\* a run in the foreground can have a second one beside it (SKILL.md, "the single
\* owner of every orchestrated job").
THEOREM BackgroundIsExclusive ==
  ASSUME NoForeground
  PROVE  Spec => []OneEngine
<1>1. Init => BackgroundInv
  BY ProcessesAssumption
  DEF NoForeground, Init, BackgroundInv, Engines, Launchers
<1>2. TypeInv /\ BackgroundInv /\ [Next]_vars => BackgroundInv'
  BY StepBackground
<1>3. OneController /\ BackgroundInv => OneEngine
  BY DEF OneController, BackgroundInv, OneEngine, Engines, InStore, Holding, EnginePCs
<1> QED
  BY <1>1, <1>2, <1>3, TypeInvariant, LeaseIsExclusive, PTL DEF Spec

-----------------------------------------------------------------------------
(* JobLifecycle implements JobPromise: the durable state of a job keeps    *)
(* its promise for any number of processes.                                *)

Waiting == status = "waiting_for_speed"

\* Nobody is past the speed gate without a speed policy.
PolicyInv ==
  /\ \A e \in Engines : pc[e] \in InStore => policy
  /\ \A l \in Launchers : cli[l] = "planning" => policy

\* Where an engine may be while its job waits for a speed policy: only the
\* engine of a foreground run is started before the job leaves setup.
EarlyPlaces == {"off", "store", "plan", "failing", "leaving", "exited"}

\* While the job waits for its speed policy there is no plan, no controller,
\* and no command that believes the job to be in any other status.
SetupInv ==
  /\ \A l \in Launchers :
        cli[l] \in {"flag", "look", "stop-ui"} => l \in Clients
  /\ Waiting =>
       /\ ~planned
       /\ \A e \in Engines : pc[e] \in EarlyPlaces
       /\ \A l \in Launchers :
             cli[l] \notin {"spawn", "record", "mark", "enqueue"}
       /\ cli[Starter] # "policy"

\* The inductive invariant of the refinement.
PromiseInv == TypeInv /\ PolicyInv /\ SetupInv

\* The invariant holds initially: a job that starts in setup begins with its
\* page, and nothing has been launched.
LEMMA InitPromise == Init => PromiseInv
<1> SUFFICES ASSUME Init PROVE PromiseInv
  OBVIOUS
<1>1. PolicyInv
  BY StartModesAssumption DEF Init, PolicyInv, InStore
<1>2. \A l \in Launchers : cli[l] \notin {"flag", "look", "stop-ui"}
  BY StartModesAssumption DEF Init
<1>3. ASSUME Waiting
      PROVE  /\ ~planned
             /\ \A e \in Engines : pc[e] \in EarlyPlaces
             /\ \A l \in Launchers :
                   cli[l] \notin {"spawn", "record", "mark", "enqueue"}
             /\ cli[Starter] # "policy"
  BY <1>3, StartModesAssumption, ProcessesAssumption DEF Init, Waiting,
     EarlyPlaces, Launchers
<1> QED BY <1>1, <1>2, <1>3, InitType DEF PromiseInv, SetupInv

\* The steps of the commands keep the invariant.
LEMMA CommandPromise ==
  ASSUME PromiseInv, NEW l \in Launchers, Command(l)
  PROVE  PolicyInv' /\ SetupInv'
<1> USE ProcessesAssumption
    DEF PromiseInv, TypeInv, TypeOK, PolicyInv, SetupInv, Waiting, EarlyPlaces,
        At, Goto, IsClient, jobVars, engineVars, cliVars, Launchers, InStore,
        Engines, TERMINAL_STATES, ACTIVE_STATES, PAUSED_STATES
<1>1. CASE SetSpeedPolicy(l)
  BY <1>1 DEF SetSpeedPolicy, RunInForeground
<1>2. CASE SavePage(l)
  BY <1>2 DEF SavePage, RunInForeground
<1>3. CASE ClosePage(l)
  BY <1>3 DEF ClosePage
<1>4. CASE SetPlanning(l)
  BY <1>4 DEF SetPlanning, MayBecome
<1>5. CASE Spawn(l)
  BY <1>5 DEF Spawn
<1>6. CASE RecordController(l)
  BY <1>6 DEF RecordController
<1>7. CASE LaunchUi(l)
  BY <1>7 DEF LaunchUi
<1>8. CASE RecordUi(l)
  BY <1>8 DEF RecordUi
<1>9. CASE StopUi(l)
  BY <1>9 DEF StopUi
<1>10. CASE SetCancelled(l)
  BY <1>10 DEF SetCancelled, MayBecome
<1>11. CASE ReadStatus(l)
  BY <1>11 DEF ReadStatus
<1>12. CASE MarkInterrupted(l)
  BY <1>12 DEF MarkInterrupted, MayBecome
<1>13. CASE EnqueuePause(l)
  BY <1>13 DEF EnqueuePause
<1>14. CASE EnqueueCancel(l)
  BY <1>14 DEF EnqueueCancel
<1>15. CASE RequestCancel(l)
  BY <1>15 DEF RequestCancel
<1>16. CASE LookAfterCancel(l)
  BY <1>16 DEF LookAfterCancel
<1>17. CASE ReadResume(l)
  BY <1>17 DEF ReadResume
<1>18. CASE EnqueueResume(l)
  BY <1>18 DEF EnqueueResume
<1>19. CASE ReadSpeed(l)
  BY <1>19 DEF ReadSpeed
<1> QED
  BY <1>1, <1>2, <1>3, <1>4, <1>5, <1>6, <1>7, <1>8, <1>9, <1>10, <1>11,
     <1>12, <1>13, <1>14, <1>15, <1>16, <1>17, <1>18, <1>19 DEF Command

\* The steps of the controllers keep the invariant.
LEMMA ControllerPromise ==
  ASSUME PromiseInv, NEW c \in Controllers, ControllerStep(c) \/ Heartbeat(c)
  PROVE  PolicyInv' /\ SetupInv'
<1> USE DEF PromiseInv, TypeInv, TypeOK, PolicyInv, SetupInv, Waiting,
            EarlyPlaces, Move, jobVars, cliVars, InStore, Engines, MayBecome,
            JobUnchangedBut
<1>1. CASE TryLease(c)
  BY <1>1 DEF TryLease
<1>2. CASE TakeJob(c)
  BY <1>2 DEF TakeJob
<1>3. CASE ReadJob(c)
  BY <1>3 DEF ReadJob
<1>4. CASE Wake(c)
  BY <1>4 DEF Wake
<1>5. CASE Heartbeat(c)
  BY <1>5 DEF Heartbeat, engineVars
<1> QED BY <1>1, <1>2, <1>3, <1>4, <1>5 DEF ControllerStep

\* The steps of the engines keep the invariant.
LEMMA EnginePromise ==
  ASSUME PromiseInv, NEW e \in Engines, EngineStep(e) \/ EngineDies(e)
  PROVE  PolicyInv' /\ SetupInv'
<1> USE DEF PromiseInv, TypeInv, TypeOK, PolicyInv, SetupInv, Waiting,
            EarlyPlaces, Move, jobVars, cliVars, InStore, MayBecome,
            EngineSets, JobUnchangedBut
<1>1. CASE EnterStore(e)
  BY <1>1 DEF EnterStore
<1>2. CASE BeginPlan(e)
  BY <1>2 DEF BeginPlan
<1>3. CASE SavePlan(e)
  BY <1>3 DEF SavePlan
<1>4. CASE BeginRun(e)
  BY <1>4 DEF BeginRun
<1>5. CASE AppliesCancel(e)
  BY <1>5 DEF AppliesCancel, Takes
<1>6. CASE AppliesPause(e)
  BY <1>6 DEF AppliesPause, Takes
<1>7. CASE SettlesNeedless(e)
  BY <1>7 DEF SettlesNeedless, Takes
<1>8. CASE AppliesResume(e)
  BY <1>8 DEF AppliesResume, Takes
<1>9. CASE PauseTimesOut(e)
  BY <1>9 DEF PauseTimesOut
<1>10. CASE StartWave(e)
  BY <1>10 DEF StartWave
<1>11. CASE EndWave(e)
  BY <1>11 DEF EndWave
<1>12. CASE BeginReview(e)
  BY <1>12 DEF BeginReview
<1>13. CASE Approve(e)
  BY <1>13 DEF Approve
<1>14. CASE CompleteJob(e)
  BY <1>14 DEF CompleteJob
<1>15. CASE Fails(e)
  BY <1>15 DEF Fails
<1>16. CASE HandleFailure(e)
  BY <1>16 DEF HandleFailure
<1>17. CASE Leave(e)
  BY <1>17 DEF Leave
<1>18. CASE EngineDies(e)
  BY <1>18 DEF EngineDies
<1> QED
  BY <1>1, <1>2, <1>3, <1>4, <1>5, <1>6, <1>7, <1>8, <1>9,
     <1>10, <1>11, <1>12, <1>13, <1>14, <1>15, <1>16, <1>17, <1>18
  DEF EngineStep

\* Every step keeps the invariant.
LEMMA StepPromise == PromiseInv /\ [Next]_vars => PromiseInv'
<1> SUFFICES ASSUME PromiseInv, [Next]_vars PROVE PromiseInv'
  OBVIOUS
<1>1. TypeInv'
  BY StepType DEF PromiseInv
<1>2. ASSUME NEW l \in Launchers, LauncherDies(l) PROVE PolicyInv' /\ SetupInv'
  BY <1>2, ProcessesAssumption DEF LauncherDies, PromiseInv, TypeInv, TypeOK,
     PolicyInv, SetupInv, Waiting, EarlyPlaces, jobVars, engineVars, Goto,
     Launchers
<1>3. ASSUME UNCHANGED <<status, policy, planned, pc, cli>>
      PROVE  PolicyInv' /\ SetupInv'
  BY <1>3 DEF PromiseInv, PolicyInv, SetupInv, Waiting
<1>4. ASSUME HeartbeatAges \/ Terminated \/ UNCHANGED vars
      PROVE  PolicyInv' /\ SetupInv'
  BY <1>3, <1>4 DEF HeartbeatAges, Terminated, vars, jobVars, engineVars,
     cliVars
<1>5. PolicyInv' /\ SetupInv'
  BY <1>2, <1>4, CommandPromise, ControllerPromise, EnginePromise DEF Next
<1> QED BY <1>1, <1>5 DEF PromiseInv

\* The setup phase is safe: see PromiseInv.
THEOREM SetupIsSafe == Spec => []PromiseInv
BY InitPromise, StepPromise, PTL DEF Spec

-----------------------------------------------------------------------------
(* The refinement.                                                         *)

Abstract == <<status, policy>>

\* Each step of a command is a step of the promise, or changes nothing of it.
LEMMA CommandRefines ==
  ASSUME PromiseInv, NEW l \in Launchers, Command(l)
  PROVE  Promise!Next \/ UNCHANGED Abstract
<1> USE DEF Promise!Next, Abstract, jobVars, At, Goto, PromiseInv, TypeInv,
            TypeOK
<1>1. CASE SetSpeedPolicy(l) \/ SavePage(l)
  BY <1>1 DEF SetSpeedPolicy, SavePage, Promise!Configure
<1>2. CASE SetPlanning(l)
  <2>1. policy
    BY <1>2 DEF SetPlanning, PolicyInv
  <2> QED
    BY <1>2, <2>1 DEF SetPlanning, MayBecome, Promise!LeaveSetup, Promise!Move,
       ACTIVE_STATES, PAUSED_STATES, TERMINAL_STATES
<1>3. CASE SetCancelled(l)
  BY <1>3 DEF SetCancelled, MayBecome, Promise!End, TERMINAL_STATES
<1>4. CASE MarkInterrupted(l)
  <2>1. status # "waiting_for_speed"
    BY <1>4 DEF MarkInterrupted, SetupInv, Waiting
  <2> QED
    BY <1>4, <2>1 DEF MarkInterrupted, MayBecome, Promise!Move, ACTIVE_STATES,
       PAUSED_STATES, TERMINAL_STATES
<1>5. CASE UNCHANGED Abstract
  BY <1>5
<1> QED
  BY <1>1, <1>2, <1>3, <1>4, <1>5 DEF Command, ClosePage, Spawn,
     RecordController, LaunchUi, RecordUi, StopUi, ReadStatus, EnqueuePause,
     EnqueueCancel, RequestCancel, LookAfterCancel, ReadResume, EnqueueResume,
     ReadSpeed

\* What an engine writes to the status of an open job keeps the promise.
LEMMA OpenMove ==
  ASSUME PromiseInv, MayBecome(status'), UNCHANGED policy,
         status # "waiting_for_speed",
         status' \in ACTIVE_STATES \cup TERMINAL_STATES,
         status' # "waiting_for_speed",
         policy
  PROVE  Promise!Next \/ UNCHANGED Abstract
BY DEF PromiseInv, TypeInv, TypeOK, MayBecome, Promise!Next, Promise!Move,
   Promise!End, Abstract

\* Each step of an engine is a step of the promise, or changes nothing of it.
LEMMA EngineRefines ==
  ASSUME PromiseInv, NEW e \in Engines, EngineStep(e) \/ EngineDies(e)
  PROVE  Promise!Next \/ UNCHANGED Abstract
<1> USE DEF JobUnchangedBut, Abstract, jobVars
<1>1. CASE UNCHANGED Abstract
  BY <1>1
<1>2. CASE BeginPlan(e)
  <2>1. policy
    BY <1>2 DEF BeginPlan, PromiseInv, PolicyInv, InStore
  <2>2. CASE Waiting
    BY <1>2, <2>1, <2>2 DEF BeginPlan, EngineSets, Waiting, Promise!Next,
       Promise!LeaveSetup
  <2>3. CASE ~Waiting
    BY <1>2, <2>1, <2>3, OpenMove DEF BeginPlan, EngineSets, Waiting,
       ACTIVE_STATES
  <2> QED BY <2>2, <2>3
<1>3. CASE BeginRun(e) \/ PauseTimesOut(e) \/ BeginReview(e) \/ CompleteJob(e)
  <2>1. policy /\ ~Waiting
    BY <1>3 DEF BeginRun, PauseTimesOut, BeginReview, CompleteJob, PromiseInv,
       PolicyInv, SetupInv, InStore, EarlyPlaces
  <2> QED
    BY <1>3, <2>1, OpenMove DEF BeginRun, PauseTimesOut, BeginReview,
       CompleteJob, EngineSets, Waiting, ACTIVE_STATES, PAUSED_STATES,
       TERMINAL_STATES
<1>4. CASE AppliesPause(e) \/ AppliesResume(e)
  <2>1. policy /\ ~Waiting
    BY <1>4 DEF AppliesPause, AppliesResume, Takes, PromiseInv, PolicyInv,
       SetupInv, InStore, EarlyPlaces
  <2> QED
    BY <1>4, <2>1, OpenMove DEF AppliesPause, AppliesResume, Waiting,
       ACTIVE_STATES, PAUSED_STATES
<1>5. CASE HandleFailure(e)
  BY <1>5 DEF HandleFailure, Promise!Next, Promise!End, TERMINAL_STATES
<1> QED
  BY <1>1, <1>2, <1>3, <1>4, <1>5 DEF EngineStep, EngineDies, EnterStore,
     SavePlan, AppliesCancel, SettlesNeedless, StartWave, EndWave, Approve,
     Fails, Leave

\* Each step of a controller is a step of the promise, or changes nothing of
\* it.
LEMMA ControllerRefines ==
  ASSUME PromiseInv, NEW c \in Controllers, ControllerStep(c) \/ Heartbeat(c)
  PROVE  Promise!Next \/ UNCHANGED Abstract
<1>1. CASE Wake(c)
  <2>1. ~Waiting
    BY <1>1 DEF Wake, PromiseInv, SetupInv, EarlyPlaces, Engines
  <2> QED
    BY <1>1, <2>1 DEF Wake, JobUnchangedBut, MayBecome, Waiting, Abstract,
       Promise!Next, Promise!Move, ACTIVE_STATES, PAUSED_STATES,
       TERMINAL_STATES, PromiseInv, TypeInv, TypeOK
<1>2. CASE UNCHANGED Abstract
  BY <1>2
<1> QED
  BY <1>1, <1>2 DEF ControllerStep, TryLease, TakeJob, ReadJob, Heartbeat,
     Abstract, jobVars

\* A job keeps the promise of its durable state: it leaves setup only with a
\* speed policy, no engine works without one, and it ends once, whatever stale
\* reads the processes act on (state.py transition, engine.py run_store).
THEOREM PromiseIsKept == Spec => KeepsPromise
<1>1. Init => Promise!Init
  BY DEF Init, Promise!Init
<1>2. PromiseInv /\ [Next]_vars => [Promise!Next]_(Promise!vars)
  <2> SUFFICES ASSUME PromiseInv, [Next]_vars
               PROVE  Promise!Next \/ UNCHANGED Abstract
    BY DEF Promise!vars, Abstract
  <2>1. CASE UNCHANGED Abstract
    BY <2>1
  <2> QED
    BY <2>1, CommandRefines, ControllerRefines, EngineRefines DEF Next,
       LauncherDies, HeartbeatAges, Terminated, vars, jobVars, Abstract
<1> QED BY <1>1, <1>2, SetupIsSafe, PTL DEF Spec, KeepsPromise, Promise!Spec

\* A job that is over changes its status no more.
TerminalFinal == [][(status \in TERMINAL_STATES) => (status' = status)]_vars

\* A terminal status is final, whatever stale reads the processes act on
\* (state.py JobStore.transition).
THEOREM TerminalIsFinal == Spec => TerminalFinal
<1>1. PromiseInv /\ [Next]_vars
        => [(status \in TERMINAL_STATES) => (status' = status)]_vars
  <2> SUFFICES ASSUME PromiseInv, [Next]_vars, status \in TERMINAL_STATES
               PROVE  status' = status
    OBVIOUS
  <2>1. ASSUME Promise!Next PROVE status' = status
    BY <2>1 DEF Promise!Next, Promise!Configure, Promise!LeaveSetup,
       Promise!Move, Promise!End, TERMINAL_STATES, ACTIVE_STATES, PAUSED_STATES
  <2> QED
    BY <2>1, CommandRefines, ControllerRefines, EngineRefines DEF Next,
       LauncherDies, HeartbeatAges, Terminated, vars, jobVars, Abstract
<1> QED BY <1>1, SetupIsSafe, PTL DEF Spec, TerminalFinal
=============================================================================
