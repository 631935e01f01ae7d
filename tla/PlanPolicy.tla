----------------------------- MODULE PlanPolicy -----------------------------
(***************************************************************************)
(* What a plan must be before it is executed                               *)
(* (scripts/orchestrator/schemas.py, validate_plan and                     *)
(* apply_authority_ceiling; engine.py, _apply_workspace_policy).           *)
(*                                                                         *)
(* A plan names its tasks in waves.  Of a task only what decides when and  *)
(* where it may run is kept: its dependencies, whether it writes, whether  *)
(* it asks for Ultra.  Of the ids of its waves it is kept whether they are *)
(* short enough.  Other names, texts, models and the shape of the JSON are *)
(* left out.  The three permissions for the world outside of the workspace *)
(* (push, deploy, external_write) are one: the engine only asks for any.   *)
(***************************************************************************)
EXTENDS Naturals, SequencesExt

CONSTANTS
  Tasks,      \* the task ids a plan may use
  MaxWorkers  \* policy.max_workers

ASSUME MaxWorkersAssumption == MaxWorkers \in Nat \ {0}

Modes == {"direct", "orchestrated", "native-ultra"}

\* The ids of the waves: all are valid (64 characters at most), and to those of
\* waves with readers "-reads" can be added; or not to one of these; or one is
\* too long already.
Ids == {"short", "long", "invalid"}

Plan == [mode : Modes, lowRisk : BOOLEAN, waves : Seq(Seq(Tasks)),
         deps : [Tasks -> SUBSET Tasks], writes : SUBSET Tasks,
         ultra : SUBSET Tasks, ids : Ids, reviewed : BOOLEAN,
         external : BOOLEAN, serialized : BOOLEAN]

\* An answer of the planner: only the workspace policy splits waves.
RawPlan == {p \in Plan : ~p.serialized}

TasksIn(waves) == {t \in Tasks : \E i \in DOMAIN waves : t \in ToSet(waves[i])}

TasksOf(p) == TasksIn(p.waves)

UltraTasks(p) == TasksOf(p) \cap p.ultra

\* prior_tasks, while wave i is looked at.
PriorTasks(waves, i) == TasksIn(SubSeq(waves, 1, i - 1))

ValidWaves(p) ==
  /\ p.waves # << >>
  /\ p.ids # "invalid"
  /\ IsInjective(FlattenSeq(p.waves))
  /\ \A i \in DOMAIN p.waves :
       /\ Len(p.waves[i]) \in 1..MaxWorkers
       /\ \A t \in ToSet(p.waves[i]) : p.deps[t] \subseteq PriorTasks(p.waves, i)

ValidMode(p) ==
  LET all == Len(FlattenSeq(p.waves)) IN
  CASE p.mode = "direct"       -> all = 1 /\ UltraTasks(p) = {}
    [] p.mode = "orchestrated" -> all >= 2 /\ UltraTasks(p) = {}
    [] p.mode = "native-ultra" -> all = 1 /\ UltraTasks(p) # {}

\* validate_plan raises no error.
ValidPlan(p) == ValidWaves(p) /\ ValidMode(p)

\* What validate_plan returns: only a direct plan of low risk may do without a
\* final review.
Validated(p) ==
  [p EXCEPT !.reviewed = @ \/ p.mode # "direct" \/ ~p.lowRisk]

\* apply_authority_ceiling: no more than the user's own words allow.
UnderCeiling(p, authority) == [p EXCEPT !.external = @ /\ authority]

\* The tasks of a wave that are in a set, in the order of the wave.
Among(w, S) ==
  FlattenSeq([i \in DOMAIN w |-> IF w[i] \in S THEN <<w[i]>> ELSE << >>])

\* The waves a wave is split into: its readers, then its writers one by one.
SerialWaves(p, w) ==
  LET reads  == Among(w, Tasks \ p.writes)
      writes == Among(w, p.writes)
  IN  (IF reads = << >> THEN << >> ELSE <<reads>>)
      \o [i \in DOMAIN writes |-> <<writes[i]>>]

NoWriter(p) == TasksOf(p) \cap p.writes = {}

\* Mutant: the waves of a shared workspace stay as they are.
UnchangedPlan(p, shared) ==
  IF ~shared \/ NoWriter(p) THEN p ELSE [p EXCEPT !.serialized = TRUE]

\* _apply_workspace_policy, where shared says that writers get no worktrees of
\* their own: the workspace is dirty, or no Git repository.  The readers of a wave
\* get its id with "-reads".  What is split must be valid again.  (That the plan
\* was serialized is noted in its rationale.)
ForWorkspace(p, shared) ==
  IF ~shared \/ NoWriter(p) THEN p
  ELSE [p EXCEPT !.serialized = TRUE,
                 !.ids = IF @ = "long" THEN "invalid" ELSE @,
                 !.waves =
          FlattenSeq([i \in DOMAIN p.waves |-> SerialWaves(p, p.waves[i])])]
=============================================================================
