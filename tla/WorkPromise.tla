----------------------------- MODULE WorkPromise -----------------------------
(***************************************************************************)
(* What a job promises about its work to whoever reads only its results    *)
(* and the checkout: a task is accepted when everything it depends on has  *)
(* been, the checkout changes only when all of it is accepted, a job is    *)
(* complete only with all of it, and once it is over nothing changes.  Of  *)
(* attempts, sessions, workers, worktrees, crashes and restarts it knows   *)
(* nothing.                                                                *)
(***************************************************************************)
CONSTANT Tasks

VARIABLES
  planned,   \* the tasks of the plan; empty until there is one
  needs,     \* what each of them depends on
  accepted,  \* the tasks with a success
  landed,    \* is work of the job in the checkout
  job        \* "open", "complete", "blocked"

vars == <<planned, needs, accepted, landed, job>>

Init ==
  /\ planned = {}
  /\ needs = [t \in Tasks |-> {}]
  /\ accepted = {}
  /\ landed = FALSE
  /\ job = "open"

\* The plan is made once.
MakePlan ==
  /\ job = "open"
  /\ planned = {}
  /\ planned' \in SUBSET Tasks
  /\ needs' \in [Tasks -> SUBSET Tasks]
  /\ UNCHANGED <<accepted, landed, job>>

Accept(t) ==
  /\ job = "open"
  /\ t \in planned
  /\ needs[t] \subseteq accepted
  /\ accepted' = accepted \cup {t}
  /\ UNCHANGED <<planned, needs, landed, job>>

\* A repair fails.
Withdraw(t) ==
  /\ job = "open"
  /\ accepted' = accepted \ {t}
  /\ UNCHANGED <<planned, needs, landed, job>>

Land ==
  /\ job = "open"
  /\ planned \subseteq accepted
  /\ landed' = TRUE
  /\ UNCHANGED <<planned, needs, accepted, job>>

End ==
  /\ job = "open"
  /\ job' \in {"complete", "blocked"}
  /\ job' = "complete" => planned \subseteq accepted
  /\ UNCHANGED <<planned, needs, accepted, landed>>

Next ==
  \/ MakePlan
  \/ Land
  \/ End
  \/ \E t \in Tasks : Accept(t) \/ Withdraw(t)

Spec == Init /\ [][Next]_vars
=============================================================================
