----------------------------- MODULE JobPromise -----------------------------
(***************************************************************************)
(* What a durable job promises to everyone who only looks at it: the user, *)
(* `start` of the next job in the workspace, retention.  Processes come    *)
(* and go, crash and race; of all that the file state.json shows one       *)
(* status and whether the speed policy of the job is fixed.                *)
(***************************************************************************)
CONSTANTS Setup,     \* the status of a job that waits for its speed policy
          Open,      \* the statuses of a job that is neither in setup nor over
          Working,   \* those of Open in which models have been called
          Terminal   \* the statuses of a job that is over

VARIABLES status, policy

vars == <<status, policy>>

Init ==
  /\ status \in {Setup, "planning"}
  /\ policy = FALSE

\* The speed policy of the job is resolved; it is never withdrawn.
Configure ==
  /\ policy' = TRUE
  /\ UNCHANGED status

\* Setup ends: the job is open for planning.
LeaveSetup ==
  /\ status = Setup
  /\ policy
  /\ status' = "planning"
  /\ UNCHANGED policy

\* An open job changes status as it is worked on, paused, resumed, found
\* without a controller, or resumed; but no work without a speed policy.
Move ==
  /\ status \in Open
  /\ status' \in Open
  /\ status' \in Working => policy
  /\ UNCHANGED policy

\* A job ends once.  Only work can complete it.
End ==
  /\ status \notin Terminal
  /\ status' \in Terminal
  /\ status' = "complete" => policy
  /\ UNCHANGED policy

Next == Configure \/ LeaveSetup \/ Move \/ End

Spec == Init /\ [][Next]_vars
=============================================================================
