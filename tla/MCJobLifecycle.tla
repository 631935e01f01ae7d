--------------------------- MODULE MCJobLifecycle ---------------------------
(* Instances of JobLifecycle for TLC: which commands the user runs.        *)
EXTENDS JobLifecycle, TLC

CONSTANTS k1, k2, k3, k4, k5

\* Every command ...
EveryRole ==
  (k1 :> "cancel") @@ (k2 :> "speed") @@ (k3 :> "resume") @@ (k4 :> "status")
  @@ (k5 :> "pause")

\* ... two of them against a job in speed setup that a controller will run, three
\* against any other.
Crowd ==
  [mode \in StartModes |->
     IF mode = "start-setup" THEN {{k1, k2}, {k2, k3}} ELSE {{k3, k4, k5}}]

\* Against a running job.
CancelPauseResume == (k1 :> "cancel") @@ (k2 :> "pause") @@ (k3 :> "resume")

\* Against a job that runs in the foreground.
Resume == k1 :> "resume"

\* The cancellation of a paused job.
CancelPause == (k1 :> "cancel") @@ (k2 :> "pause")

\* Controllers, and setup pages, are interchangeable.
Symmetry == Permutations(Controllers) \cup Permutations(Uis)

\* All commands of an instance.
Everyone == [mode \in StartModes |-> {Clients}]
=============================================================================
