------------------------- MODULE MCControlBoundary -------------------------
(* Instances of ControlBoundary for TLC: which commands are sent.          *)
EXTENDS ControlBoundary, TLC

CONSTANTS c1, c2, c3, c4, c5, c6

Ctl(kind, mode, boundary) ==
  [kind |-> kind, mode |-> mode, boundary |-> boundary]

\* Six commands ...
EveryKind ==
  (c1 :> Ctl("steer", "replace", "immediate")) @@
  (c2 :> Ctl("steer", "add", "safe")) @@
  (c3 :> Ctl("speed-change", "none", "immediate")) @@
  (c4 :> Ctl("pause", "none", "immediate")) @@
  (c5 :> Ctl("resume", "none", "safe")) @@
  (c6 :> Ctl("cancel", "none", "immediate"))

\* ... of which either the first three are sent, in any order, or a pause and its
\* end against a cancellation.
SteerOrCancel == {{c1, c2, c3}, {c4, c5, c6}}

PauseResumeCancel ==
  (c1 :> Ctl("pause", "none", "immediate")) @@
  (c2 :> Ctl("resume", "none", "safe")) @@
  (c3 :> Ctl("cancel", "none", "immediate"))

\* Everything that interrupts a worker, but nothing that ends the job.
PauseSteerSpeed ==
  (c1 :> Ctl("pause", "none", "immediate")) @@
  (c2 :> Ctl("steer", "add", "immediate")) @@
  (c3 :> Ctl("steer", "add", "safe")) @@
  (c4 :> Ctl("speed-change", "none", "immediate")) @@
  (c5 :> Ctl("resume", "none", "safe"))

\* A replacement sent to a job that is being paused.
PauseReplaceResume ==
  (c1 :> Ctl("pause", "none", "immediate")) @@
  (c2 :> Ctl("steer", "replace", "safe")) @@
  (c3 :> Ctl("resume", "none", "safe"))

\* All commands of an instance.
Everyone == {Clients}
=============================================================================
