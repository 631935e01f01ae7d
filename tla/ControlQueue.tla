---------------------------- MODULE ControlQueue ----------------------------
(***************************************************************************)
(* The durable control queue of a job, control.json                        *)
(* (scripts/orchestrator/control.py).                                      *)
(*                                                                         *)
(* The class is a set of functions over one file: every call reads the     *)
(* file, changes it and replaces it while it holds an exclusive file lock, *)
(* so each call is atomic and is given here as an operator on the value of *)
(* the file.  The modules that own the file (ControlBoundary,              *)
(* JobLifecycle) hold that value in a variable; what happens BETWEEN two   *)
(* calls is theirs.                                                        *)
(*                                                                         *)
(* A request is named by its sequence number: request_id is a fresh uuid   *)
(* for every caller in the repository, so both identify the same request.  *)
(* Of the payload only what the queue and the engine look at is kept: the  *)
(* mode of a steering request.                                             *)
(***************************************************************************)
EXTENDS Integers, Sequences

CONTROL_KINDS == {"cancel", "pause", "resume", "steer", "speed-change"}

Modes == {"add", "replace", "none"}

Boundaries == {"safe", "immediate"}

\* The statuses `complete` accepts: a request that has one is decided.
Decisions == {"applied", "rejected", "superseded"}

Priority(kind) ==
  CASE kind = "cancel" -> 0
    [] kind = "pause"  -> 1
    [] kind = "resume" -> 3
    [] OTHER           -> 2

Request ==
  [seq : Nat, kind : CONTROL_KINDS, mode : Modes,
   boundary : Boundaries, status : {"pending"} \cup Decisions]

\* control.json as JobStore.create writes it.
EmptyQueue == [next_seq |-> 1, requests |-> << >>]

-----------------------------------------------------------------------------
IsPending(r) == r.status = "pending"

IsReplace(r) == r.kind = "steer" /\ r.mode = "replace"

\* Mutant: a replacement forgets the steering requests waiting before it.
KeepOlder(r) == r

\* What a new replacement steer does to an older request.
Supersede(r) ==
  IF r.kind = "steer" /\ IsPending(r)
  THEN [r EXCEPT !.status = "superseded"]
  ELSE r

\* ControlQueue.enqueue, for a command c = [kind, mode, boundary].
Enqueue(q, c) ==
  LET request == [seq |-> q.next_seq, kind |-> c.kind, mode |-> c.mode,
                  boundary |-> c.boundary, status |-> "pending"]
      older   == IF IsReplace(request)
                 THEN [i \in 1..Len(q.requests) |-> Supersede(q.requests[i])]
                 ELSE q.requests
  IN  [next_seq |-> q.next_seq + 1, requests |-> Append(older, request)]

\* ControlQueue.pending, as the set of sequence numbers of the requests.
Pending(q) == {i \in 1..Len(q.requests) : IsPending(q.requests[i])}

\* Mutant: of one priority the newest request comes first.
NewestFirst(q, i, j) ==
  LET pi == Priority(q.requests[i].kind)
      pj == Priority(q.requests[j].kind)
  IN  pi < pj \/ (pi = pj /\ i > j)

\* The order of ControlQueue.pending: by priority, then by arrival.
Before(q, i, j) ==
  LET pi == Priority(q.requests[i].kind)
      pj == Priority(q.requests[j].kind)
  IN  pi < pj \/ (pi = pj /\ i < j)

\* pending()[0]: the request the engine looks at next.
First(q) ==
  CHOOSE i \in Pending(q) : \A j \in Pending(q) \ {i} : Before(q, i, j)

\* ControlQueue.complete.  The present status of the request is not looked at.
Complete(q, seq, status) ==
  [q EXCEPT !.requests[seq].status = status]

-----------------------------------------------------------------------------
(* The state of the file that every caller may rely on.                    *)

QueueTypeOK(q) == q \in [next_seq : Nat \ {0}, requests : Seq(Request)]

\* Sequence numbers are handed out once, in order, and next_seq is ahead of
\* all of them.
SeqsDense(q) ==
  /\ q.next_seq = Len(q.requests) + 1
  /\ \A i \in 1..Len(q.requests) : q.requests[i].seq = i

\* A replacement steer leaves no older steering request waiting.
ReplaceCutsOff(q) ==
  \A i, j \in 1..Len(q.requests) :
     /\ i < j
     /\ IsReplace(q.requests[j])
     /\ q.requests[i].kind = "steer"
     => ~IsPending(q.requests[i])

QueueInv(q) == QueueTypeOK(q) /\ SeqsDense(q) /\ ReplaceCutsOff(q)
=============================================================================
