------------------------------ MODULE MCJobWork ------------------------------
(* Instances of JobWork for TLC: the plans a planner may answer with, and   *)
(* what may go wrong with each.                                             *)
EXTENDS JobWork, TLC

CONSTANTS a, b

None == [t \in Tasks |-> {}]

Direct(external) ==
  [mode |-> "direct", lowRisk |-> TRUE, waves |-> <<<<a>>>>, deps |-> None,
   writes |-> {a}, ultra |-> {}, ids |-> "short", reviewed |-> FALSE, external |-> external,
   serialized |-> FALSE]

\* Two tasks in one wave, or b after a.
Orchestrated(waves, deps, writes, external) ==
  [mode |-> "orchestrated", lowRisk |-> FALSE, waves |-> waves, deps |-> deps,
   writes |-> writes, ultra |-> {}, ids |-> "short", reviewed |-> TRUE, external |-> external,
   serialized |-> FALSE]

BAfterA == [None EXCEPT ![b] = {a}]

Parallel(writes) == Orchestrated(<<<<a, b>>>>, None, writes, FALSE)

Chain(writes, external) == Orchestrated(<<<<a>>, <<b>>>>, BAfterA, writes, external)

\* No plan: b is to run beside a, and needs it.
Together == Orchestrated(<<<<a, b>>>>, BAfterA, {a, b}, FALSE)

NativeUltra ==
  [Direct(FALSE) EXCEPT !.mode = "native-ultra", !.ultra = {a}]

Case(raws, dirty, retries, failures, repairs, crashes, interrupts, commits, edits) ==
  [raws |-> raws, authority |-> TRUE, dirty |-> dirty, retries |-> retries,
   failures |-> failures, repairs |-> repairs, crashes |-> crashes,
   interrupts |-> interrupts, commits |-> commits, edits |-> edits,
   tame |-> TRUE]

Misunderstood == {"implementation"}

Stuck == {"coordination"}

\* An external action and an engine killed twice ...
Killed == Case({Direct(TRUE)}, FALSE, 0, Misunderstood, TRUE, 2, 0, 0, 0)

\* ... or once, with an interruption and a user who edits.
Disturbed == Case({Direct(TRUE)}, FALSE, 0, Misunderstood, TRUE, 1, 1, 0, 1)

\* Two waves, with permissions the user has not given.
Forbidden ==
  [Case({Chain({a, b}, TRUE)}, FALSE, 0, Stuck, TRUE, 0, 0, 0, 0)
     EXCEPT !.authority = FALSE]

\* Two worktrees, and a user who commits.
Overtaken == Case({Parallel({a, b})}, FALSE, 0, Stuck, TRUE, 0, 0, 1, 0)

\* One task beside another, in the checkout and in a worktree.
Beside == Case({Parallel({b})}, FALSE, 0, {}, FALSE, 1, 0, 0, 0)

\* A checkout with edits: two waves, and one that must be split, perhaps with an id
\* too long for that.
SharedChain == Case({Chain({a, b}, FALSE), Together}, TRUE, 0, {}, FALSE, 1, 0, 0, 0)
LongId == [Parallel({b}) EXCEPT !.ids = "long"]
SharedPair == Case({Parallel({a, b}), LongId}, TRUE, 0, {}, FALSE, 1, 0, 0, 0)

\* All failures, retried once, and a user who edits.
Retried == Case({NativeUltra}, FALSE, 1, Failures, TRUE, 1, 0, 0, 1)

\* Workers that are not tame, at an action and in a worktree.
Wild ==
  [Case({Direct(TRUE), Direct(FALSE)}, FALSE, 0, {}, TRUE, 1, 1, 0, 0)
     EXCEPT !.tame = FALSE]

AllSettings ==
  {Killed, Disturbed, Forbidden, Overtaken, Beside, SharedChain, SharedPair,
   Retried, Wild}

\* One setting each.
KilledTwice == {Killed}

Disturbance == {Disturbed}

\* Two writers with worktrees, a crash, and a user who edits.
MadeDirty == {Case({Parallel({a, b})}, FALSE, 0, {}, FALSE, 1, 0, 0, 1)}
=============================================================================
