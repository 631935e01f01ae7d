------------------------- MODULE ControlQueueProofs -------------------------
(* What the operations of the control queue keep and promise, for a queue  *)
(* of any length.                                                          *)
EXTENDS ControlQueue, SequenceTheorems, WellFoundedInduction, TLAPS

Commands == [kind : CONTROL_KINDS, mode : Modes, boundary : Boundaries]

\* control.json as it is created.
LEMMA EmptyQueueInv == QueueInv(EmptyQueue)
BY EmptySeq DEF QueueInv, QueueTypeOK, SeqsDense, ReplaceCutsOff, EmptyQueue

\* The requests of a queue, as a function on 1..n.
LEMMA RequestsAreFunction ==
  ASSUME NEW q, QueueTypeOK(q)
  PROVE  /\ q = [next_seq |-> q.next_seq, requests |-> q.requests]
         /\ Len(q.requests) \in Nat
         /\ q.requests \in [1..Len(q.requests) -> Request]
         /\ DOMAIN q.requests = 1..Len(q.requests)
BY LenProperties DEF QueueTypeOK

\* A function on 1..n is a sequence of length n.
LEMMA FunctionIsSeq ==
  ASSUME NEW n \in Nat, NEW S, NEW f \in [1..n -> S]
  PROVE  f \in Seq(S) /\ Len(f) = n
OBVIOUS

\* The result of superseding is a request, and only its status may differ.
LEMMA SupersedeRequest ==
  ASSUME NEW r \in Request
  PROVE  /\ Supersede(r) \in Request
         /\ Supersede(r).seq = r.seq
         /\ Supersede(r).kind = r.kind
         /\ Supersede(r).mode = r.mode
         /\ Supersede(r).boundary = r.boundary
         /\ IsPending(Supersede(r)) => IsPending(r)
         /\ r.kind = "steer" => ~IsPending(Supersede(r))
         /\ r.kind # "steer" => Supersede(r).status = r.status
         /\ Supersede(r).status = "applied" <=> r.status = "applied"
BY DEF Supersede, Request, IsPending, Decisions

\* ControlQueue.enqueue adds a pending request, whatever the state of the queue,
\* and leaves the older ones what they are, but for superseding
\* (control.py enqueue).
LEMMA EnqueueInv ==
  ASSUME NEW q, QueueInv(q), NEW c \in Commands
  PROVE  /\ QueueInv(Enqueue(q, c))
         /\ Len(Enqueue(q, c).requests) = Len(q.requests) + 1
         /\ Enqueue(q, c).requests[Len(q.requests) + 1].status = "pending"
         /\ Enqueue(q, c).requests[Len(q.requests) + 1].kind = c.kind
         /\ \A i \in 1..Len(q.requests) :
              LET new == Enqueue(q, c).requests[i] IN
              /\ new.kind = q.requests[i].kind
              /\ new.mode = q.requests[i].mode
              /\ IsPending(new) => IsPending(q.requests[i])
              /\ new.kind # "steer" => new.status = q.requests[i].status
              /\ new.status = "applied" <=> q.requests[i].status = "applied"
<1> DEFINE request == [seq |-> q.next_seq, kind |-> c.kind, mode |-> c.mode,
                       boundary |-> c.boundary, status |-> "pending"]
           n == Len(q.requests)
           older == IF IsReplace(request)
                    THEN [i \in 1..n |-> Supersede(q.requests[i])]
                    ELSE q.requests
           e == Enqueue(q, c)
<1>0. QueueTypeOK(q) /\ SeqsDense(q) /\ ReplaceCutsOff(q)
  BY DEF QueueInv
<1>1. /\ n \in Nat
      /\ q.next_seq \in Nat \ {0}
      /\ q.requests \in [1..n -> Request]
  BY <1>0, RequestsAreFunction DEF QueueTypeOK
<1>2. request \in Request
  BY <1>1 DEF Request, Commands
<1>3. older \in [1..n -> Request]
  <2>1. \A i \in 1..n : Supersede(q.requests[i]) \in Request
    BY <1>1, SupersedeRequest
  <2> QED BY <2>1, <1>1
<1>4. older \in Seq(Request) /\ Len(older) = n
  BY <1>1, <1>3, FunctionIsSeq
<1> HIDE DEF older
<1>5. e = [next_seq |-> q.next_seq + 1, requests |-> Append(older, request)]
  BY DEF Enqueue, older
<1> HIDE DEF request
<1>6. /\ e.requests = Append(older, request)
      /\ e.next_seq = q.next_seq + 1
      /\ e.requests \in Seq(Request)
      /\ Len(e.requests) = n + 1
      /\ e.requests[n + 1] = request
      /\ \A i \in 1..n : e.requests[i] = older[i]
  BY <1>2, <1>4, <1>5, <1>1
<1>7. QueueTypeOK(e)
  BY <1>1, <1>5, <1>6 DEF QueueTypeOK
<1>8. \A i \in 1..n : /\ older[i].seq = q.requests[i].seq
                      /\ older[i].kind = q.requests[i].kind
                      /\ older[i].mode = q.requests[i].mode
                      /\ IsPending(older[i]) => IsPending(q.requests[i])
                      /\ older[i].kind # "steer" =>
                           older[i].status = q.requests[i].status
                      /\ older[i].status = "applied"
                           <=> q.requests[i].status = "applied"
  BY <1>1, SupersedeRequest DEF older
<1>9. SeqsDense(e)
  <2>1. q.next_seq = n + 1 /\ \A i \in 1..n : q.requests[i].seq = i
    BY <1>0 DEF SeqsDense
  <2>2. request.seq = n + 1
    BY <2>1 DEF request
  <2>3. \A i \in 1..n + 1 : e.requests[i].seq = i
    BY <2>1, <2>2, <1>1, <1>6, <1>8
  <2> QED BY <2>1, <2>3, <1>6 DEF SeqsDense
<1>10. ReplaceCutsOff(e)
  <2> SUFFICES ASSUME NEW i \in 1..n + 1, NEW j \in 1..n + 1,
                      i < j, IsReplace(e.requests[j]),
                      e.requests[i].kind = "steer"
               PROVE  ~IsPending(e.requests[i])
    BY <1>6 DEF ReplaceCutsOff
  <2>1. i \in 1..n /\ e.requests[i] = older[i]
    BY <1>1, <1>6
  <2>2. CASE j \in 1..n
    <3>1. IsReplace(q.requests[j]) /\ q.requests[i].kind = "steer"
      BY <2>1, <2>2, <1>6, <1>8 DEF IsReplace
    <3>2. ~IsPending(q.requests[i])
      BY <3>1, <2>1, <2>2, <1>0 DEF ReplaceCutsOff
    <3> QED BY <3>2, <2>1, <1>8
  <2>3. CASE j = n + 1
    <3>1. IsReplace(request)
      BY <2>3, <1>6
    <3>2. older[i] = Supersede(q.requests[i])
      BY <3>1, <2>1 DEF older
    <3>3. q.requests[i].kind = "steer" /\ q.requests[i] \in Request
      BY <2>1, <1>1, <1>8
    <3> QED BY <3>2, <3>3, <2>1, SupersedeRequest
  <2> QED BY <1>1, <2>2, <2>3
<1>11. request.status = "pending" /\ request.kind = c.kind
  BY DEF request
<1> QED BY <1>6, <1>7, <1>8, <1>9, <1>10, <1>11 DEF QueueInv

\* Completing a request, also one that was decided meanwhile (control.py
\* complete).
LEMMA CompleteInv ==
  ASSUME NEW q, QueueInv(q), NEW k \in 1..Len(q.requests), NEW d \in Decisions
  PROVE  /\ QueueInv(Complete(q, k, d))
         /\ Len(Complete(q, k, d).requests) = Len(q.requests)
         /\ \A i \in 1..Len(q.requests) :
              LET new == Complete(q, k, d).requests[i] IN
              /\ new.kind = q.requests[i].kind
              /\ new.mode = q.requests[i].mode
              /\ new.status = IF i = k THEN d ELSE q.requests[i].status
<1> DEFINE n == Len(q.requests)
           f == Complete(q, k, d)
           decided == [q.requests[k] EXCEPT !.status = d]
<1>0. QueueTypeOK(q) /\ SeqsDense(q) /\ ReplaceCutsOff(q)
  BY DEF QueueInv
<1>1. /\ n \in Nat
      /\ q.next_seq \in Nat \ {0}
      /\ q.requests \in [1..n -> Request]
      /\ q = [next_seq |-> q.next_seq, requests |-> q.requests]
  BY <1>0, RequestsAreFunction DEF QueueTypeOK
<1>2. /\ decided \in Request
      /\ decided.seq = q.requests[k].seq
      /\ decided.kind = q.requests[k].kind
      /\ decided.mode = q.requests[k].mode
      /\ decided.status = d
      /\ ~IsPending(decided)
  <2>1. q.requests[k] \in Request
    BY <1>1
  <2> QED BY <2>1 DEF Request, IsPending, Decisions
<1> HIDE DEF decided
<1>3. f = [next_seq |-> q.next_seq,
           requests |-> [q.requests EXCEPT ![k] = decided]]
  <2>1. f = [q EXCEPT !.requests = [q.requests EXCEPT ![k] = decided]]
    BY DEF Complete, decided
  <2> QED BY <1>1, <2>1
<1>4. /\ f.requests \in [1..n -> Request]
      /\ f.next_seq = q.next_seq
      /\ \A i \in 1..n : f.requests[i] =
            IF i = k THEN decided ELSE q.requests[i]
  BY <1>1, <1>2, <1>3
<1>5. f.requests \in Seq(Request) /\ Len(f.requests) = n
  BY <1>1, <1>4, FunctionIsSeq
<1>6. QueueTypeOK(f)
  BY <1>1, <1>3, <1>5 DEF QueueTypeOK
<1>7. SeqsDense(f)
  BY <1>0, <1>2, <1>4, <1>5 DEF SeqsDense
<1>8. ReplaceCutsOff(f)
  <2> SUFFICES ASSUME NEW i \in 1..n, NEW j \in 1..n,
                      i < j, IsReplace(f.requests[j]),
                      f.requests[i].kind = "steer"
               PROVE  ~IsPending(f.requests[i])
    BY <1>5 DEF ReplaceCutsOff
  <2>1. IsReplace(q.requests[j]) /\ q.requests[i].kind = "steer"
    BY <1>2, <1>4 DEF IsReplace
  <2>2. ~IsPending(q.requests[i])
    BY <2>1, <1>0 DEF ReplaceCutsOff
  <2> QED BY <2>2, <1>2, <1>4
<1> QED BY <1>2, <1>4, <1>5, <1>6, <1>7, <1>8 DEF QueueInv

\* A set of numbers that is not empty has a least one.
LEMMA LeastOf ==
  ASSUME NEW T, T \subseteq Nat, T # {}
  PROVE  \E m \in T : \A n \in T : m <= n
<1>1. PICK m \in T : \A n \in T : ~(<<n, m>> \in OpToRel(<, Nat))
  BY WFMin, NatLessThanWellFounded
<1>2. \A n \in T : ~(n < m)
  BY <1>1 DEF OpToRel
<1> QED BY <1>2

\* pending()[0] is defined whenever something is pending, and it is a pending
\* request that no other one precedes (control.py pending).
LEMMA FirstPending ==
  ASSUME NEW q, QueueTypeOK(q), Pending(q) # {}
  PROVE  /\ First(q) \in Pending(q)
         /\ First(q) \in 1..Len(q.requests)
         /\ \A j \in Pending(q) \ {First(q)} : Before(q, First(q), j)
<1> DEFINE P == Pending(q)
           prio(i) == Priority(q.requests[i].kind)
<1>1. P \subseteq Nat \ {0} /\ P \subseteq 1..Len(q.requests)
  BY RequestsAreFunction DEF Pending
<1>2. \A i \in P : prio(i) \in Nat
  BY DEF Priority
<1>3. PICK p \in {prio(i) : i \in P} : \A r \in {prio(i) : i \in P} : p <= r
  BY <1>2, LeastOf
<1>4. PICK m \in {i \in P : prio(i) = p} :
         \A n \in {i \in P : prio(i) = p} : m <= n
  <2>1. {i \in P : prio(i) = p} # {}
    BY <1>3
  <2> QED BY <2>1, <1>1, LeastOf
<1>5. \A j \in P \ {m} : Before(q, m, j)
  <2> SUFFICES ASSUME NEW j \in P \ {m} PROVE Before(q, m, j)
    OBVIOUS
  <2>1. m \in P /\ prio(m) = p /\ p <= prio(j)
    BY <1>3, <1>4
  <2>2. prio(j) = p => m <= j
    BY <1>4
  <2>3. m \in Nat /\ j \in Nat /\ m # j /\ prio(m) \in Nat /\ prio(j) \in Nat
    BY <1>1, <1>2, <2>1
  <2> HIDE DEF prio, P
  <2>4. prio(m) < prio(j) \/ (prio(m) = prio(j) /\ m < j)
    BY <2>1, <2>2, <2>3
  <2> QED BY <2>4 DEF Before, prio
<1>6. \E i \in P : \A j \in P \ {i} : Before(q, i, j)
  BY <1>4, <1>5
<1> QED BY <1>6, <1>1 DEF First
=============================================================================
