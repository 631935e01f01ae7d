-------------------------- MODULE PlanPolicyProofs --------------------------
(***************************************************************************)
(* What the policy for a shared workspace does to a plan, whatever the     *)
(* plan: it stays valid unless an id grows too long, keeps its tasks, and  *)
(* has no two writers left in one wave (_apply_workspace_policy).  It      *)
(* rests on what FlattenSeq is, for sequences of any length.               *)
(***************************************************************************)
EXTENDS PlanPolicy, SequenceTheorems, WellFoundedInduction, TLAPS

-----------------------------------------------------------------------------
(* Induction on the indices of a sequence.                                 *)

\* A set of numbers has a least one.
LEMMA LeastIndex ==
  ASSUME NEW T, T \subseteq Nat, T # {}
  PROVE  \E m \in T : \A n \in T : m <= n
<1>1. PICK m \in T : \A n \in T : ~(<<n, m>> \in OpToRel(<, Nat))
  BY WFMin, NatLessThanWellFounded
<1>2. \A n \in T : ~(n < m)
  BY <1>1 DEF OpToRel
<1> QED
  BY <1>2

\* What holds of the first index, and of the next one with each, holds of all.
LEMMA EveryIndex ==
  ASSUME NEW n \in Nat, NEW S,
         n > 0 => 1 \in S,
         \A k \in 1..n : k < n /\ k \in S => k + 1 \in S
  PROVE  \A k \in 1..n : k \in S
<1> DEFINE T == {k \in 1..n : k \notin S}
<1>1. SUFFICES ASSUME T # {} PROVE FALSE
  OBVIOUS
<1>2. T \subseteq Nat
  OBVIOUS
<1>3. PICK m \in T : \A k \in T : m <= k
  BY <1>1, <1>2, LeastIndex
<1>4. m \in 1..n /\ m \notin S /\ m # 1
  BY <1>3
<1>5. m - 1 \in 1..n /\ m - 1 < n /\ (m - 1) + 1 = m
  BY <1>4
<1>6. m - 1 \in S
  BY <1>3, <1>5
<1> QED
  BY <1>4, <1>5, <1>6

-----------------------------------------------------------------------------
(* FlattenSeq.                                                             *)

\* A stage of it, by the stage before and the part that is appended.
Joined(stage, part) == stage \o part

\* Its stages up to the k-th part of s: each is the one before it with the next
\* part appended.
Stages(s, k, f) ==
  \A i \in 1..k : f[i] = IF i = 1 THEN s[i] ELSE Joined(f[i - 1], s[i])

\* A part appended to a stage.
LEMMA JoinedParts ==
  ASSUME NEW X
  PROVE  \A a, b \in Seq(X) :
           /\ Joined(a, b) \in Seq(X)
           /\ Len(Joined(a, b)) = Len(a) + Len(b)
           /\ \A i \in 1..Len(a) : Joined(a, b)[i] = a[i]
           /\ \A i \in 1..Len(b) : Joined(a, b)[Len(a) + i] = b[i]
<1> SUFFICES ASSUME NEW a \in Seq(X), NEW b \in Seq(X)
             PROVE  /\ Joined(a, b) \in Seq(X)
                    /\ Len(Joined(a, b)) = Len(a) + Len(b)
                    /\ \A i \in 1..Len(a) : Joined(a, b)[i] = a[i]
                    /\ \A i \in 1..Len(b) : Joined(a, b)[Len(a) + i] = b[i]
  OBVIOUS
<1>1. Len(a) \in Nat /\ Len(b) \in Nat
  BY LenProperties
<1>2. \A i \in 1..Len(a) + Len(b) :
        (a \o b)[i] = IF i <= Len(a) THEN a[i] ELSE b[i - Len(a)]
  BY ConcatProperties
<1>3. ASSUME NEW i \in 1..Len(b) PROVE (a \o b)[Len(a) + i] = b[i]
  <2>1. Len(a) + i \in 1..Len(a) + Len(b) /\ ~(Len(a) + i <= Len(a))
        /\ (Len(a) + i) - Len(a) = i
    BY <1>1
  <2> QED
    BY <1>2, <2>1
<1> QED
  BY <1>1, <1>2, <1>3, ConcatProperties DEF Joined

\* There are such stages.
LEMMA StagesExist ==
  ASSUME NEW X, NEW n \in Nat, NEW s, \A i \in 1..n : s[i] \in Seq(X)
  PROVE  \E f \in [1..n -> Seq(X)] : Stages(s, n, f)
<1> DEFINE S == {k \in 1..n : \E f \in [1..k -> Seq(X)] : Stages(s, k, f)}
<1>1. ASSUME n > 0 PROVE 1 \in S
  <2> DEFINE f == [i \in 1..1 |-> s[1]]
  <2>1. f \in [1..1 -> Seq(X)] /\ f[1] = s[1]
    BY <1>1
  <2> HIDE DEF f
  <2> QED
    BY <1>1, <2>1 DEF Stages
<1>2. ASSUME NEW k \in 1..n, k < n, k \in S PROVE k + 1 \in S
  <2>1. PICK f \in [1..k -> Seq(X)] : Stages(s, k, f)
    BY <1>2
  <2> DEFINE g == [i \in 1..k + 1 |-> IF i = k + 1 THEN Joined(f[k], s[k + 1]) ELSE f[i]]
  <2>2. k + 1 \in 1..n /\ k \in 1..k
    BY <1>2
  <2>3. f[k] \in Seq(X) /\ s[k + 1] \in Seq(X)
    BY <2>2
  <2>4. Joined(f[k], s[k + 1]) \in Seq(X)
    BY <2>3, JoinedParts
  <2>5. g \in [1..k + 1 -> Seq(X)]
    BY <2>4
  <2>6. \A i \in 1..k : g[i] = f[i]
    OBVIOUS
  <2>7. g[k + 1] = Joined(f[k], s[k + 1])
    OBVIOUS
  <2> HIDE DEF g
  <2>8. ASSUME NEW i \in 1..k + 1
        PROVE  g[i] = IF i = 1 THEN s[i] ELSE Joined(g[i - 1], s[i])
    <3>1. CASE i = k + 1
      <4>1. i # 1 /\ i - 1 = k
        BY <3>1
      <4> QED
        BY <2>2, <2>6, <2>7, <3>1, <4>1
    <3>2. CASE i = 1
      BY <2>1, <2>6, <3>2 DEF Stages
    <3>3. CASE i # k + 1 /\ i # 1
      <4>1. i \in 1..k /\ i - 1 \in 1..k
        BY <3>3
      <4> QED
        BY <2>1, <2>6, <3>3, <4>1 DEF Stages
    <3> QED
      BY <3>1, <3>2, <3>3
  <2>9. Stages(s, k + 1, g)
    BY <2>8 DEF Stages
  <2> QED
    BY <2>2, <2>5, <2>9
<1>3. \A k \in 1..n : k \in S
  <2> HIDE DEF S
  <2> QED
    BY <1>1, <1>2, EveryIndex
<1>4. CASE n = 0
  <2>1. [i \in 1..n |-> s] \in [1..n -> Seq(X)]
    BY <1>4
  <2>2. \A f : Stages(s, n, f)
    BY <1>4 DEF Stages
  <2> QED
    BY <2>1, <2>2
<1>5. CASE n > 0
  BY <1>3, <1>5
<1> QED
  BY <1>4, <1>5

\* The parts of a sequence of sequences.
LEMMA PartsType ==
  ASSUME NEW X, NEW s \in Seq(Seq(X))
  PROVE  /\ Len(s) \in Nat /\ DOMAIN s = 1..Len(s)
         /\ \A i \in 1..Len(s) : s[i] \in Seq(X)
         /\ s # << >> <=> Len(s) > 0
<1>1. Len(s) \in Nat /\ DOMAIN s = 1..Len(s)
  BY LenProperties
<1>2. \A i \in 1..Len(s) : s[i] \in Seq(X)
  BY ElementOfSeq
<1>3. s # << >> <=> Len(s) > 0
  BY EmptySeq
<1> QED
  BY <1>1, <1>2, <1>3

\* FlattenSeq returns the last stage.
LEMMA FlattenStages ==
  ASSUME NEW X, NEW s \in Seq(Seq(X)), s # << >>
  PROVE  \E f \in [1..Len(s) -> Seq(X)] :
           Stages(s, Len(s), f) /\ FlattenSeq(s) = f[Len(s)]
<1> DEFINE n == Len(s)
<1>1. n \in Nat /\ n > 0 /\ \A i \in 1..n : s[i] \in Seq(X)
  BY PartsType
<1> DEFINE flatten[i \in 1..n] == IF i = 1 THEN s[i] ELSE flatten[i - 1] \o s[i]
<1>2. PICK f \in [1..n -> Seq(X)] : Stages(s, n, f)
  <2> HIDE DEF n
  <2> QED
    BY <1>1, StagesExist
<1>3. FlattenSeq(s) = flatten[n]
  <2>1. Len(s) # 0
    BY <1>1
  <2> QED
    BY <2>1, Zenon DEF FlattenSeq
<1>4. f = [i \in 1..n |-> IF i = 1 THEN s[i] ELSE f[i - 1] \o s[i]]
  <2> HIDE DEF n
  <2>1. \A i \in 1..n : f[i] = IF i = 1 THEN s[i] ELSE f[i - 1] \o s[i]
    BY <1>2 DEF Stages, Joined
  <2>2. f = [i \in 1..n |-> f[i]]
    OBVIOUS
  <2> QED
    BY <2>1, <2>2, Zenon
<1>5. flatten = [i \in 1..n |-> IF i = 1 THEN s[i] ELSE flatten[i - 1] \o s[i]]
  <2> HIDE DEF n
  <2>1. \E g : g = [i \in 1..n |-> IF i = 1 THEN s[i] ELSE g[i - 1] \o s[i]]
    BY <1>4, Zenon
  <2> QED
    BY <2>1, Zenon
<1> HIDE DEF flatten, n
<1>6. \A k \in 1..n : flatten[k] = IF k = 1 THEN s[k] ELSE Joined(flatten[k - 1], s[k])
  BY <1>5, Zenon DEF Joined
<1> DEFINE S == {k \in 1..n : flatten[k] = f[k]}
<1>7. n > 0 => 1 \in S
  <2>1. 1 \in 1..n
    BY <1>1
  <2>2. flatten[1] = s[1] /\ f[1] = s[1]
    BY <1>2, <1>6, <2>1, Zenon DEF Stages
  <2> QED
    BY <2>1, <2>2
<1>8. ASSUME NEW k \in 1..n, k < n, k \in S PROVE k + 1 \in S
  <2>1. k + 1 \in 1..n /\ k + 1 # 1 /\ (k + 1) - 1 = k
    BY <1>1, <1>8
  <2> QED
    BY <1>2, <1>6, <1>8, <2>1 DEF Stages
<1>9. \A k \in 1..n : k \in S
  <2> HIDE DEF S
  <2> QED
    BY <1>1, <1>7, <1>8, EveryIndex
<1>10. FlattenSeq(s) = f[n]
  BY <1>1, <1>3, <1>9
<1> QED
  BY <1>2, <1>10 DEF n

\* Where the parts lie in F: part k right after off[k - 1], and nothing else.
Offsets(s, F, off) ==
  /\ off \in [0..Len(s) -> Nat]
  /\ off[0] = 0
  /\ \A k \in 1..Len(s) : off[k] = off[k - 1] + Len(s[k])
  /\ Len(F) = off[Len(s)]
  /\ \A k \in 1..Len(s) : \A i \in 1..Len(s[k]) : F[off[k - 1] + i] = s[k][i]

\* A stage begins with the stages before it.
LEMMA StagesGrow ==
  ASSUME NEW X, NEW n \in Nat, NEW s, \A i \in 1..n : s[i] \in Seq(X),
         NEW f \in [1..n -> Seq(X)], Stages(s, n, f), NEW k \in 1..n
  PROVE  \A l \in k..n : /\ Len(f[k]) <= Len(f[l])
                         /\ \A i \in 1..Len(f[k]) : f[l][i] = f[k][i]
<1> DEFINE S == {l \in 1..n : l >= k => /\ Len(f[k]) <= Len(f[l])
                                        /\ \A i \in 1..Len(f[k]) : f[l][i] = f[k][i]}
<1>0. \A l \in 1..n : Len(f[l]) \in Nat /\ Len(s[l]) \in Nat
  BY LenProperties
<1>1. n > 0 => 1 \in S
  BY <1>0
<1>2. ASSUME NEW l \in 1..n, l < n, l \in S PROVE l + 1 \in S
  <2>1. l + 1 \in 1..n /\ l + 1 # 1 /\ (l + 1) - 1 = l
    BY <1>2
  <2>2. f[l + 1] = Joined(f[l], s[l + 1])
    BY <2>1 DEF Stages
  <2>3. f[l] \in Seq(X) /\ s[l + 1] \in Seq(X)
    BY <2>1
  <2>4. /\ Len(f[l + 1]) = Len(f[l]) + Len(s[l + 1])
        /\ \A i \in 1..Len(f[l]) : f[l + 1][i] = f[l][i]
    <3>1. /\ Len(Joined(f[l], s[l + 1])) = Len(f[l]) + Len(s[l + 1])
          /\ \A i \in 1..Len(f[l]) : Joined(f[l], s[l + 1])[i] = f[l][i]
      <4> DEFINE a == f[l]
                 b == s[l + 1]
      <4>1. a \in Seq(X) /\ b \in Seq(X)
        BY <2>3
      <4> HIDE DEF a, b
      <4>2. /\ Len(Joined(a, b)) = Len(a) + Len(b)
            /\ \A i \in 1..Len(a) : Joined(a, b)[i] = a[i]
        BY <4>1, JoinedParts
      <4> QED
        BY <4>2 DEF a, b
    <3> QED
      BY <2>2, <3>1
  <2>5. CASE l + 1 > k
    BY <1>0, <1>2, <2>1, <2>4, <2>5
  <2>6. CASE l + 1 = k
    BY <1>0, <2>1, <2>6
  <2>7. CASE l + 1 < k
    BY <2>1, <2>7
  <2> QED
    BY <2>1, <2>5, <2>6, <2>7
<1>3. \A l \in 1..n : l \in S
  <2> HIDE DEF S
  <2> QED
    BY <1>1, <1>2, EveryIndex
<1> QED
  BY <1>3

\* FlattenSeq puts the parts one after the other.
LEMMA FlattenOffsets ==
  ASSUME NEW X, NEW s \in Seq(Seq(X))
  PROVE  /\ FlattenSeq(s) \in Seq(X)
         /\ \E off : Offsets(s, FlattenSeq(s), off)
<1> DEFINE n == Len(s)
<1>1. n \in Nat /\ (\A i \in 1..n : s[i] \in Seq(X)) /\ (s # << >> <=> n > 0)
  BY PartsType
<1>2. CASE s = << >>
  <2>1. FlattenSeq(s) = << >>
    BY <1>2, EmptySeq, Zenon DEF FlattenSeq
  <2>2. n = 0 /\ Len(<< >>) = 0 /\ << >> \in Seq(X)
    BY <1>2, EmptySeq
  <2>3. [k \in 0..0 |-> 0] \in [0..0 -> Nat] /\ [k \in 0..0 |-> 0][0] = 0
    OBVIOUS
  <2>4. Offsets(s, << >>, [k \in 0..0 |-> 0])
    BY <2>2, <2>3 DEF Offsets
  <2> QED
    BY <2>1, <2>2, <2>4
<1>3. CASE s # << >>
  <2>1. PICK f \in [1..n -> Seq(X)] : Stages(s, n, f) /\ FlattenSeq(s) = f[n]
    BY <1>3, FlattenStages
  <2> DEFINE off == [k \in 0..n |-> IF k = 0 THEN 0 ELSE Len(f[k])]
  <2>2. n \in 1..n
    BY <1>1, <1>3
  <2> HIDE DEF n
  <2>3. \A k \in 1..n : Len(f[k]) \in Nat /\ Len(s[k]) \in Nat
    BY <1>1, LenProperties
  <2>4. /\ off \in [0..n -> Nat] /\ off[0] = 0
        /\ \A k \in 1..n : off[k] = Len(f[k])
    BY <1>1, <2>3
  <2> HIDE DEF off
  <2>5. ASSUME NEW k \in 1..n
        PROVE  /\ off[k] = off[k - 1] + Len(s[k])
               /\ \A i \in 1..Len(s[k]) : f[k][off[k - 1] + i] = s[k][i]
    <3>1. CASE k = 1
      <4>1. f[1] = s[1] /\ off[0] = 0 /\ off[1] = Len(s[1])
        BY <2>1, <2>4, <3>1 DEF Stages
      <4>2. \A i \in 1..Len(s[1]) : 0 + i = i
        BY <2>3, <3>1
      <4> QED
        BY <2>3, <3>1, <4>1, <4>2
    <3>2. CASE k # 1
      <4>1. k - 1 \in 1..n
        BY <1>1, <3>2
      <4>2. f[k] = Joined(f[k - 1], s[k])
        BY <2>1, <3>2 DEF Stages
      <4>3. f[k - 1] \in Seq(X) /\ s[k] \in Seq(X)
        BY <1>1, <4>1
      <4>4. /\ Len(Joined(f[k - 1], s[k])) = Len(f[k - 1]) + Len(s[k])
            /\ \A i \in 1..Len(s[k]) :
                 Joined(f[k - 1], s[k])[Len(f[k - 1]) + i] = s[k][i]
        <5> DEFINE a == f[k - 1]
                   b == s[k]
        <5>1. a \in Seq(X) /\ b \in Seq(X)
          BY <4>3
        <5> HIDE DEF a, b
        <5>2. /\ Len(Joined(a, b)) = Len(a) + Len(b)
              /\ \A i \in 1..Len(b) : Joined(a, b)[Len(a) + i] = b[i]
          BY <5>1, JoinedParts
        <5> QED
          BY <5>2 DEF a, b
      <4> QED
        BY <2>4, <4>1, <4>2, <4>4
    <3> QED
      BY <3>1, <3>2
  <2>6. ASSUME NEW k \in 1..n, NEW i \in 1..Len(s[k])
        PROVE  f[n][off[k - 1] + i] = s[k][i]
    <3>1. off[k - 1] \in Nat
      BY <1>1, <2>4
    <3>2. off[k - 1] + i \in 1..Len(f[k])
      BY <2>3, <2>4, <2>5, <3>1
    <3>3. n \in k..n /\ \A j \in 1..n : s[j] \in Seq(X)
      BY <1>1
    <3>4. \A j \in 1..Len(f[k]) : f[n][j] = f[k][j]
      BY <1>1, <2>1, <3>3, StagesGrow
    <3> QED
      BY <2>5, <3>2, <3>4
  <2>7. Offsets(s, f[n], off)
    BY <2>2, <2>4, <2>5, <2>6 DEF Offsets, n
  <2> QED
    BY <2>1, <2>2, <2>7
<1> QED
  BY <1>2, <1>3

\* The offsets grow.
LEMMA OffsetsGrow ==
  ASSUME NEW X, NEW s \in Seq(Seq(X)), NEW F, NEW off, Offsets(s, F, off),
         NEW k \in 0..Len(s)
  PROVE  \A l \in 0..Len(s) : k <= l => off[k] <= off[l]
<1>0. /\ Len(s) \in Nat
      /\ \A l \in 1..Len(s) : Len(s[l]) \in Nat /\ off[l] = off[l - 1] + Len(s[l])
      /\ \A l \in 0..Len(s) : off[l] \in Nat
  BY PartsType, LenProperties DEF Offsets
<1> DEFINE S == {l \in 1..Len(s) : k <= l => off[k] <= off[l]}
<1>1. ASSUME Len(s) > 0 PROVE 1 \in S
  <2>1. 1 \in 1..Len(s) /\ 1 - 1 = 0 /\ 0 \in 0..Len(s) /\ 1 \in 0..Len(s)
    BY <1>0, <1>1
  <2>2. off[1] = off[0] + Len(s[1])
    <3>1. off[1] = off[1 - 1] + Len(s[1])
      BY <1>0, <2>1
    <3> QED
      BY <2>1, <3>1
  <2>3. off[0] <= off[1] /\ off[1] <= off[1]
    <3>1. off[0] \in Nat /\ Len(s[1]) \in Nat
      BY <1>0, <2>1
    <3> QED
      BY <2>2, <3>1
  <2>4. k <= 1 => k = 0 \/ k = 1
    BY <1>0
  <2> QED
    BY <2>1, <2>3, <2>4
<1>2. ASSUME NEW l \in 1..Len(s), l < Len(s), l \in S PROVE l + 1 \in S
  <2>1. l + 1 \in 1..Len(s) /\ (l + 1) - 1 = l /\ l \in 0..Len(s)
    BY <1>0, <1>2
  <2>2. off[l] <= off[l + 1]
    <3>1. off[l + 1] = off[l] + Len(s[l + 1])
      <4>1. off[l + 1] = off[(l + 1) - 1] + Len(s[l + 1])
        BY <1>0, <2>1
      <4> QED
        BY <2>1, <4>1
    <3>2. off[l] \in Nat /\ Len(s[l + 1]) \in Nat
      BY <1>0, <2>1
    <3> QED
      BY <3>1, <3>2
  <2>3. CASE k = l + 1
    BY <1>0, <2>1, <2>3
  <2> QED
    BY <1>0, <1>2, <2>1, <2>2, <2>3
<1>3. \A l \in 1..Len(s) : l \in S
  <2> HIDE DEF S
  <2> QED
    BY <1>0, <1>1, <1>2, EveryIndex
<1> QED
  BY <1>0, <1>3

\* Every index of F is one of a part.
Covered(s, F, off) ==
  \A j \in 1..Len(F) : \E k \in 1..Len(s) : \E i \in 1..Len(s[k]) : j = off[k - 1] + i

\* The offsets leave out no index.
LEMMA FlattenIndex ==
  ASSUME NEW X, NEW s \in Seq(Seq(X)), NEW F, NEW off, Offsets(s, F, off)
  PROVE  Covered(s, F, off)
<1> SUFFICES ASSUME NEW j \in 1..Len(F)
             PROVE  \E k \in 1..Len(s) : \E i \in 1..Len(s[k]) : j = off[k - 1] + i
  BY DEF Covered
<1>0. /\ Len(s) \in Nat
      /\ \A l \in 1..Len(s) : Len(s[l]) \in Nat /\ off[l] = off[l - 1] + Len(s[l])
      /\ \A l \in 0..Len(s) : off[l] \in Nat
      /\ Len(F) = off[Len(s)] /\ off[0] = 0
  BY PartsType, LenProperties DEF Offsets
<1> DEFINE T == {k \in 0..Len(s) : j <= off[k]}
<1>1. T # {} /\ T \subseteq Nat
  BY <1>0
<1>2. PICK k \in T : \A l \in T : k <= l
  BY <1>1, LeastIndex
<1>3. k \in 0..Len(s) /\ k # 0 /\ j <= off[k]
  BY <1>0, <1>2
<1>4. k \in 1..Len(s) /\ k - 1 \in 0..Len(s)
  BY <1>0, <1>3
<1>5. ~(j <= off[k - 1])
  BY <1>2, <1>4
<1>6. /\ off[k] = off[k - 1] + Len(s[k])
      /\ off[k] \in Nat /\ off[k - 1] \in Nat /\ Len(s[k]) \in Nat
      /\ j \in Nat
  BY <1>0, <1>4
<1>7. /\ j - off[k - 1] \in 1..Len(s[k])
      /\ j = off[k - 1] + (j - off[k - 1])
  BY <1>3, <1>5, <1>6
<1> QED
  BY <1>4, <1>7

\* Where the elements of the parts are in F: in the order of the parts, each at
\* a place of its own, and there is nothing else.
Positions(s, F, pos) ==
  /\ \A k \in 1..Len(s) : \A i \in 1..Len(s[k]) :
       pos[k][i] \in 1..Len(F) /\ F[pos[k][i]] = s[k][i]
  /\ \A k, l \in 1..Len(s) : \A i \in 1..Len(s[k]) : \A j \in 1..Len(s[l]) :
       /\ k < l => pos[k][i] < pos[l][j]
       /\ k = l /\ i # j => pos[k][i] # pos[l][j]
  /\ \A q \in 1..Len(F) : \E k \in 1..Len(s) : \E i \in 1..Len(s[k]) : q = pos[k][i]

\* FlattenSeq has every element of every part, in order, and no other.
LEMMA FlattenPositions ==
  ASSUME NEW X, NEW s \in Seq(Seq(X))
  PROVE  /\ FlattenSeq(s) \in Seq(X)
         /\ \E pos : Positions(s, FlattenSeq(s), pos)
<1> DEFINE F == FlattenSeq(s)
<1>1. F \in Seq(X) /\ \E off : Offsets(s, F, off)
  BY FlattenOffsets
<1> HIDE DEF F
<1>2. PICK off : Offsets(s, F, off)
  BY <1>1
<1>0. /\ Len(s) \in Nat /\ Len(s) \in 0..Len(s)
      /\ \A k \in 1..Len(s) : /\ Len(s[k]) \in Nat /\ off[k] = off[k - 1] + Len(s[k])
                              /\ k - 1 \in 0..Len(s) /\ k \in 0..Len(s)
      /\ \A k \in 0..Len(s) : off[k] \in Nat
      /\ Len(F) = off[Len(s)]
  BY <1>2, PartsType, LenProperties DEF Offsets
<1> DEFINE pos == [k \in 1..Len(s) |-> [i \in 1..Len(s[k]) |-> off[k - 1] + i]]
<1>3. \A k \in 1..Len(s) : \A i \in 1..Len(s[k]) : pos[k][i] = off[k - 1] + i
  OBVIOUS
<1> HIDE DEF pos
<1>4. ASSUME NEW k \in 1..Len(s), NEW i \in 1..Len(s[k])
      PROVE  pos[k][i] \in 1..Len(F) /\ F[pos[k][i]] = s[k][i]
  <2>1. off[k] <= off[Len(s)]
    BY <1>0, <1>2, OffsetsGrow
  <2>2. /\ off[k] = off[k - 1] + Len(s[k]) /\ off[k - 1] \in Nat /\ off[k] \in Nat
        /\ Len(s[k]) \in Nat /\ off[Len(s)] \in Nat
    BY <1>0
  <2>3. off[k - 1] + i \in 1..off[Len(s)]
    BY <2>1, <2>2
  <2>4. F[off[k - 1] + i] = s[k][i]
    BY <1>2 DEF Offsets
  <2> QED
    BY <1>0, <1>3, <2>3, <2>4
<1>5. ASSUME NEW k \in 1..Len(s), NEW l \in 1..Len(s), NEW i \in 1..Len(s[k]),
             NEW j \in 1..Len(s[l])
      PROVE  /\ k < l => pos[k][i] < pos[l][j]
             /\ k = l /\ i # j => pos[k][i] # pos[l][j]
  <2>1. /\ off[k] = off[k - 1] + Len(s[k]) /\ off[k - 1] \in Nat /\ off[k] \in Nat
        /\ off[l - 1] \in Nat /\ Len(s[k]) \in Nat /\ Len(s[l]) \in Nat
    BY <1>0
  <2>2. k < l => off[k] <= off[l - 1]
    <3>1. k < l => k <= l - 1
      BY <1>0
    <3>2. k \in 0..Len(s) /\ l - 1 \in 0..Len(s)
      BY <1>0
    <3> QED
      BY <1>2, <3>1, <3>2, OffsetsGrow
  <2>3. pos[k][i] = off[k - 1] + i /\ pos[l][j] = off[l - 1] + j
    BY <1>3
  <2>4. k < l => off[k - 1] + i < off[l - 1] + j
    <3> DEFINE a == off[k - 1]
               b == off[k]
               c == off[l - 1]
               n == Len(s[k])
    <3>1. /\ a \in Nat /\ b \in Nat /\ c \in Nat /\ n \in Nat /\ b = a + n
          /\ i \in 1..n
          /\ k < l => b <= c
      BY <2>1, <2>2
    <3>2. j \in Nat /\ j > 0
      BY <2>1
    <3> HIDE DEF a, b, c, n
    <3>3. b <= c => a + i < c + j
      BY <3>1, <3>2
    <3> QED
      BY <3>1, <3>3 DEF a, c
  <2>5. i # j => off[k - 1] + i # off[k - 1] + j
    BY <2>1
  <2> QED
    BY <2>3, <2>4, <2>5
<1>6. ASSUME NEW q \in 1..Len(F)
      PROVE  \E k \in 1..Len(s) : \E i \in 1..Len(s[k]) : q = pos[k][i]
  <2>1. PICK k \in 1..Len(s) : \E i \in 1..Len(s[k]) : q = off[k - 1] + i
    <3>1. Covered(s, F, off)
      BY <1>2, FlattenIndex
    <3> QED
      BY <3>1 DEF Covered
  <2>2. PICK i \in 1..Len(s[k]) : q = off[k - 1] + i
    BY <2>1
  <2>3. q = pos[k][i]
    BY <1>3, <2>2
  <2> QED
    BY <2>3
<1>7. Positions(s, F, pos)
  BY <1>4, <1>5, <1>6 DEF Positions
<1> QED
  BY <1>1, <1>7 DEF F

\* Its elements are those of the parts.
LEMMA FlattenElements ==
  ASSUME NEW X, NEW s \in Seq(Seq(X))
  PROVE  /\ FlattenSeq(s) \in Seq(X)
         /\ \A e : e \in ToSet(FlattenSeq(s)) <=> \E k \in DOMAIN s : e \in ToSet(s[k])
         /\ FlattenSeq(s) = << >> <=> \A k \in DOMAIN s : s[k] = << >>
<1> DEFINE F == FlattenSeq(s)
<1>1. F \in Seq(X) /\ \E pos : Positions(s, F, pos)
  BY FlattenPositions
<1> HIDE DEF F
<1>2. PICK pos : Positions(s, F, pos)
  BY <1>1
<1>3. /\ DOMAIN F = 1..Len(F) /\ DOMAIN s = 1..Len(s) /\ Len(F) \in Nat
      /\ \A k \in 1..Len(s) : DOMAIN s[k] = 1..Len(s[k]) /\ s[k] \in Seq(X)
                              /\ Len(s[k]) \in Nat
  BY <1>1, PartsType, LenProperties
<1>4. ASSUME NEW e
      PROVE  e \in ToSet(F) <=> \E k \in DOMAIN s : e \in ToSet(s[k])
  <2>1. ASSUME e \in ToSet(F) PROVE \E k \in DOMAIN s : e \in ToSet(s[k])
    <3>1. PICK q \in 1..Len(F) : F[q] = e
      BY <1>3, <2>1 DEF ToSet
    <3>2. PICK k \in 1..Len(s) : \E i \in 1..Len(s[k]) : q = pos[k][i]
      BY <1>2 DEF Positions
    <3>3. PICK i \in 1..Len(s[k]) : q = pos[k][i]
      BY <3>2
    <3>4. s[k][i] = e
      BY <1>2, <3>1, <3>3 DEF Positions
    <3> QED
      BY <1>3, <3>4 DEF ToSet
  <2>2. ASSUME NEW k \in DOMAIN s, e \in ToSet(s[k]) PROVE e \in ToSet(F)
    <3>1. PICK i \in 1..Len(s[k]) : s[k][i] = e
      BY <1>3, <2>2 DEF ToSet
    <3>2. pos[k][i] \in 1..Len(F) /\ F[pos[k][i]] = e
      BY <1>2, <1>3, <3>1 DEF Positions
    <3> QED
      BY <1>3, <3>2 DEF ToSet
  <2> QED
    BY <2>1, <2>2
<1>5. \A t \in Seq(X) : t = << >> <=> ~\E e : e \in ToSet(t)
  <2> SUFFICES ASSUME NEW t \in Seq(X) PROVE t = << >> <=> ~\E e : e \in ToSet(t)
    OBVIOUS
  <2>1. DOMAIN t = 1..Len(t) /\ Len(t) \in Nat /\ (t = << >> <=> Len(t) = 0)
    BY LenProperties, EmptySeq
  <2>2. CASE Len(t) = 0
    BY <2>1, <2>2 DEF ToSet
  <2>3. CASE Len(t) # 0
    <3>1. 1 \in DOMAIN t
      BY <2>1, <2>3
    <3> QED
      BY <2>1, <2>3, <3>1 DEF ToSet
  <2> QED
    BY <2>2, <2>3
<1>6. F = << >> <=> \A k \in DOMAIN s : s[k] = << >>
  BY <1>1, <1>3, <1>4, <1>5
<1> QED
  BY <1>1, <1>4, <1>6 DEF F

\* It has nothing twice if no part has, and no two parts have anything in common.
LEMMA FlattenInjective ==
  ASSUME NEW X, NEW s \in Seq(Seq(X))
  PROVE  IsInjective(FlattenSeq(s)) <=>
           /\ \A k \in DOMAIN s : IsInjective(s[k])
           /\ \A k, l \in DOMAIN s : k # l => ToSet(s[k]) \cap ToSet(s[l]) = {}
<1> DEFINE F == FlattenSeq(s)
<1>1. F \in Seq(X) /\ \E pos : Positions(s, F, pos)
  BY FlattenPositions
<1> HIDE DEF F
<1>2. PICK pos : Positions(s, F, pos)
  BY <1>1
<1>3. /\ DOMAIN F = 1..Len(F) /\ DOMAIN s = 1..Len(s) /\ Len(F) \in Nat
      /\ \A k \in 1..Len(s) : DOMAIN s[k] = 1..Len(s[k])
  BY <1>1, PartsType, LenProperties
<1>4. ASSUME NEW k \in 1..Len(s), NEW l \in 1..Len(s), NEW i \in 1..Len(s[k]),
             NEW j \in 1..Len(s[l]), k # l \/ i # j
      PROVE  pos[k][i] # pos[l][j]
  <2>0. pos[k][i] \in Nat /\ pos[l][j] \in Nat /\ Len(s) \in Nat
    BY <1>2, <1>3, PartsType DEF Positions
  <2>1. CASE k < l
    <3>1. pos[k][i] < pos[l][j]
      BY <1>2, <2>1 DEF Positions
    <3> QED
      BY <2>0, <3>1
  <2>2. CASE l < k
    <3>1. pos[l][j] < pos[k][i]
      BY <1>2, <2>2 DEF Positions
    <3> QED
      BY <2>0, <3>1
  <2>3. CASE k = l
    BY <1>2, <1>4, <2>3 DEF Positions
  <2> QED
    BY <2>0, <2>1, <2>2, <2>3
<1>5. \A k \in 1..Len(s) : \A i \in 1..Len(s[k]) :
        pos[k][i] \in 1..Len(F) /\ F[pos[k][i]] = s[k][i]
  BY <1>2 DEF Positions
<1>6. \A q \in 1..Len(F) : \E k \in 1..Len(s) : \E i \in 1..Len(s[k]) : q = pos[k][i]
  BY <1>2 DEF Positions
<1>7. ASSUME IsInjective(F)
      PROVE  /\ \A k \in DOMAIN s : IsInjective(s[k])
             /\ \A k, l \in DOMAIN s : k # l => ToSet(s[k]) \cap ToSet(s[l]) = {}
  <2>1. \A k, l \in 1..Len(s) : \A i \in 1..Len(s[k]) : \A j \in 1..Len(s[l]) :
          s[k][i] = s[l][j] => k = l /\ i = j
    <3> SUFFICES ASSUME NEW k \in 1..Len(s), NEW l \in 1..Len(s),
                        NEW i \in 1..Len(s[k]), NEW j \in 1..Len(s[l]),
                        s[k][i] = s[l][j]
                 PROVE  k = l /\ i = j
      OBVIOUS
    <3>1. /\ pos[k][i] \in DOMAIN F /\ pos[l][j] \in DOMAIN F
          /\ F[pos[k][i]] = F[pos[l][j]]
      BY <1>3, <1>5
    <3>2. pos[k][i] = pos[l][j]
      BY <1>7, <3>1 DEF IsInjective
    <3> QED
      BY <1>4, <3>2
  <2>2. \A k \in DOMAIN s : IsInjective(s[k])
    BY <1>3, <2>1 DEF IsInjective
  <2>3. ASSUME NEW k \in DOMAIN s, NEW l \in DOMAIN s, k # l,
               NEW e, e \in ToSet(s[k]), e \in ToSet(s[l])
        PROVE  FALSE
    <3>1. PICK i \in 1..Len(s[k]) : s[k][i] = e
      BY <1>3, <2>3 DEF ToSet
    <3>2. PICK j \in 1..Len(s[l]) : s[l][j] = e
      BY <1>3, <2>3 DEF ToSet
    <3> QED
      BY <1>3, <2>1, <2>3, <3>1, <3>2
  <2> QED
    BY <2>2, <2>3
<1>8. ASSUME \A k \in DOMAIN s : IsInjective(s[k]),
             \A k, l \in DOMAIN s : k # l => ToSet(s[k]) \cap ToSet(s[l]) = {}
      PROVE  IsInjective(F)
  <2>1. \A k, l \in 1..Len(s) : \A i \in 1..Len(s[k]) : \A j \in 1..Len(s[l]) :
          s[k][i] = s[l][j] => k = l /\ i = j
    <3> SUFFICES ASSUME NEW k \in 1..Len(s), NEW l \in 1..Len(s),
                        NEW i \in 1..Len(s[k]), NEW j \in 1..Len(s[l]),
                        s[k][i] = s[l][j]
                 PROVE  k = l /\ i = j
      OBVIOUS
    <3>1. s[k][i] \in ToSet(s[k]) /\ s[l][j] \in ToSet(s[l])
      BY <1>3 DEF ToSet
    <3>2. k = l
      BY <1>3, <1>8, <3>1
    <3> QED
      BY <1>3, <1>8, <3>2 DEF IsInjective
  <2>2. ASSUME NEW q \in 1..Len(F), NEW r \in 1..Len(F), F[q] = F[r] PROVE q = r
    <3>1a. PICK k \in 1..Len(s) : \E i \in 1..Len(s[k]) : q = pos[k][i]
      BY <1>6
    <3>1. PICK i \in 1..Len(s[k]) : q = pos[k][i]
      BY <3>1a
    <3>2a. PICK l \in 1..Len(s) : \E j \in 1..Len(s[l]) : r = pos[l][j]
      BY <1>6
    <3>2. PICK j \in 1..Len(s[l]) : r = pos[l][j]
      BY <3>2a
    <3>3. s[k][i] = s[l][j]
      BY <1>5, <2>2, <3>1, <3>2
    <3>4. k = l /\ i = j
      BY <2>1, <3>3
    <3> QED
      BY <3>1, <3>2, <3>4
  <2> QED
    BY <1>3, <2>2 DEF IsInjective
<1> QED
  BY <1>7, <1>8 DEF F

\* Parts of at most one element make a result no longer than their number.
LEMMA FlattenShort ==
  ASSUME NEW X, NEW s \in Seq(Seq(X)), \A k \in DOMAIN s : Len(s[k]) <= 1
  PROVE  Len(FlattenSeq(s)) <= Len(s)
<1> DEFINE F == FlattenSeq(s)
<1>1. \E off : Offsets(s, F, off)
  BY FlattenOffsets
<1> HIDE DEF F
<1>2. PICK off : Offsets(s, F, off)
  BY <1>1
<1>0. /\ Len(s) \in Nat /\ DOMAIN s = 1..Len(s)
      /\ \A k \in 1..Len(s) : Len(s[k]) \in Nat /\ off[k] = off[k - 1] + Len(s[k])
      /\ \A k \in 0..Len(s) : off[k] \in Nat
      /\ Len(F) = off[Len(s)] /\ off[0] = 0
  BY <1>2, PartsType, LenProperties DEF Offsets
<1> DEFINE S == {k \in 1..Len(s) : off[k] <= k}
<1>3. ASSUME NEW k \in 1..Len(s), off[k - 1] <= k - 1 PROVE k \in S
  <2>1. /\ off[k] = off[k - 1] + Len(s[k]) /\ off[k - 1] \in Nat /\ Len(s[k]) \in Nat
        /\ Len(s[k]) <= 1
    <3>1. k - 1 \in 0..Len(s) /\ k \in DOMAIN s
      BY <1>0
    <3> QED
      BY <1>0, <3>1
  <2> QED
    BY <1>3, <2>1
<1>4. ASSUME Len(s) > 0 PROVE 1 \in S
  <2>1. 1 \in 1..Len(s) /\ off[1 - 1] <= 1 - 1
    BY <1>0, <1>4
  <2> HIDE DEF S
  <2> QED
    BY <1>3, <2>1
<1>5. ASSUME NEW k \in 1..Len(s), k < Len(s), k \in S PROVE k + 1 \in S
  <2>1. k + 1 \in 1..Len(s) /\ off[(k + 1) - 1] <= (k + 1) - 1
    BY <1>0, <1>5
  <2> HIDE DEF S
  <2> QED
    BY <1>3, <2>1
<1>6. \A k \in 1..Len(s) : k \in S
  <2> HIDE DEF S
  <2> QED
    BY <1>0, <1>4, <1>5, EveryIndex
<1>7. off[Len(s)] <= Len(s)
  BY <1>0, <1>6
<1> QED
  BY <1>0, <1>7 DEF F

-----------------------------------------------------------------------------
(* Waves.                                                                  *)

\* A wave of one task.
LEMMA Single ==
  ASSUME NEW X, NEW x \in X
  PROVE  /\ <<x>> \in Seq(X) /\ Len(<<x>>) = 1 /\ <<x>> # << >>
         /\ ToSet(<<x>>) = {x}
         /\ IsInjective(<<x>>)
<1>1. <<x>> \in Seq(X) /\ Len(<<x>>) = 1 /\ DOMAIN <<x>> = 1..1 /\ <<x>>[1] = x
  OBVIOUS
<1>2. \A i \in 1..1 : i = 1
  OBVIOUS
<1>3. <<x>> # << >>
  BY <1>1, EmptySeq
<1> HIDE DEF ToSet
<1>4. ToSet(<<x>>) = {x}
  BY <1>1, <1>2 DEF ToSet
<1>5. IsInjective(<<x>>)
  BY <1>1, <1>2 DEF IsInjective
<1> QED
  BY <1>1, <1>3, <1>4, <1>5

\* The elements of a sequence.
LEMMA Elements ==
  ASSUME NEW X, NEW w \in Seq(X)
  PROVE  /\ Len(w) \in Nat /\ DOMAIN w = 1..Len(w)
         /\ \A i \in DOMAIN w : w[i] \in X /\ w[i] \in ToSet(w)
         /\ \A e \in ToSet(w) : \E i \in DOMAIN w : w[i] = e
         /\ ToSet(w) \subseteq X
         /\ w = << >> <=> ToSet(w) = {}
         /\ w = << >> <=> Len(w) = 0
<1>1. Len(w) \in Nat /\ DOMAIN w = 1..Len(w) /\ (w = << >> <=> Len(w) = 0)
  BY LenProperties, EmptySeq
<1>2. \A i \in DOMAIN w : w[i] \in X
  BY <1>1, ElementOfSeq
<1>3. Len(w) # 0 => 1 \in DOMAIN w
  BY <1>1
<1>4. Len(w) = 0 => DOMAIN w = {}
  BY <1>1
<1> QED
  BY <1>1, <1>2, <1>3, <1>4 DEF ToSet

\* A function on 1..n is a sequence.
LEMMA SeqOfFunction ==
  ASSUME NEW X, NEW n \in Nat, NEW f \in [1..n -> X]
  PROVE  f \in Seq(X) /\ Len(f) = n /\ DOMAIN f = 1..n
OBVIOUS

\* The members of a wave that are in a set.
LEMMA AmongWave ==
  ASSUME NEW X, NEW w \in Seq(X), NEW S
  PROVE  /\ Among(w, S) \in Seq(X)
         /\ ToSet(Among(w, S)) = ToSet(w) \cap S
         /\ IsInjective(w) => IsInjective(Among(w, S))
         /\ Len(Among(w, S)) <= Len(w)
<1> DEFINE part(i) == IF w[i] \in S THEN <<w[i]>> ELSE << >>
           s == [i \in DOMAIN w |-> part(i)]
<1>0. /\ Len(w) \in Nat /\ DOMAIN w = 1..Len(w)
      /\ \A i \in DOMAIN w : w[i] \in X /\ w[i] \in ToSet(w)
      /\ \A e \in ToSet(w) : \E i \in DOMAIN w : w[i] = e
  BY Elements
<1>1. \A i \in DOMAIN w :
        /\ part(i) \in Seq(X) /\ Len(part(i)) <= 1 /\ IsInjective(part(i))
        /\ ToSet(part(i)) = {w[i]} \cap S
  <2> SUFFICES ASSUME NEW i \in DOMAIN w
               PROVE  /\ part(i) \in Seq(X) /\ Len(part(i)) <= 1 /\ IsInjective(part(i))
                      /\ ToSet(part(i)) = {w[i]} \cap S
    OBVIOUS
  <2>1. CASE w[i] \in S
    <3>1. part(i) = <<w[i]>>
      BY <2>1
    <3>2. w[i] \in X
      BY <1>0
    <3>3. /\ <<w[i]>> \in Seq(X) /\ Len(<<w[i]>>) = 1
          /\ ToSet(<<w[i]>>) = {w[i]} /\ IsInjective(<<w[i]>>)
      BY <3>2, Single
    <3> HIDE DEF part
    <3> QED
      BY <2>1, <3>1, <3>3
  <2>2. CASE w[i] \notin S
    <3>1. part(i) = << >>
      BY <2>2
    <3>2. << >> \in Seq(X) /\ Len(<< >>) = 0
      BY EmptySeq
    <3>3. DOMAIN << >> = {}
      BY <3>2, LenProperties
    <3>4. IsInjective(<< >>) /\ ToSet(<< >>) = {}
      BY <3>3 DEF IsInjective, ToSet
    <3> HIDE DEF part
    <3> QED
      BY <2>2, <3>1, <3>2, <3>4
  <2> QED
    BY <2>1, <2>2
<1>2. Among(w, S) = FlattenSeq(s)
  BY DEF Among
<1> HIDE DEF part
<1>3. \A i \in DOMAIN w : s[i] = part(i)
  OBVIOUS
<1>4. s \in [1..Len(w) -> Seq(X)]
  BY <1>0, <1>1
<1> HIDE DEF s
<1>5. s \in Seq(Seq(X)) /\ Len(s) = Len(w) /\ DOMAIN s = DOMAIN w
  BY <1>0, <1>4, SeqOfFunction
<1>6. /\ FlattenSeq(s) \in Seq(X)
      /\ \A e : e \in ToSet(FlattenSeq(s)) <=> \E k \in DOMAIN s : e \in ToSet(s[k])
  BY <1>5, FlattenElements
<1>7. ToSet(FlattenSeq(s)) = ToSet(w) \cap S
  <2>1. \A e : e \in ToSet(FlattenSeq(s)) <=> \E i \in DOMAIN w : e = w[i] /\ w[i] \in S
    BY <1>1, <1>3, <1>5, <1>6
  <2> QED
    BY <1>0, <2>1
<1>8. Len(FlattenSeq(s)) <= Len(s)
  <2>1. \A k \in DOMAIN s : Len(s[k]) <= 1
    BY <1>1, <1>3, <1>5
  <2> QED
    BY <1>5, <2>1, FlattenShort
<1>9. ASSUME IsInjective(w) PROVE IsInjective(FlattenSeq(s))
  <2>1. \A k \in DOMAIN s : IsInjective(s[k])
    BY <1>1, <1>3, <1>5
  <2>2. \A k, l \in DOMAIN s : k # l => w[k] # w[l]
    BY <1>5, <1>9 DEF IsInjective
  <2>3. \A k, l \in DOMAIN s : k # l => ToSet(s[k]) \cap ToSet(s[l]) = {}
    BY <1>1, <1>3, <1>5, <2>2
  <2> QED
    BY <1>5, <2>1, <2>3, FlattenInjective
<1> QED
  BY <1>2, <1>5, <1>6, <1>7, <1>8, <1>9

\* The waves that a wave is split into: none is empty or longer than the wave,
\* they have its tasks, each once if the wave has, and of two tasks that write
\* none is beside the other.
LEMMA SerialProperties ==
  ASSUME NEW p, NEW w \in Seq(Tasks)
  PROVE  /\ SerialWaves(p, w) \in Seq(Seq(Tasks))
         /\ w # << >> => SerialWaves(p, w) # << >>
         /\ \A i \in DOMAIN SerialWaves(p, w) :
              LET v == SerialWaves(p, w)[i] IN
              /\ Len(v) \in 1..Len(w)
              /\ ToSet(v) \subseteq ToSet(w)
              /\ \A t, u \in ToSet(v) : t \in p.writes => t = u
         /\ \A t \in ToSet(w) : \E i \in DOMAIN SerialWaves(p, w) :
              t \in ToSet(SerialWaves(p, w)[i])
         /\ IsInjective(w) =>
              /\ \A i \in DOMAIN SerialWaves(p, w) : IsInjective(SerialWaves(p, w)[i])
              /\ \A i, j \in DOMAIN SerialWaves(p, w) :
                   i # j => ToSet(SerialWaves(p, w)[i]) \cap ToSet(SerialWaves(p, w)[j]) = {}
<1> DEFINE reads == Among(w, Tasks \ p.writes)
           writes == Among(w, p.writes)
           front == IF reads = << >> THEN << >> ELSE <<reads>>
           back == [i \in DOMAIN writes |-> <<writes[i]>>]
           ss == SerialWaves(p, w)
<1>1. /\ reads \in Seq(Tasks) /\ ToSet(reads) = ToSet(w) \cap (Tasks \ p.writes)
      /\ IsInjective(w) => IsInjective(reads)
      /\ Len(reads) <= Len(w)
  BY AmongWave
<1>2. /\ writes \in Seq(Tasks) /\ ToSet(writes) = ToSet(w) \cap p.writes
      /\ IsInjective(w) => IsInjective(writes)
      /\ Len(writes) <= Len(w)
  BY AmongWave
<1>3. ss = front \o back
  BY DEF SerialWaves
<1> HIDE DEF reads, writes, ss
<1>4. /\ Len(w) \in Nat /\ Len(reads) \in Nat /\ Len(writes) \in Nat
      /\ DOMAIN writes = 1..Len(writes)
      /\ \A i \in DOMAIN writes : writes[i] \in Tasks /\ writes[i] \in ToSet(writes)
      /\ \A e \in ToSet(writes) : \E i \in DOMAIN writes : writes[i] = e
      /\ ToSet(w) \subseteq Tasks
      /\ w = << >> <=> ToSet(w) = {}
      /\ w = << >> <=> Len(w) = 0
      /\ reads = << >> <=> ToSet(reads) = {}
      /\ reads = << >> <=> Len(reads) = 0
      /\ writes = << >> <=> ToSet(writes) = {}
      /\ writes = << >> <=> Len(writes) = 0
  BY <1>1, <1>2, Elements
<1>5. /\ front \in Seq(Seq(Tasks))
      /\ Len(front) = IF reads = << >> THEN 0 ELSE 1
      /\ Len(front) = 1 => front[1] = reads
  <2>1. CASE reads = << >>
    BY <2>1, EmptySeq
  <2>2. CASE reads # << >>
    <3>1. <<reads>> \in Seq(Seq(Tasks)) /\ Len(<<reads>>) = 1 /\ <<reads>>[1] = reads
      BY <1>1
    <3> QED
      BY <2>2, <3>1
  <2> QED
    BY <2>1, <2>2
<1>6. \A i \in DOMAIN writes :
        /\ back[i] = <<writes[i]>>
        /\ back[i] \in Seq(Tasks) /\ Len(back[i]) = 1
        /\ ToSet(back[i]) = {writes[i]} /\ IsInjective(back[i])
  <2>1. \A i \in DOMAIN writes : back[i] = <<writes[i]>>
    OBVIOUS
  <2> HIDE DEF back
  <2> SUFFICES ASSUME NEW i \in DOMAIN writes
               PROVE  /\ back[i] \in Seq(Tasks) /\ Len(back[i]) = 1
                      /\ ToSet(back[i]) = {writes[i]} /\ IsInjective(back[i])
    BY <2>1
  <2>2. writes[i] \in Tasks
    BY <1>4
  <2>3. /\ <<writes[i]>> \in Seq(Tasks) /\ Len(<<writes[i]>>) = 1
        /\ ToSet(<<writes[i]>>) = {writes[i]} /\ IsInjective(<<writes[i]>>)
    BY <2>2, Single
  <2> QED
    BY <2>1, <2>3
<1>7. back \in Seq(Seq(Tasks)) /\ Len(back) = Len(writes)
  <2>1. back \in [1..Len(writes) -> Seq(Tasks)]
    BY <1>4, <1>6
  <2> HIDE DEF back
  <2> QED
    BY <1>4, <2>1, SeqOfFunction
<1> HIDE DEF front, back
<1> DEFINE m == Len(front)
<1>8. /\ ss \in Seq(Seq(Tasks)) /\ DOMAIN ss = 1..m + Len(writes)
      /\ Len(ss) = m + Len(writes)
      /\ \A i \in 1..m + Len(writes) : ss[i] = IF i <= m THEN front[i] ELSE back[i - m]
  <2>1. /\ front \o back \in Seq(Seq(Tasks)) /\ Len(front \o back) = Len(front) + Len(back)
        /\ \A i \in 1..Len(front) + Len(back) :
             (front \o back)[i] = IF i <= Len(front) THEN front[i] ELSE back[i - Len(front)]
    <3> DEFINE X == Seq(Tasks)
    <3> HIDE DEF X
    <3>1. front \in Seq(X) /\ back \in Seq(X)
      BY <1>5, <1>7 DEF X
    <3>2. /\ front \o back \in Seq(X) /\ Len(front \o back) = Len(front) + Len(back)
          /\ \A i \in 1..Len(front) + Len(back) :
               (front \o back)[i] = IF i <= Len(front) THEN front[i] ELSE back[i - Len(front)]
      BY <3>1, ConcatProperties
    <3> QED
      BY <3>2 DEF X
  <2>2. DOMAIN (front \o back) = 1..Len(front \o back)
    BY <2>1, LenProperties
  <2> QED
    BY <1>3, <1>7, <2>1, <2>2
<1>9. m \in {0, 1} /\ (m = 0 <=> reads = << >>)
  BY <1>5
<1> HIDE DEF m
<1>10. \A i \in DOMAIN ss :
         \/ m = 1 /\ i = 1 /\ ss[i] = reads
         \/ i - m \in DOMAIN writes /\ i \in Nat /\ ss[i] = back[i - m]
  <2> SUFFICES ASSUME NEW i \in DOMAIN ss
               PROVE  \/ m = 1 /\ i = 1 /\ ss[i] = reads
                      \/ i - m \in DOMAIN writes /\ i \in Nat /\ ss[i] = back[i - m]
    OBVIOUS
  <2>1. i \in 1..m + Len(writes)
    BY <1>8
  <2>2. CASE i <= m
    BY <1>5, <1>8, <1>9, <2>1, <2>2 DEF m
  <2>3. CASE ~(i <= m)
    <3>1. i - m \in 1..Len(writes)
      BY <1>4, <1>9, <2>1, <2>3
    <3> QED
      BY <1>4, <1>8, <2>1, <2>3, <3>1
  <2> QED
    BY <2>2, <2>3
<1>11. \A k \in DOMAIN writes : k + m \in DOMAIN ss /\ ss[k + m] = back[k]
  <2> SUFFICES ASSUME NEW k \in DOMAIN writes
               PROVE  k + m \in DOMAIN ss /\ ss[k + m] = back[k]
    OBVIOUS
  <2>1. /\ k + m \in 1..m + Len(writes) /\ ~(k + m <= m) /\ (k + m) - m = k
    BY <1>4, <1>9
  <2> QED
    BY <1>8, <2>1
<1>12. m = 1 => 1 \in DOMAIN ss /\ ss[1] = reads
  <2> SUFFICES ASSUME m = 1 PROVE 1 \in DOMAIN ss /\ ss[1] = reads
    OBVIOUS
  <2>1. 1 \in 1..m + Len(writes) /\ 1 <= m
    BY <1>4
  <2> QED
    BY <1>5, <1>8, <2>1 DEF m
<1>13. w # << >> => ss # << >>
  <2> SUFFICES ASSUME w # << >> PROVE Len(ss) # 0
    BY <1>8, EmptySeq
  <2>1. reads # << >> \/ writes # << >>
    BY <1>1, <1>2, <1>4
  <2> QED
    BY <1>4, <1>8, <1>9, <2>1
<1>14. ASSUME NEW i \in DOMAIN ss
       PROVE  /\ Len(ss[i]) \in 1..Len(w)
              /\ ToSet(ss[i]) \subseteq ToSet(w)
              /\ \A t, u \in ToSet(ss[i]) : t \in p.writes => t = u
              /\ IsInjective(w) => IsInjective(ss[i])
  <2>1. CASE m = 1 /\ i = 1 /\ ss[i] = reads
    <3>1. reads # << >>
      BY <1>9, <2>1
    <3> QED
      BY <1>1, <1>4, <2>1, <3>1
  <2>2. CASE i - m \in DOMAIN writes /\ ss[i] = back[i - m]
    <3> DEFINE k == i - m
    <3>1. k \in DOMAIN writes
      BY <2>2
    <3>2. ss[i] = back[k]
      BY <2>2
    <3> HIDE DEF k
    <3>3. writes[k] \in ToSet(w) /\ Len(w) # 0
      BY <1>2, <1>4, <3>1
    <3>4. /\ Len(back[k]) = 1 /\ ToSet(back[k]) = {writes[k]} /\ IsInjective(back[k])
      BY <1>6, <3>1
    <3> QED
      BY <1>4, <3>2, <3>3, <3>4
  <2> QED
    BY <1>10, <2>1, <2>2
<1>15. ASSUME NEW t \in ToSet(w) PROVE \E i \in DOMAIN ss : t \in ToSet(ss[i])
  <2>1. CASE t \in p.writes
    <3>1. PICK k \in DOMAIN writes : writes[k] = t
      BY <1>2, <1>4, <2>1
    <3>2. t \in ToSet(back[k])
      BY <1>6, <3>1
    <3> QED
      BY <1>11, <3>2
  <2>2. CASE t \notin p.writes
    <3>1. t \in ToSet(reads)
      BY <1>1, <1>4, <2>2
    <3>2. m = 1
      BY <1>4, <1>9, <3>1
    <3> QED
      BY <1>12, <3>1, <3>2
  <2> QED
    BY <2>1, <2>2
<1>16. ASSUME IsInjective(w), NEW i \in DOMAIN ss, NEW j \in DOMAIN ss, i # j
       PROVE  ToSet(ss[i]) \cap ToSet(ss[j]) = {}
  <2>1. \A k \in DOMAIN ss :
          \/ m = 1 /\ k = 1 /\ ToSet(ss[k]) = ToSet(reads)
          \/ k - m \in DOMAIN writes /\ k \in Nat /\ ToSet(ss[k]) = {writes[k - m]}
    BY <1>6, <1>10
  <2>2. \A k \in DOMAIN writes : writes[k] \notin ToSet(reads)
    BY <1>1, <1>2, <1>4
  <2>3. \A k, l \in DOMAIN writes : k # l => writes[k] # writes[l]
    BY <1>2, <1>16 DEF IsInjective
  <2>4. i \in Nat /\ j \in Nat => i - m # j - m
    BY <1>9, <1>16
  <2>5. CASE m = 1 /\ i = 1 /\ ToSet(ss[i]) = ToSet(reads)
    BY <1>16, <2>1, <2>2, <2>5
  <2>6. CASE m = 1 /\ j = 1 /\ ToSet(ss[j]) = ToSet(reads)
    BY <1>16, <2>1, <2>2, <2>6
  <2>7. CASE /\ i - m \in DOMAIN writes /\ i \in Nat /\ ToSet(ss[i]) = {writes[i - m]}
             /\ j - m \in DOMAIN writes /\ j \in Nat /\ ToSet(ss[j]) = {writes[j - m]}
    <3>1. writes[i - m] # writes[j - m]
      BY <2>3, <2>4, <2>7
    <3> QED
      BY <2>7, <3>1
  <2> QED
    BY <2>1, <2>5, <2>6, <2>7
<1> QED
  BY <1>8, <1>13, <1>14, <1>15, <1>16 DEF ss

-----------------------------------------------------------------------------
(* Plans.                                                                  *)

\* What the waves of a plan are split into, wave by wave and then in a row.
SplitEach(p) == [i \in DOMAIN p.waves |-> SerialWaves(p, p.waves[i])]

Split(p) == FlattenSeq(SplitEach(p))

\* Of what type they are.
LEMMA SplitEachType ==
  ASSUME NEW p, p.waves \in Seq(Seq(Tasks))
  PROVE  /\ SplitEach(p) \in Seq(Seq(Seq(Tasks)))
         /\ Len(SplitEach(p)) = Len(p.waves)
         /\ DOMAIN SplitEach(p) = DOMAIN p.waves
         /\ DOMAIN p.waves = 1..Len(p.waves) /\ Len(p.waves) \in Nat
         /\ \A k \in DOMAIN p.waves : /\ p.waves[k] \in Seq(Tasks)
                                      /\ SplitEach(p)[k] = SerialWaves(p, p.waves[k])
                                      /\ SplitEach(p)[k] \in Seq(Seq(Tasks))
<1>1. /\ Len(p.waves) \in Nat /\ DOMAIN p.waves = 1..Len(p.waves)
      /\ \A k \in 1..Len(p.waves) : p.waves[k] \in Seq(Tasks)
  BY PartsType
<1>2. \A k \in DOMAIN p.waves : SerialWaves(p, p.waves[k]) \in Seq(Seq(Tasks))
  BY <1>1, SerialProperties
<1>3. \A k \in DOMAIN p.waves : SplitEach(p)[k] = SerialWaves(p, p.waves[k])
  BY DEF SplitEach
<1>4. SplitEach(p) \in [1..Len(p.waves) -> Seq(Seq(Tasks))]
  BY <1>1, <1>2 DEF SplitEach
<1>5. /\ SplitEach(p) \in Seq(Seq(Seq(Tasks))) /\ Len(SplitEach(p)) = Len(p.waves)
      /\ DOMAIN SplitEach(p) = 1..Len(p.waves)
  <2> DEFINE X == Seq(Seq(Tasks))
             f == SplitEach(p)
  <2> HIDE DEF X, f
  <2>1. f \in [1..Len(p.waves) -> X]
    BY <1>4 DEF X, f
  <2>2. f \in Seq(X) /\ Len(f) = Len(p.waves) /\ DOMAIN f = 1..Len(p.waves)
    BY <1>1, <2>1, SeqOfFunction
  <2> QED
    BY <2>2 DEF X, f
<1> QED
  BY <1>1, <1>2, <1>3, <1>5

\* Every wave of a split plan is a part of a wave of the plan, and comes after all
\* that was before that wave.
LEMMA SplitOrder ==
  ASSUME NEW p, p.waves \in Seq(Seq(Tasks)), NEW q \in DOMAIN Split(p)
  PROVE  \E k \in DOMAIN p.waves :
           /\ Len(Split(p)[q]) \in 1..Len(p.waves[k])
           /\ ToSet(Split(p)[q]) \subseteq ToSet(p.waves[k])
           /\ \A t, u \in ToSet(Split(p)[q]) : t \in p.writes => t = u
           /\ \A l \in DOMAIN p.waves : l < k =>
                \A t \in ToSet(p.waves[l]) :
                  \E r \in DOMAIN Split(p) : r < q /\ t \in ToSet(Split(p)[r])
<1> DEFINE ss == SplitEach(p)
           flat == Split(p)
<1>1. /\ ss \in Seq(Seq(Seq(Tasks))) /\ Len(ss) = Len(p.waves)
      /\ DOMAIN ss = DOMAIN p.waves /\ DOMAIN p.waves = 1..Len(p.waves)
      /\ \A k \in DOMAIN p.waves : /\ p.waves[k] \in Seq(Tasks)
                                   /\ ss[k] = SerialWaves(p, p.waves[k])
                                   /\ ss[k] \in Seq(Seq(Tasks))
  BY SplitEachType
<1>2. flat = FlattenSeq(ss)
  BY DEF Split
<1> HIDE DEF ss, flat
<1>3. flat \in Seq(Seq(Tasks)) /\ \E pos : Positions(ss, flat, pos)
  BY <1>1, <1>2, FlattenPositions
<1>4. PICK pos : Positions(ss, flat, pos)
  BY <1>3
<1>5. DOMAIN flat = 1..Len(flat) /\ \A k \in DOMAIN ss : DOMAIN ss[k] = 1..Len(ss[k])
  BY <1>1, <1>3, LenProperties
<1>6. PICK k \in 1..Len(ss) : \E i \in 1..Len(ss[k]) : q = pos[k][i]
  BY <1>4, <1>5 DEF Positions, flat
<1>7. PICK i \in 1..Len(ss[k]) : q = pos[k][i]
  BY <1>6
<1>8. k \in DOMAIN p.waves /\ i \in DOMAIN ss[k] /\ flat[q] = ss[k][i]
  BY <1>1, <1>4, <1>5, <1>7 DEF Positions
<1>9. /\ Len(ss[k][i]) \in 1..Len(p.waves[k])
      /\ ToSet(ss[k][i]) \subseteq ToSet(p.waves[k])
      /\ \A t, u \in ToSet(ss[k][i]) : t \in p.writes => t = u
  <2>1. p.waves[k] \in Seq(Tasks) /\ i \in DOMAIN SerialWaves(p, p.waves[k])
    BY <1>1, <1>8
  <2> QED
    BY <1>1, <1>8, <2>1, SerialProperties
<1>10. ASSUME NEW l \in DOMAIN p.waves, l < k, NEW t \in ToSet(p.waves[l])
       PROVE  \E r \in DOMAIN flat : r < q /\ t \in ToSet(flat[r])
  <2>1. PICK j \in DOMAIN ss[l] : t \in ToSet(ss[l][j])
    <3>1. p.waves[l] \in Seq(Tasks) /\ ss[l] = SerialWaves(p, p.waves[l])
      BY <1>1
    <3>2. \E j \in DOMAIN SerialWaves(p, p.waves[l]) :
            t \in ToSet(SerialWaves(p, p.waves[l])[j])
      BY <3>1, SerialProperties
    <3> QED
      BY <3>1, <3>2
  <2>2. l \in 1..Len(ss) /\ j \in 1..Len(ss[l])
    BY <1>1, <1>5, <2>1
  <2>3. pos[l][j] \in 1..Len(flat) /\ flat[pos[l][j]] = ss[l][j] /\ pos[l][j] < pos[k][i]
    BY <1>4, <1>10, <2>2 DEF Positions
  <2> QED
    BY <1>5, <1>7, <2>1, <2>3
<1> QED
  BY <1>8, <1>9, <1>10 DEF flat

\* A split plan has waves of the tasks of the plan, and none but them.
LEMMA SplitTasks ==
  ASSUME NEW p, p.waves \in Seq(Seq(Tasks))
  PROVE  /\ Split(p) \in Seq(Seq(Tasks))
         /\ TasksIn(Split(p)) = TasksIn(p.waves)
         /\ p.waves # << >> /\ (\A k \in DOMAIN p.waves : p.waves[k] # << >>)
              => Split(p) # << >>
<1>1. /\ SplitEach(p) \in Seq(Seq(Seq(Tasks)))
      /\ DOMAIN SplitEach(p) = DOMAIN p.waves
      /\ DOMAIN p.waves = 1..Len(p.waves) /\ Len(p.waves) \in Nat
      /\ \A k \in DOMAIN p.waves : /\ p.waves[k] \in Seq(Tasks)
                                   /\ SplitEach(p)[k] = SerialWaves(p, p.waves[k])
                                   /\ SplitEach(p)[k] \in Seq(Seq(Tasks))
  BY SplitEachType
<1>2. /\ Split(p) \in Seq(Seq(Tasks))
      /\ \A v : v \in ToSet(Split(p)) <=>
           \E k \in DOMAIN SplitEach(p) : v \in ToSet(SplitEach(p)[k])
      /\ Split(p) = << >> <=> \A k \in DOMAIN SplitEach(p) : SplitEach(p)[k] = << >>
  BY <1>1, FlattenElements DEF Split
<1>3. ASSUME NEW q \in DOMAIN Split(p), NEW t \in ToSet(Split(p)[q])
      PROVE  \E k \in DOMAIN p.waves : t \in ToSet(p.waves[k])
  BY SplitOrder
<1>4. ASSUME NEW k \in DOMAIN p.waves, NEW t \in ToSet(p.waves[k])
      PROVE  \E q \in DOMAIN Split(p) : t \in ToSet(Split(p)[q])
  <2>1. p.waves[k] \in Seq(Tasks) /\ SplitEach(p)[k] = SerialWaves(p, p.waves[k])
    BY <1>1
  <2>2. PICK j \in DOMAIN SerialWaves(p, p.waves[k]) :
          t \in ToSet(SerialWaves(p, p.waves[k])[j])
    BY <2>1, SerialProperties
  <2>3. SplitEach(p)[k][j] \in ToSet(SplitEach(p)[k])
    BY <2>1, <2>2 DEF ToSet
  <2>4. SplitEach(p)[k][j] \in ToSet(Split(p))
    BY <1>1, <1>2, <2>3
  <2>5. PICK q \in DOMAIN Split(p) : Split(p)[q] = SplitEach(p)[k][j]
    BY <2>4 DEF ToSet
  <2> QED
    BY <2>1, <2>2, <2>5
<1>5. TasksIn(Split(p)) = TasksIn(p.waves)
  BY <1>3, <1>4 DEF TasksIn
<1>6. ASSUME p.waves # << >>, \A k \in DOMAIN p.waves : p.waves[k] # << >>
      PROVE  Split(p) # << >>
  <2>1. Len(p.waves) # 0
    BY <1>6, EmptySeq
  <2>2. 1 \in DOMAIN p.waves
    BY <1>1, <2>1
  <2>3. SplitEach(p)[1] # << >>
    <3>1. p.waves[1] \in Seq(Tasks) /\ p.waves[1] # << >>
      BY <1>1, <1>6, <2>2
    <3>2. SerialWaves(p, p.waves[1]) # << >>
      BY <3>1, SerialProperties
    <3> QED
      BY <1>1, <2>2, <3>2
  <2> QED
    BY <1>1, <1>2, <2>2, <2>3
<1> QED
  BY <1>2, <1>5, <1>6

\* A plan that has no task twice is split into waves that have none twice.
LEMMA SplitInjective ==
  ASSUME NEW p, p.waves \in Seq(Seq(Tasks)), IsInjective(FlattenSeq(p.waves))
  PROVE  IsInjective(FlattenSeq(Split(p)))
<1> DEFINE ss == SplitEach(p)
           flat == Split(p)
<1>1. /\ ss \in Seq(Seq(Seq(Tasks))) /\ Len(ss) = Len(p.waves)
      /\ DOMAIN ss = DOMAIN p.waves /\ DOMAIN p.waves = 1..Len(p.waves)
      /\ Len(p.waves) \in Nat
      /\ \A k \in DOMAIN p.waves : /\ p.waves[k] \in Seq(Tasks)
                                   /\ ss[k] = SerialWaves(p, p.waves[k])
                                   /\ ss[k] \in Seq(Seq(Tasks))
  BY SplitEachType
<1>2. flat = FlattenSeq(ss)
  BY DEF Split
<1> HIDE DEF ss, flat
<1>3. /\ \A k \in DOMAIN p.waves : IsInjective(p.waves[k])
      /\ \A k, l \in DOMAIN p.waves :
           k # l => ToSet(p.waves[k]) \cap ToSet(p.waves[l]) = {}
  BY FlattenInjective
<1>4. flat \in Seq(Seq(Tasks)) /\ \E pos : Positions(ss, flat, pos)
  BY <1>1, <1>2, FlattenPositions
<1>5. PICK pos : Positions(ss, flat, pos)
  BY <1>4
<1>6. DOMAIN flat = 1..Len(flat) /\ \A k \in DOMAIN ss : DOMAIN ss[k] = 1..Len(ss[k])
  BY <1>1, <1>4, LenProperties
<1>7. \A q \in DOMAIN flat : \E k \in DOMAIN p.waves : \E i \in DOMAIN ss[k] :
        q = pos[k][i] /\ flat[q] = ss[k][i]
  <2> SUFFICES ASSUME NEW q \in DOMAIN flat
               PROVE  \E k \in DOMAIN p.waves : \E i \in DOMAIN ss[k] :
                        q = pos[k][i] /\ flat[q] = ss[k][i]
    OBVIOUS
  <2>1. PICK k \in 1..Len(ss) : \E i \in 1..Len(ss[k]) : q = pos[k][i]
    BY <1>5, <1>6 DEF Positions
  <2>2. PICK i \in 1..Len(ss[k]) : q = pos[k][i]
    BY <2>1
  <2>3. flat[q] = ss[k][i]
    BY <1>5, <2>2 DEF Positions
  <2>4. k \in DOMAIN p.waves /\ i \in DOMAIN ss[k]
    BY <1>1, <1>6
  <2> QED
    BY <2>2, <2>3, <2>4
<1>8. ASSUME NEW k \in DOMAIN p.waves
      PROVE  /\ \A i \in DOMAIN ss[k] :
                  IsInjective(ss[k][i]) /\ ToSet(ss[k][i]) \subseteq ToSet(p.waves[k])
             /\ \A i, j \in DOMAIN ss[k] :
                  i # j => ToSet(ss[k][i]) \cap ToSet(ss[k][j]) = {}
  <2>1. p.waves[k] \in Seq(Tasks) /\ ss[k] = SerialWaves(p, p.waves[k])
        /\ IsInjective(p.waves[k])
    BY <1>1, <1>3
  <2> QED
    BY <2>1, SerialProperties
<1>9. \A q \in DOMAIN flat : IsInjective(flat[q])
  BY <1>7, <1>8
<1>10. ASSUME NEW q \in DOMAIN flat, NEW r \in DOMAIN flat, q # r
       PROVE  ToSet(flat[q]) \cap ToSet(flat[r]) = {}
  <2>1. PICK k \in DOMAIN p.waves : \E i \in DOMAIN ss[k] :
          q = pos[k][i] /\ flat[q] = ss[k][i]
    BY <1>7
  <2>2. PICK i \in DOMAIN ss[k] : q = pos[k][i] /\ flat[q] = ss[k][i]
    BY <2>1
  <2>3. PICK l \in DOMAIN p.waves : \E j \in DOMAIN ss[l] :
          r = pos[l][j] /\ flat[r] = ss[l][j]
    BY <1>7
  <2>4. PICK j \in DOMAIN ss[l] : r = pos[l][j] /\ flat[r] = ss[l][j]
    BY <2>3
  <2>5. CASE k = l
    <3>1. i # j /\ j \in DOMAIN ss[k] /\ flat[r] = ss[k][j]
      BY <1>10, <2>2, <2>4, <2>5
    <3>2. ToSet(ss[k][i]) \cap ToSet(ss[k][j]) = {}
      BY <1>8, <3>1
    <3> QED
      BY <2>2, <3>1, <3>2
  <2>6. CASE k # l
    <3>1. ToSet(p.waves[k]) \cap ToSet(p.waves[l]) = {}
      BY <1>3, <2>6
    <3>2. ToSet(ss[k][i]) \subseteq ToSet(p.waves[k])
      BY <1>8
    <3>3. ToSet(ss[l][j]) \subseteq ToSet(p.waves[l])
      BY <1>8
    <3> QED
      BY <2>2, <2>4, <3>1, <3>2, <3>3
  <2> QED
    BY <2>5, <2>6
<1> QED
  BY <1>4, <1>9, <1>10, FlattenInjective DEF flat

\* How many tasks a plan has does not depend on how they are spread over waves.
LEMMA SameLength ==
  ASSUME NEW X, NEW a \in Seq(X), NEW b \in Seq(X), IsInjective(a), IsInjective(b),
         ToSet(a) = ToSet(b)
  PROVE  /\ Len(a) \in Nat /\ Len(b) \in Nat
         /\ Len(a) = 1 => Len(b) = 1
         /\ Len(a) >= 2 => Len(b) >= 2
<1>1. /\ Len(a) \in Nat /\ Len(b) \in Nat /\ DOMAIN a = 1..Len(a) /\ DOMAIN b = 1..Len(b)
      /\ \A i \in DOMAIN a : a[i] \in ToSet(a)
      /\ \A i \in DOMAIN b : b[i] \in ToSet(b)
      /\ \A e \in ToSet(a) : \E i \in DOMAIN a : a[i] = e
      /\ \A e \in ToSet(b) : \E i \in DOMAIN b : b[i] = e
  BY Elements
<1>2. ASSUME Len(a) = 1 PROVE Len(b) = 1
  <2>1. 1 \in DOMAIN a /\ \A i \in DOMAIN a : i = 1
    BY <1>1, <1>2
  <2>2. \A e \in ToSet(b) : e = a[1]
    BY <1>1, <2>1
  <2>3. \A i, j \in DOMAIN b : i = j
    BY <1>1, <2>2 DEF IsInjective
  <2>4. \E i \in DOMAIN b : TRUE
    BY <1>1, <2>1
  <2>5. ~(Len(b) >= 2)
    <3>1. Len(b) >= 2 => 1 \in DOMAIN b /\ 2 \in DOMAIN b
      BY <1>1
    <3> QED
      BY <2>3, <3>1
  <2>6. Len(b) # 0
    BY <1>1, <2>4
  <2> QED
    BY <1>1, <2>5, <2>6
<1>3. ASSUME Len(a) >= 2 PROVE Len(b) >= 2
  <2>1. 1 \in DOMAIN a /\ 2 \in DOMAIN a
    BY <1>1, <1>3
  <2>2. a[1] # a[2]
    BY <2>1 DEF IsInjective
  <2>3. PICK i \in DOMAIN b : b[i] = a[1]
    BY <1>1, <2>1
  <2>4. PICK j \in DOMAIN b : b[j] = a[2]
    BY <1>1, <2>1
  <2>5. i # j
    BY <2>2, <2>3, <2>4
  <2> QED
    BY <1>1, <2>5
<1> QED
  BY <1>1, <1>2, <1>3

\* The tasks before a wave, and no other, are those of the waves before it.
LEMMA PriorWaves ==
  ASSUME NEW waves \in Seq(Seq(Tasks)), NEW k \in DOMAIN waves
  PROVE  \A t : t \in PriorTasks(waves, k) <=>
           t \in Tasks /\ \E l \in DOMAIN waves : l < k /\ t \in ToSet(waves[l])
<1> DEFINE sub == SubSeq(waves, 1, k - 1)
<1>1. Len(waves) \in Nat /\ DOMAIN waves = 1..Len(waves)
  BY PartsType
<1>2. k \in 1..Len(waves) /\ k - 1 \in Int /\ 1 \in Int
  BY <1>1
<1>3. \A i \in 1..k - 1 : waves[i] \in Seq(Tasks)
  BY <1>1, <1>2, PartsType
<1>4. /\ sub \in Seq(Seq(Tasks))
      /\ Len(sub) = IF 1 <= k - 1 THEN (k - 1) - 1 + 1 ELSE 0
      /\ \A i \in 1..(k - 1) - 1 + 1 : sub[i] = waves[1 + i - 1]
  <2> DEFINE X == Seq(Tasks)
  <2> HIDE DEF X
  <2>1. \A i \in 1..k - 1 : waves[i] \in X
    BY <1>3 DEF X
  <2>2. /\ sub \in Seq(X)
        /\ Len(sub) = IF 1 <= k - 1 THEN (k - 1) - 1 + 1 ELSE 0
        /\ \A i \in 1..(k - 1) - 1 + 1 : sub[i] = waves[1 + i - 1]
    BY <1>2, <2>1, SubSeqProperties
  <2> QED
    BY <2>2 DEF X
<1> HIDE DEF sub
<1>5. /\ Len(sub) = k - 1
      /\ \A i \in 1..k - 1 : sub[i] = waves[i]
  <2>1. (k - 1) - 1 + 1 = k - 1 /\ \A i \in 1..k - 1 : 1 + i - 1 = i
    BY <1>2
  <2>2. \A i \in 1..k - 1 : sub[i] = waves[i]
    BY <1>4, <2>1
  <2> QED
    BY <1>2, <1>4, <2>2
<1>6. DOMAIN sub = 1..k - 1
  BY <1>4, <1>5, LenProperties
<1>7. \A l : l \in 1..k - 1 <=> l \in DOMAIN waves /\ l < k
  BY <1>1, <1>2
<1>8. PriorTasks(waves, k) = {t \in Tasks : \E i \in DOMAIN sub : t \in ToSet(sub[i])}
  BY DEF PriorTasks, TasksIn, sub
<1> QED
  BY <1>5, <1>6, <1>7, <1>8

\* When a valid plan is adjusted for a shared workspace, the second validate_plan
\* raises only for the id of a wave that has become too long: no wave is empty or
\* too wide, no task is lost or comes twice, and what a task needs is in the waves
\* before its own (engine.py _apply_workspace_policy).
THEOREM SplitStaysValid ==
  ASSUME NEW p \in Plan, ValidPlan(p), NEW shared \in BOOLEAN
  PROVE  /\ ForWorkspace(p, shared) \in Plan
         /\ ValidPlan(ForWorkspace(p, shared)) <=>
              (shared /\ ~NoWriter(p) => p.ids # "long")
         /\ TasksOf(ForWorkspace(p, shared)) = TasksOf(p)
<1> DEFINE new == [p EXCEPT !.serialized = TRUE,
                            !.ids = IF p.ids = "long" THEN "invalid" ELSE p.ids,
                            !.waves = Split(p)]
<1>1. p.waves \in Seq(Seq(Tasks)) /\ p.deps \in [Tasks -> SUBSET Tasks]
  BY DEF Plan
<1>2. ForWorkspace(p, shared) = IF ~shared \/ NoWriter(p) THEN p ELSE new
  BY DEF ForWorkspace, Split, SplitEach
<1>3. /\ p.waves # << >> /\ p.ids # "invalid" /\ IsInjective(FlattenSeq(p.waves))
      /\ \A k \in DOMAIN p.waves :
           /\ Len(p.waves[k]) \in 1..MaxWorkers
           /\ \A t \in ToSet(p.waves[k]) : p.deps[t] \subseteq PriorTasks(p.waves, k)
  BY DEF ValidPlan, ValidWaves
<1>4. /\ DOMAIN p.waves = 1..Len(p.waves)
      /\ \A k \in DOMAIN p.waves : p.waves[k] \in Seq(Tasks) /\ p.waves[k] # << >>
  <2>1. DOMAIN p.waves = 1..Len(p.waves) /\ \A k \in DOMAIN p.waves : p.waves[k] \in Seq(Tasks)
    BY <1>1, PartsType
  <2>2. \A k \in DOMAIN p.waves : Len(p.waves[k]) # 0
    BY <1>3
  <2> QED
    BY <2>1, <2>2, EmptySeq
<1>5. /\ Split(p) \in Seq(Seq(Tasks)) /\ Split(p) # << >>
      /\ TasksIn(Split(p)) = TasksIn(p.waves)
  BY <1>1, <1>3, <1>4, SplitTasks
<1>6. /\ new.waves = Split(p) /\ new.deps = p.deps /\ new.mode = p.mode
      /\ new.ultra = p.ultra /\ new \in Plan
      /\ new.ids = IF p.ids = "long" THEN "invalid" ELSE p.ids
  BY <1>1, <1>5 DEF Plan, Ids
<1>7. TasksOf(new) = TasksOf(p)
  BY <1>5, <1>6 DEF TasksOf
<1>8. IsInjective(FlattenSeq(Split(p)))
  BY <1>1, <1>3, SplitInjective
<1>9. ASSUME NEW q \in DOMAIN Split(p)
      PROVE  /\ Len(Split(p)[q]) \in 1..MaxWorkers
             /\ \A t \in ToSet(Split(p)[q]) : p.deps[t] \subseteq PriorTasks(Split(p), q)
  <2>1. PICK k \in DOMAIN p.waves :
           /\ Len(Split(p)[q]) \in 1..Len(p.waves[k])
           /\ ToSet(Split(p)[q]) \subseteq ToSet(p.waves[k])
           /\ \A l \in DOMAIN p.waves : l < k =>
                \A t \in ToSet(p.waves[l]) :
                  \E r \in DOMAIN Split(p) : r < q /\ t \in ToSet(Split(p)[r])
    BY <1>1, SplitOrder
  <2>2. Len(Split(p)[q]) \in 1..MaxWorkers
    <3>1. Len(p.waves[k]) \in 1..MaxWorkers /\ MaxWorkers \in Nat
      BY <1>3, MaxWorkersAssumption
    <3> QED
      BY <2>1, <3>1
  <2>3. PriorTasks(p.waves, k) \subseteq PriorTasks(Split(p), q)
    <3> SUFFICES ASSUME NEW d \in PriorTasks(p.waves, k)
                 PROVE  d \in PriorTasks(Split(p), q)
      OBVIOUS
    <3>1. d \in Tasks /\ \E l \in DOMAIN p.waves : l < k /\ d \in ToSet(p.waves[l])
      BY <1>1, PriorWaves
    <3>2. \E r \in DOMAIN Split(p) : r < q /\ d \in ToSet(Split(p)[r])
      BY <2>1, <3>1
    <3> QED
      BY <1>5, <3>1, <3>2, PriorWaves
  <2> QED
    BY <1>3, <2>1, <2>2, <2>3
<1>10. ValidWaves(new) <=> p.ids # "long"
  <2> HIDE DEF new
  <2> QED
    BY <1>3, <1>5, <1>6, <1>8, <1>9 DEF ValidWaves
<1>11. ValidMode(new)
  <2> DEFINE a == FlattenSeq(p.waves)
             b == FlattenSeq(Split(p))
  <2>1. /\ a \in Seq(Tasks) /\ b \in Seq(Tasks)
        /\ \A e : e \in ToSet(a) <=> \E k \in DOMAIN p.waves : e \in ToSet(p.waves[k])
        /\ \A e : e \in ToSet(b) <=> \E k \in DOMAIN Split(p) : e \in ToSet(Split(p)[k])
    BY <1>1, <1>5, FlattenElements
  <2> HIDE DEF a, b
  <2>2. ToSet(a) \subseteq Tasks /\ ToSet(b) \subseteq Tasks
    BY <2>1, Elements
  <2>3. ToSet(a) = TasksIn(p.waves) /\ ToSet(b) = TasksIn(Split(p))
    BY <2>1, <2>2 DEF TasksIn
  <2>4. IsInjective(a) /\ IsInjective(b)
    BY <1>3, <1>8 DEF a, b
  <2>5. /\ Len(a) = 1 => Len(b) = 1
        /\ Len(a) >= 2 => Len(b) >= 2
    BY <1>5, <2>1, <2>3, <2>4, SameLength
  <2>6. UltraTasks(new) = UltraTasks(p)
    BY <1>6, <1>7 DEF UltraTasks
  <2>7. p.mode \in {"direct", "orchestrated", "native-ultra"}
    BY DEF Plan, Modes
  <2>8. /\ p.mode = "direct" => Len(a) = 1 /\ UltraTasks(p) = {}
        /\ p.mode = "orchestrated" => Len(a) >= 2 /\ UltraTasks(p) = {}
        /\ p.mode = "native-ultra" => Len(a) = 1 /\ UltraTasks(p) # {}
    BY <2>7 DEF ValidPlan, ValidMode, a
  <2>9. ValidMode(new) <=>
          CASE p.mode = "direct"       -> Len(b) = 1 /\ UltraTasks(p) = {}
            [] p.mode = "orchestrated" -> Len(b) >= 2 /\ UltraTasks(p) = {}
            [] p.mode = "native-ultra" -> Len(b) = 1 /\ UltraTasks(p) # {}
    BY <1>6, <2>6 DEF ValidMode, b
  <2> HIDE DEF new
  <2> QED
    BY <2>5, <2>7, <2>8, <2>9
<1> QED
  BY <1>2, <1>6, <1>7, <1>10, <1>11 DEF ValidPlan

\* In a plan that has been split no wave has two tasks that write
\* (_apply_workspace_policy, engine.py).
LEMMA SplitApart ==
  ASSUME NEW p, p.waves \in Seq(Seq(Tasks)), NEW q \in DOMAIN Split(p)
  PROVE  \A t, u \in ToSet(Split(p)[q]) : t \in p.writes => t = u
BY SplitOrder
=============================================================================
