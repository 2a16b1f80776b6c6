-------------------------- MODULE IperfTimer_proofs --------------------------
(***************************************************************************)
(* Proofs about the timers, for any number of streams and any times: the   *)
(* lists stay lists through every call, tmr_run's own included, the        *)
(* pointers of a test point at its scheduled timers, and none is left when *)
(* the test is over.                                                       *)
(*                                                                         *)
(* First what the calls of timer.c do to the two lists, which are paths    *)
(* along the next pointers; then the test, to which the lists are sets.    *)
(***************************************************************************)
EXTENDS IperfTimer, FiniteSetTheorems, FunctionTheorems, WellFoundedInduction, TLAPS

-----------------------------------------------------------------------------
(* Induction and walks. *)

\* A set of natural numbers has a least element.
LEMMA LeastNumber ==
    ASSUME NEW S, S \subseteq Nat, S # {}
    PROVE  \E n \in S : \A m \in S : n <= m
<1> DEFINE R == OpToRel(<, Nat)
<1>1. IsWellFoundedOn(R, Nat)
  BY NatLessThanWellFounded, Zenon
<1>2. \A m, n \in Nat : m < n => <<m, n>> \in R
  BY DEF OpToRel
<1> HIDE DEF R
<1>3. \E n \in S : \A m \in S : ~ (<<m, n>> \in R)
  BY <1>1, WFMin, Zenon
<1>4. PICK n \in S : \A m \in S : ~ (<<m, n>> \in R)
  BY <1>3
<1>5. ASSUME NEW m \in S
      PROVE  n <= m
  <2>1. m \in Nat /\ n \in Nat /\ ~(m < n)
    BY <1>2, <1>4
  <2> QED
    BY <2>1
<1> QED
  BY <1>5

\* Induction over the natural numbers, for a set instead of a predicate.
LEMMA SetInduction ==
    ASSUME NEW P, 0 \in P, \A n \in Nat : n \in P => n + 1 \in P
    PROVE  \A n \in Nat : n \in P
<1> SUFFICES ASSUME Nat \ P # {} PROVE FALSE
  OBVIOUS
<1>1. PICK n \in Nat \ P : \A m \in Nat \ P : n <= m
  BY LeastNumber
<1>2. n # 0 /\ n - 1 \in Nat /\ (n - 1) + 1 = n /\ ~ (n <= n - 1)
  BY <1>1
<1> QED
  BY <1>1, <1>2

N == Cardinality(Slots)

Ptr == Timers \cup {NULL}

\* The timers are numbers, and there are as many as there are slots.
LEMMA TimerFacts ==
    /\ N \in Nat /\ Timers = 1..N /\ NULL \notin Timers
    /\ IsFiniteSet(Slots) /\ IsFiniteSet(Timers) /\ Cardinality(Timers) = N
    /\ \A t \in Timers : t \in Nat
<1>1. IsFiniteSet({"timer", "stats", "reporter", "omit"})
  <2>1. IsFiniteSet({"timer"}) /\ IsFiniteSet({"stats"}) /\ IsFiniteSet({"reporter"})
        /\ IsFiniteSet({"omit"})
    BY FS_Singleton
  <2>2. IsFiniteSet({"timer"} \cup {"stats"}) /\ IsFiniteSet({"reporter"} \cup {"omit"})
    BY <2>1, FS_Union
  <2>3. IsFiniteSet(({"timer"} \cup {"stats"}) \cup ({"reporter"} \cup {"omit"}))
    BY <2>2, FS_Union
  <2>4. ({"timer"} \cup {"stats"}) \cup ({"reporter"} \cup {"omit"})
            = {"timer", "stats", "reporter", "omit"}
    OBVIOUS
  <2> QED
    BY <2>3, <2>4
<1>2. IsFiniteSet(Slots)
  BY <1>1, FS_Union, TimerAssumption DEF Slots
<1>3. N \in Nat
  BY <1>2, FS_CardinalityType DEF N
<1>4. Timers = 1..N
  BY DEF Timers, N
<1>5. IsFiniteSet(Timers) /\ Cardinality(Timers) = N
  BY <1>3, <1>4, FS_Interval
<1>6. NULL \notin Timers
  BY TimerAssumption DEF Timers
<1> QED
  BY <1>2, <1>3, <1>4, <1>5, <1>6

\* One step along the pointers.
StepOf(next) == [t \in Timers \cup {NULL} |-> IF t = NULL THEN NULL ELSE next[t]]

Steps(g, next, first, n) ==
    g = [i \in 0..n |-> IF i = 0 THEN first ELSE StepOf(next)[g[i - 1]]]

\* The entries of a walk.
LEMMA StepsAt ==
    ASSUME NEW g, NEW next, NEW first, NEW n \in Nat, Steps(g, next, first, n), NEW i \in 0..n
    PROVE  g[i] = IF i = 0 THEN first ELSE StepOf(next)[g[i - 1]]
BY Zenon DEF Steps

\* There is a walk of any length.
LEMMA StepsExist ==
    ASSUME NEW next, NEW first
    PROVE  \A n \in Nat : \E g : Steps(g, next, first, n)
<1> DEFINE P == {n \in Nat : \E g : Steps(g, next, first, n)}
<1>1. 0 \in P
  <2> DEFINE g == [i \in 0..0 |-> first]
  <2>1. Steps(g, next, first, 0)
    BY DEF Steps
  <2> QED
    BY <2>1
<1>2. ASSUME NEW n \in Nat, n \in P
      PROVE  n + 1 \in P
  <2>1. PICK g : Steps(g, next, first, n)
    BY <1>2
  <2> DEFINE f == [i \in 0..n + 1 |-> IF i = 0 THEN first ELSE StepOf(next)[g[i - 1]]]
  <2>2. ASSUME NEW i \in 0..n
        PROVE  f[i] = g[i]
    <3>1. g[i] = IF i = 0 THEN first ELSE StepOf(next)[g[i - 1]]
      BY <2>1, StepsAt
    <3> QED
      BY <3>1
  <2>3. ASSUME NEW i \in 0..n + 1
        PROVE  f[i] = IF i = 0 THEN first ELSE StepOf(next)[f[i - 1]]
    <3>1. CASE i = 0
      BY <3>1
    <3>2. CASE i # 0
      <4>1. i - 1 \in 0..n
        BY <3>2
      <4>2. f[i - 1] = g[i - 1]
        BY <2>2, <4>1
      <4> QED
        BY <3>2, <4>2
    <3> QED
      BY <3>1, <3>2
  <2>4. f = [i \in 0..n + 1 |-> IF i = 0 THEN first ELSE StepOf(next)[f[i - 1]]]
    BY <2>3
  <2>5. Steps(f, next, first, n + 1)
    BY <2>4 DEF Steps
  <2> QED
    BY <2>5
<1> HIDE DEF P
<1>3. \A n \in Nat : n \in P
  BY <1>1, <1>2, SetInduction
<1> QED
  BY <1>3 DEF P

\* Walk does what its definition says.
LEMMA WalkIs ==
    ASSUME NEW next, NEW first
    PROVE  Steps(Walk(next, first), next, first, N)
<1> DEFINE W == CHOOSE g : Steps(g, next, first, N)
<1>1. Cardinality(Timers) = N /\ N \in Nat
  BY TimerFacts
<1>2. Walk(next, first) = CHOOSE g : Steps(g, next, first, Cardinality(Timers))
  BY Zenon DEF Walk, Steps, StepOf
<1>3. \E g : Steps(g, next, first, N)
  BY <1>1, StepsExist
<1>4. Steps(W, next, first, N)
  BY <1>3, Zenon
<1> QED
  BY <1>1, <1>2, <1>4, Zenon

\* The path p of k timers that starts at first and ends with NULL.
Path(next, first, k, p) ==
    /\ k \in Nat /\ p \in [0..k -> Ptr]
    /\ p[0] = first /\ p[k] = NULL
    /\ \A i \in 0..k - 1 : p[i] \in Timers /\ next[p[i]] = p[i + 1]
    /\ \A i, j \in 0..k - 1 : p[i] = p[j] => i = j

On(k, p) == {p[i] : i \in 0..k - 1}

\* A path is no longer than there are timers.
LEMMA PathShort ==
    ASSUME NEW next, NEW first, NEW k, NEW p, Path(next, first, k, p)
    PROVE  k <= N
<1> DEFINE q == [i \in 0..k - 1 |-> p[i]]
<1>1. q \in Injection(0..k - 1, Timers)
  BY DEF Path, Injection, IsInjective
<1>2. k \in Nat /\ Cardinality(0..k - 1) = k
  BY FS_Interval DEF Path
<1> HIDE DEF q
<1> QED
  BY <1>1, <1>2, FS_Injection, TimerFacts

\* A walk along a path finds the path, and then NULL.
LEMMA WalkPath ==
    ASSUME NEW next, NEW first, NEW k, NEW p, Path(next, first, k, p)
    PROVE  /\ DOMAIN Walk(next, first) = 0..N
           /\ \A n \in 0..N : Walk(next, first)[n] = IF n <= k THEN p[n] ELSE NULL
           /\ OnList(next, first) = On(k, p)
<1> DEFINE at == Walk(next, first)
           P == {n \in Nat : n <= N => at[n] = IF n <= k THEN p[n] ELSE NULL}
<1>1. Steps(at, next, first, N) /\ N \in Nat /\ NULL \notin Timers /\ k \in Nat /\ k <= N
  BY WalkIs, TimerFacts, PathShort DEF Path
<1>2. DOMAIN at = 0..N
  <2> HIDE DEF at
  <2> QED
    BY <1>1 DEF Steps
<1> HIDE DEF at
<1>3. 0 \in P
  <2>1. at[0] = first
    BY <1>1, StepsAt
  <2> QED
    BY <1>1, <2>1 DEF Path
<1>4. ASSUME NEW n \in Nat, n \in P
      PROVE  n + 1 \in P
  <2> SUFFICES ASSUME n + 1 <= N
               PROVE  at[n + 1] = IF n + 1 <= k THEN p[n + 1] ELSE NULL
    OBVIOUS
  <2>1. n + 1 \in 0..N /\ n + 1 # 0 /\ (n + 1) - 1 = n
    BY <1>1
  <2>2. at[n + 1] = StepOf(next)[at[n]]
    <3>1. at[n + 1] = IF n + 1 = 0 THEN first ELSE StepOf(next)[at[(n + 1) - 1]]
      BY <1>1, <2>1, StepsAt
    <3> QED
      BY <2>1, <3>1
  <2>3. CASE n < k
    <3>1. at[n] = p[n] /\ p[n] \in Timers /\ next[p[n]] = p[n + 1]
      BY <1>1, <1>4, <2>1, <2>3 DEF Path
    <3> QED
      BY <1>1, <2>2, <2>3, <3>1 DEF StepOf
  <2>4. CASE ~(n < k)
    <3>1. at[n] = NULL
      BY <1>1, <1>4, <2>1, <2>4 DEF Path
    <3> QED
      BY <1>1, <2>2, <2>4, <3>1 DEF StepOf
  <2> QED
    BY <2>3, <2>4
<1> HIDE DEF P
<1>5. \A n \in Nat : n \in P
  BY <1>3, <1>4, SetInduction
<1>6. \A n \in 0..N : at[n] = IF n <= k THEN p[n] ELSE NULL
  BY <1>1, <1>5 DEF P
<1>7. OnList(next, first) = {at[n] : n \in 0..N} \ {NULL}
  BY <1>2 DEF OnList, at
<1>8. {at[n] : n \in 0..N} \ {NULL} = On(k, p)
  <2>1. ASSUME NEW n \in 0..N, at[n] # NULL
        PROVE  at[n] \in On(k, p)
    <3>1. n <= k /\ at[n] = p[n]
      BY <1>6, <2>1
    <3>2. n # k
      BY <2>1, <3>1 DEF Path
    <3>3. n \in 0..k - 1
      BY <1>1, <3>1, <3>2
    <3> QED
      BY <3>1, <3>3 DEF On
  <2>2. ASSUME NEW n \in 0..k - 1
        PROVE  n \in 0..N /\ p[n] = at[n] /\ at[n] # NULL
    BY <1>1, <1>6 DEF Path
  <2> QED
    BY <2>1, <2>2 DEF On
<1> QED
  BY <1>2, <1>6, <1>7, <1>8 DEF at

-----------------------------------------------------------------------------
(* The two lists. *)

\* The scheduled timers p and the free timers f: prev leads back along p.
Linked(next, prev, head, free, k, p, m, f) ==
    /\ Path(next, head, k, p)
    /\ Path(next, free, m, f)
    /\ On(k, p) \cap On(m, f) = {}
    /\ \A i \in 0..k - 1 : prev[p[i]] = IF i = 0 THEN NULL ELSE p[i - 1]

Sorted(time, k, p) == \A i, j \in 0..k - 1 : i < j => time[p[i]] <= time[p[j]]

\* A path only depends on the pointers of its timers.
LEMMA PathKept ==
    ASSUME NEW next, NEW first, NEW k, NEW p, Path(next, first, k, p),
           NEW new, \A t \in On(k, p) : new[t] = next[t]
    PROVE  Path(new, first, k, p)
<1>1. \A i \in 0..k - 1 : p[i] \in On(k, p)
  BY DEF On
<1> QED
  BY <1>1 DEF Path

\* The list without its e-th timer.
Without(k, p, e) == [j \in 0..k - 1 |-> IF j < e THEN p[j] ELSE p[j + 1]]

\* Its timers.
LEMMA OnWithout ==
    ASSUME NEW next, NEW first, NEW k, NEW p, Path(next, first, k, p), NEW e \in 0..k - 1
    PROVE  On(k - 1, Without(k, p, e)) = On(k, p) \ {p[e]}
<1> DEFINE q == Without(k, p, e)
<1>1. k \in Nat
  BY DEF Path
<1>2. ASSUME NEW i \in 0..(k - 1) - 1
      PROVE  q[i] \in On(k, p) \ {p[e]}
  <2>1. CASE i < e
    <3>1. i \in 0..k - 1 /\ q[i] = p[i] /\ i # e
      BY <1>1, <2>1 DEF Without
    <3> QED
      BY <3>1 DEF Path, On
  <2>2. CASE ~(i < e)
    <3>1. i \in 0..k - 1 /\ i + 1 \in 0..k - 1 /\ i + 1 # e
      BY <1>1, <2>2
    <3>2. q[i] = p[i + 1]
      BY <2>2, <3>1 DEF Without
    <3> QED
      BY <3>1, <3>2 DEF Path, On
  <2> QED
    BY <2>1, <2>2
<1>3. ASSUME NEW i \in 0..k - 1, i # e
      PROVE  \E j \in 0..(k - 1) - 1 : q[j] = p[i]
  <2>1. CASE i < e
    <3>1. i \in 0..(k - 1) - 1 /\ q[i] = p[i]
      BY <1>1, <2>1 DEF Without
    <3> QED
      BY <3>1
  <2>2. CASE ~(i < e)
    <3>1. i - 1 \in 0..(k - 1) - 1 /\ i - 1 \in 0..k - 1 /\ ~(i - 1 < e) /\ (i - 1) + 1 = i
      BY <1>1, <1>3, <2>2
    <3>2. q[i - 1] = p[i]
      BY <3>1 DEF Without
    <3> QED
      BY <3>1, <3>2
  <2> QED
    BY <2>1, <2>2
<1> HIDE DEF q
<1>4. On(k - 1, q) \subseteq On(k, p) \ {p[e]}
  BY <1>2 DEF On
<1>5. On(k, p) \ {p[e]} \subseteq On(k - 1, q)
  BY <1>3 DEF On
<1> QED
  BY <1>4, <1>5 DEF q

\* list_remove: the pointers around a timer of the list.
LEMMA RemoveLinked ==
    ASSUME NEW next \in [Timers -> Ptr], NEW prev \in [Timers -> Ptr], NEW head, NEW free,
           NEW k, NEW p, NEW m, NEW f, Linked(next, prev, head, free, k, p, m, f),
           NEW e \in 0..k - 1,
           NEW next2, NEW prev2, NEW head2,
           next2 = [x \in Timers |-> IF x = prev[p[e]] THEN next[p[e]] ELSE next[x]],
           prev2 = [x \in Timers |-> IF x = next[p[e]] THEN prev[p[e]] ELSE prev[x]],
           head2 = IF prev[p[e]] = NULL THEN next[p[e]] ELSE head
    PROVE  /\ Linked(next2, prev2, head2, free, k - 1, Without(k, p, e), m, f)
           /\ On(k - 1, Without(k, p, e)) = On(k, p) \ {p[e]}
<1> DEFINE q == Without(k, p, e)
<1>1. Path(next, head, k, p) /\ k \in Nat /\ p \in [0..k -> Ptr] /\ k - 1 \in Nat
  BY DEF Linked, Path
<1>2. NULL \notin Timers
  BY TimerFacts
<1>3. /\ next[p[e]] = p[e + 1] /\ e + 1 \in 0..k
      /\ prev[p[e]] = IF e = 0 THEN NULL ELSE p[e - 1]
      /\ e # 0 => e - 1 \in 0..k - 1
  BY <1>1 DEF Linked, Path
<1>4. \A i \in 0..k - 1 : p[i] \in Timers /\ next[p[i]] = p[i + 1]
  BY <1>1 DEF Path
<1>5. \A i, j \in 0..k - 1 : p[i] = p[j] => i = j
  BY <1>1 DEF Path
<1>6. \A i \in 0..k - 1 : prev[p[i]] = IF i = 0 THEN NULL ELSE p[i - 1]
  BY DEF Linked
<1>7. p[k] = NULL /\ p[0] = head
  BY <1>1 DEF Path
<1>8. \A i \in 0..k - 1 : q[i] = IF i < e THEN p[i] ELSE p[i + 1]
  BY DEF Without
<1>9. q \in [0..k - 1 -> Ptr]
  <2>1. \A i \in 0..k - 1 : i \in 0..k /\ i + 1 \in 0..k
    BY <1>1
  <2> QED
    BY <1>1, <2>1 DEF Without
<1>10. q[0] = head2
  <2>1. 0 \in 0..k - 1
    BY <1>1
  <2>2. CASE e = 0
    BY <1>3, <1>8, <2>1, <2>2
  <2>3. CASE e # 0
    <3>1. prev[p[e]] \in Timers
      BY <1>3, <1>4, <2>3
    <3> QED
      BY <1>2, <1>7, <1>8, <2>1, <2>3, <3>1
  <2> QED
    BY <2>2, <2>3
<1>11. q[k - 1] = NULL
  <2>1. k - 1 \in 0..k - 1 /\ ~(k - 1 < e) /\ (k - 1) + 1 = k
    BY <1>1
  <2> QED
    BY <1>7, <1>8, <2>1
<1>12. \A i \in 0..(k - 1) - 1 : i \in 0..k - 1 /\ i + 1 \in 0..k - 1
  BY <1>1
<1>13. ASSUME NEW i \in 0..(k - 1) - 1
       PROVE  q[i] \in Timers /\ next2[q[i]] = q[i + 1]
  <2>1. q[i] \in Timers
    BY <1>4, <1>8, <1>12
  <2>2. CASE i + 1 < e
    <3>1. i < e /\ i \in 0..k - 1 /\ i + 1 \in 0..k - 1 /\ e # 0 /\ i # e - 1 /\ e - 1 \in 0..k - 1
      BY <1>1, <1>12, <2>2
    <3>2. q[i] = p[i] /\ q[i + 1] = p[i + 1]
      BY <1>8, <2>2, <3>1
    <3>3. p[i] # prev[p[e]]
      BY <1>3, <1>5, <3>1
    <3> QED
      BY <1>4, <2>1, <3>1, <3>2, <3>3
  <2>3. CASE i + 1 = e
    <3>1. i < e /\ i \in 0..k - 1 /\ i + 1 \in 0..k - 1 /\ e # 0 /\ i = e - 1 /\ ~(i + 1 < e)
      BY <1>12, <2>3
    <3>2. q[i] = p[e - 1] /\ q[i + 1] = p[e + 1]
      BY <1>8, <2>3, <3>1
    <3>3. q[i] = prev[p[e]]
      BY <1>3, <3>1, <3>2
    <3> QED
      BY <1>3, <2>1, <3>2, <3>3
  <2>4. CASE i + 1 > e
    <3>1. ~(i < e) /\ ~(i + 1 < e) /\ i + 1 \in 0..k - 1 /\ i + 1 # e - 1 /\ i \in 0..k - 1
      BY <1>12, <2>4
    <3>2. q[i] = p[i + 1] /\ q[i + 1] = p[(i + 1) + 1]
      BY <1>8, <3>1
    <3>3. p[i + 1] # prev[p[e]]
      BY <1>2, <1>3, <1>4, <1>5, <3>1
    <3> QED
      BY <1>4, <2>1, <3>1, <3>2, <3>3
  <2> QED
    BY <1>12, <2>2, <2>3, <2>4
<1>14. ASSUME NEW i \in 0..(k - 1) - 1, NEW j \in 0..(k - 1) - 1, q[i] = q[j]
       PROVE  i = j
  <2>1. q[i] = IF i < e THEN p[i] ELSE p[i + 1]
    BY <1>8, <1>12
  <2>2. q[j] = IF j < e THEN p[j] ELSE p[j + 1]
    BY <1>8, <1>12
  <2>3. i \in 0..k - 1 /\ i + 1 \in 0..k - 1 /\ j \in 0..k - 1 /\ j + 1 \in 0..k - 1
    BY <1>12
  <2>4. i \in Nat /\ j \in Nat /\ e \in Nat
    OBVIOUS
  <2>5. CASE i < e /\ j < e
    BY <1>5, <1>14, <2>1, <2>2, <2>3, <2>5
  <2>6. CASE i < e /\ ~(j < e)
    <3>1. i = j + 1
      BY <1>5, <1>14, <2>1, <2>2, <2>3, <2>6
    <3> QED
      BY <2>4, <2>6, <3>1
  <2>7. CASE ~(i < e) /\ j < e
    <3>1. i + 1 = j
      BY <1>5, <1>14, <2>1, <2>2, <2>3, <2>7
    <3> QED
      BY <2>4, <2>7, <3>1
  <2>8. CASE ~(i < e) /\ ~(j < e)
    <3>1. i + 1 = j + 1
      BY <1>5, <1>14, <2>1, <2>2, <2>3, <2>8
    <3> QED
      BY <2>4, <3>1
  <2> QED
    BY <2>5, <2>6, <2>7, <2>8
<1>15. ASSUME NEW i \in 0..(k - 1) - 1
       PROVE  prev2[q[i]] = IF i = 0 THEN NULL ELSE q[i - 1]
  <2>0. q[i] \in Timers /\ i \in 0..k - 1 /\ i + 1 \in 0..k - 1 /\ i \in Nat /\ e \in Nat
    BY <1>12, <1>13
  <2>1. CASE i < e
    <3>1. i # e + 1 /\ (i # 0 => i - 1 \in 0..k - 1 /\ i - 1 < e) /\ q[i] = p[i]
      BY <1>1, <1>8, <2>0, <2>1
    <3>2. p[i] # next[p[e]]
      <4>1. CASE e + 1 = k
        BY <1>2, <1>3, <1>7, <2>0, <3>1, <4>1
      <4>2. CASE e + 1 # k
        <5>1. e + 1 \in 0..k - 1
          BY <1>1, <4>2
        <5> QED
          BY <1>3, <1>5, <2>0, <3>1, <5>1
      <4> QED
        BY <4>1, <4>2
    <3>3. prev2[q[i]] = prev[p[i]]
      BY <2>0, <3>1, <3>2
    <3> QED
      BY <1>6, <1>8, <2>0, <3>1, <3>3
  <2>2. CASE i = e
    <3>1. q[i] = p[e + 1]
      BY <1>8, <2>0, <2>2
    <3>2. prev2[q[i]] = prev[p[e]]
      BY <1>3, <2>0, <3>1
    <3>3. i # 0 => i - 1 \in 0..k - 1 /\ i - 1 < e
      BY <1>1, <2>0, <2>2
    <3> QED
      BY <1>3, <1>8, <2>2, <3>2, <3>3
  <2>3. CASE i > e
    <3>1. ~(i < e) /\ i + 1 # e + 1 /\ i # 0 /\ i - 1 \in 0..k - 1 /\ ~(i - 1 < e) /\ (i - 1) + 1 = i
          /\ i + 1 # 0 /\ (i + 1) - 1 = i
      BY <1>1, <2>0, <2>3
    <3>2. q[i] = p[i + 1] /\ q[i - 1] = p[i]
      BY <1>8, <2>0, <3>1
    <3>3. p[i + 1] # next[p[e]]
      <4>1. CASE e + 1 = k
        BY <1>2, <1>3, <1>7, <2>0, <3>2, <4>1
      <4>2. CASE e + 1 # k
        <5>1. e + 1 \in 0..k - 1
          BY <1>1, <4>2
        <5> QED
          BY <1>3, <1>5, <2>0, <3>1, <5>1
      <4> QED
        BY <4>1, <4>2
    <3>4. prev2[q[i]] = prev[p[i + 1]]
      BY <2>0, <3>2, <3>3
    <3>5. prev[p[i + 1]] = p[i]
      BY <1>6, <2>0, <3>1
    <3> QED
      BY <3>1, <3>2, <3>4, <3>5
  <2> QED
    BY <2>0, <2>1, <2>2, <2>3
<1> HIDE DEF q
<1>16. Path(next2, head2, k - 1, q)
  BY <1>1, <1>9, <1>10, <1>11, <1>13, <1>14 DEF Path
<1>17. On(k - 1, q) = On(k, p) \ {p[e]}
  BY <1>1, OnWithout DEF q
<1>18. Path(next2, free, m, f)
  <2>1. Path(next, free, m, f) /\ On(k, p) \cap On(m, f) = {}
    BY DEF Linked
  <2>2. ASSUME NEW t \in On(m, f)
        PROVE  next2[t] = next[t]
    <3>1. t \in Timers
      BY <2>1 DEF Path, On
    <3>2. t # prev[p[e]]
      BY <1>2, <1>3, <2>1, <3>1 DEF On
    <3> QED
      BY <3>1, <3>2
  <2> QED
    BY <2>1, <2>2, PathKept
<1> QED
  BY <1>15, <1>16, <1>17, <1>18 DEF Linked, q

\* The list with t before its n-th timer.
With(k, p, n, t) == [j \in 0..k + 1 |-> IF j < n THEN p[j] ELSE IF j = n THEN t ELSE p[j - 1]]

\* Its timers.
LEMMA OnWith ==
    ASSUME NEW k \in Nat, NEW p, NEW n \in 0..k, NEW t
    PROVE  On(k + 1, With(k, p, n, t)) = On(k, p) \cup {t}
<1> DEFINE q == With(k, p, n, t)
<1>1. ASSUME NEW i \in 0..(k + 1) - 1
      PROVE  q[i] \in On(k, p) \cup {t}
  <2>1. CASE i < n
    <3>1. i \in 0..k - 1 /\ q[i] = p[i]
      BY <2>1 DEF With
    <3> QED
      BY <3>1 DEF On
  <2>2. CASE i = n
    BY <2>2 DEF With
  <2>3. CASE i > n
    <3>1. i - 1 \in 0..k - 1 /\ q[i] = p[i - 1]
      BY <2>3 DEF With
    <3> QED
      BY <3>1 DEF On
  <2> QED
    BY <2>1, <2>2, <2>3
<1>2. ASSUME NEW i \in 0..k - 1
      PROVE  \E j \in 0..(k + 1) - 1 : q[j] = p[i]
  <2>1. CASE i < n
    <3>1. i \in 0..(k + 1) - 1 /\ q[i] = p[i]
      BY <2>1 DEF With
    <3> QED
      BY <3>1
  <2>2. CASE ~(i < n)
    <3>1. i + 1 \in 0..(k + 1) - 1 /\ i + 1 \in 0..k + 1 /\ ~(i + 1 < n) /\ i + 1 # n /\ (i + 1) - 1 = i
      BY <2>2
    <3>2. q[i + 1] = p[i]
      BY <3>1 DEF With
    <3> QED
      BY <3>1, <3>2
  <2> QED
    BY <2>1, <2>2
<1>3. n \in 0..(k + 1) - 1 /\ q[n] = t
  BY DEF With
<1> HIDE DEF q
<1>4. On(k + 1, q) \subseteq On(k, p) \cup {t}
  BY <1>1 DEF On
<1>5. On(k, p) \cup {t} \subseteq On(k + 1, q)
  BY <1>2, <1>3 DEF On
<1> QED
  BY <1>4, <1>5 DEF q

\* list_add: the pointers around a new timer.
LEMMA AddLinked ==
    ASSUME NEW next \in [Timers -> Ptr], NEW prev \in [Timers -> Ptr], NEW head, NEW free,
           NEW k, NEW p, NEW m, NEW f, Linked(next, prev, head, free, k, p, m, f),
           NEW n \in 0..k, NEW t \in Timers, t \notin On(k, p), t \notin On(m, f),
           NEW b, b = IF n = 0 THEN NULL ELSE p[n - 1],
           NEW next2, NEW prev2, NEW head2,
           next2 = [x \in Timers |-> IF x = t THEN p[n] ELSE IF x = b THEN t ELSE next[x]],
           prev2 = [x \in Timers |-> IF x = t THEN b ELSE IF x = p[n] THEN t ELSE prev[x]],
           head2 = IF b = NULL THEN t ELSE head
    PROVE  /\ Linked(next2, prev2, head2, free, k + 1, With(k, p, n, t), m, f)
           /\ On(k + 1, With(k, p, n, t)) = On(k, p) \cup {t}
<1> DEFINE q == With(k, p, n, t)
<1>1. Path(next, head, k, p) /\ k \in Nat /\ p \in [0..k -> Ptr] /\ k + 1 \in Nat
  BY DEF Linked, Path
<1>2. NULL \notin Timers
  BY TimerFacts
<1>3. \A i \in 0..k - 1 : p[i] \in Timers /\ next[p[i]] = p[i + 1]
  BY <1>1 DEF Path
<1>4. \A i, j \in 0..k - 1 : p[i] = p[j] => i = j
  BY <1>1 DEF Path
<1>5. \A i \in 0..k - 1 : prev[p[i]] = IF i = 0 THEN NULL ELSE p[i - 1]
  BY DEF Linked
<1>6. p[k] = NULL /\ p[0] = head
  BY <1>1 DEF Path
<1>7. \A i \in 0..k - 1 : p[i] # t
  BY DEF On
<1>8. \A i \in 0..k + 1 : q[i] = IF i < n THEN p[i] ELSE IF i = n THEN t ELSE p[i - 1]
  BY DEF With
<1>9. n # 0 => n - 1 \in 0..k - 1 /\ b = p[n - 1]
  BY <1>1
<1>10. \A i \in 0..k - 1 : p[i] = b => n # 0 /\ i = n - 1
  BY <1>2, <1>3, <1>4, <1>9
<1>11. \A i \in 0..k - 1 : p[i] = p[n] => i = n
  <2>1. CASE n = k
    BY <1>2, <1>3, <1>6, <2>1
  <2>2. CASE n # k
    <3>1. n \in 0..k - 1
      BY <1>1, <2>2
    <3> QED
      BY <1>4, <3>1
  <2> QED
    BY <2>1, <2>2
<1>12. q \in [0..k + 1 -> Ptr]
  <2>1. \A i \in 0..k + 1 : /\ i < n => i \in 0..k
                            /\ i > n => i - 1 \in 0..k
                            /\ i < n \/ i = n \/ i > n
    BY <1>1
  <2>2. t \in Ptr
    BY DEF Ptr
  <2>3. \A i \in 0..k + 1 : q[i] \in Ptr
    BY <1>1, <1>8, <2>1, <2>2
  <2> QED
    BY <2>3 DEF With
<1>13. q[0] = head2 /\ q[k + 1] = NULL
  <2>1. 0 \in 0..k + 1 /\ k + 1 \in 0..k + 1 /\ ~(k + 1 < n) /\ k + 1 # n /\ (k + 1) - 1 = k
    BY <1>1
  <2>2. q[0] = IF n = 0 THEN t ELSE p[0]
    BY <1>8, <2>1
  <2>3. b = NULL <=> n = 0
    BY <1>2, <1>3, <1>9
  <2> QED
    BY <1>6, <1>8, <2>1, <2>2, <2>3
<1>14. ASSUME NEW i \in 0..(k + 1) - 1
       PROVE  q[i] \in Timers /\ next2[q[i]] = q[i + 1]
  <2>0. i \in 0..k + 1 /\ i + 1 \in 0..k + 1 /\ i \in Nat /\ n \in Nat /\ (i + 1) - 1 = i
    BY <1>1
  <2>1. CASE i + 1 < n
    <3>1. i < n /\ i \in 0..k - 1 /\ i # n - 1
      BY <1>1, <2>0, <2>1
    <3>2. q[i] = p[i] /\ q[i + 1] = p[i + 1]
      BY <1>8, <2>0, <2>1, <3>1
    <3> QED
      BY <1>3, <1>7, <1>10, <3>1, <3>2
  <2>2. CASE i + 1 = n
    <3>1. i < n /\ i \in 0..k - 1 /\ n - 1 = i /\ n # 0 /\ ~(i + 1 < n)
      BY <1>1, <2>0, <2>2
    <3>2. q[i] = p[i] /\ q[i + 1] = t /\ p[i] = b
      BY <1>8, <1>9, <2>0, <2>2, <3>1
    <3> QED
      BY <1>3, <1>7, <3>1, <3>2
  <2>3. CASE i = n
    <3>1. q[i] = t /\ ~(i + 1 < n) /\ i + 1 # n /\ ~(i < n)
      BY <1>8, <2>0, <2>3
    <3>2. q[i + 1] = p[n]
      BY <1>8, <2>0, <2>3, <3>1
    <3> QED
      BY <3>1, <3>2
  <2>4. CASE i > n
    <3>1. ~(i < n) /\ i # n /\ ~(i + 1 < n) /\ i + 1 # n /\ i - 1 \in 0..k - 1 /\ (i - 1) + 1 = i
          /\ i - 1 # n - 1
      BY <1>1, <2>0, <2>4
    <3>2. q[i] = p[i - 1] /\ q[i + 1] = p[i]
      BY <1>8, <2>0, <3>1
    <3>3. p[i - 1] # t /\ p[i - 1] # b /\ p[i - 1] \in Timers /\ next[p[i - 1]] = p[i]
      BY <1>3, <1>7, <1>10, <3>1
    <3> QED
      BY <3>2, <3>3
  <2> QED
    BY <2>0, <2>1, <2>2, <2>3, <2>4
<1>15. ASSUME NEW i \in 0..(k + 1) - 1, NEW j \in 0..(k + 1) - 1, q[i] = q[j], i < j
       PROVE  FALSE
  <2>0. i \in 0..k + 1 /\ j \in 0..k + 1 /\ i \in Nat /\ j \in Nat /\ n \in Nat
    BY <1>1
  <2>1. /\ i < n => i \in 0..k - 1
        /\ i > n => i - 1 \in 0..k - 1
        /\ j < n => j \in 0..k - 1
        /\ j > n => j - 1 \in 0..k - 1
    BY <1>1
  <2>2. /\ i < n => q[i] = p[i]
        /\ i = n => q[i] = t
        /\ i > n => q[i] = p[i - 1]
    BY <1>8, <2>0
  <2>3. /\ j < n => q[j] = p[j]
        /\ j = n => q[j] = t
        /\ j > n => q[j] = p[j - 1]
    BY <1>8, <2>0
  <2>4. CASE j < n
    BY <1>4, <1>15, <2>0, <2>1, <2>2, <2>3, <2>4
  <2>5. CASE j = n
    BY <1>7, <1>15, <2>0, <2>1, <2>2, <2>3, <2>5
  <2>6. CASE j > n /\ i < n
    <3>1. i = j - 1
      BY <1>4, <1>15, <2>1, <2>2, <2>3, <2>6
    <3> QED
      BY <2>0, <2>6, <3>1
  <2>7. CASE j > n /\ i = n
    BY <1>7, <1>15, <2>1, <2>2, <2>3, <2>7
  <2>8. CASE j > n /\ i > n
    <3>1. i - 1 = j - 1
      BY <1>4, <1>15, <2>1, <2>2, <2>3, <2>8
    <3> QED
      BY <1>15, <2>0, <3>1
  <2> QED
    BY <2>0, <2>4, <2>5, <2>6, <2>7, <2>8
<1>16. ASSUME NEW i \in 0..(k + 1) - 1, NEW j \in 0..(k + 1) - 1, q[i] = q[j]
       PROVE  i = j
  <2>1. i < j \/ i = j \/ j < i
    OBVIOUS
  <2> QED
    BY <1>15, <1>16, <2>1
<1>17. ASSUME NEW i \in 0..(k + 1) - 1
       PROVE  prev2[q[i]] = IF i = 0 THEN NULL ELSE q[i - 1]
  <2>0. q[i] \in Timers /\ i \in 0..k + 1 /\ i \in Nat /\ n \in Nat
        /\ (i # 0 => i - 1 \in 0..k + 1 /\ i - 1 \in Nat)
    BY <1>1, <1>14
  <2>1. CASE i < n
    <3>1. i \in 0..k - 1 /\ q[i] = p[i] /\ i # n /\ (i # 0 => i - 1 < n)
      BY <1>1, <1>8, <2>0, <2>1
    <3>2. prev2[q[i]] = prev[p[i]]
      BY <1>7, <1>11, <2>0, <3>1
    <3> QED
      BY <1>5, <1>8, <2>0, <3>1, <3>2
  <2>2. CASE i = n
    <3>1. q[i] = t /\ (i # 0 => i - 1 < n)
      BY <1>8, <2>0, <2>2
    <3> QED
      BY <1>8, <1>9, <2>0, <2>2, <3>1
  <2>3. CASE i = n + 1
    <3>1. ~(i < n) /\ i # n /\ i - 1 = n /\ i # 0 /\ n \in 0..k - 1
      BY <1>1, <2>0, <2>3
    <3>2. q[i] = p[n] /\ q[i - 1] = t
      BY <1>8, <2>0, <3>1
    <3> QED
      BY <1>7, <2>0, <3>1, <3>2
  <2>4. CASE i > n + 1
    <3>1. ~(i < n) /\ i # n /\ ~(i - 1 < n) /\ i - 1 # n /\ i - 1 \in 0..k - 1 /\ i # 0
          /\ (i - 1) - 1 \in 0..k - 1 /\ i - 1 # 0
      BY <1>1, <2>0, <2>4
    <3>2. q[i] = p[i - 1] /\ q[i - 1] = p[(i - 1) - 1]
      BY <1>8, <2>0, <3>1
    <3>3. prev2[q[i]] = prev[p[i - 1]]
      BY <1>7, <1>11, <2>0, <3>1, <3>2
    <3> QED
      BY <1>5, <3>1, <3>2, <3>3
  <2> QED
    BY <2>0, <2>1, <2>2, <2>3, <2>4
<1> HIDE DEF q
<1>18. Path(next2, head2, k + 1, q)
  BY <1>1, <1>12, <1>13, <1>14, <1>16 DEF Path
<1>19. On(k + 1, q) = On(k, p) \cup {t}
  BY <1>1, OnWith DEF q
<1>20. Path(next2, free, m, f)
  <2>1. Path(next, free, m, f) /\ On(k, p) \cap On(m, f) = {}
    BY DEF Linked
  <2>2. ASSUME NEW x \in On(m, f)
        PROVE  next2[x] = next[x]
    <3>1. x \in Timers /\ x # t
      BY <2>1 DEF Path, On
    <3>2. x # b
      BY <1>2, <1>9, <2>1, <3>1 DEF On
    <3> QED
      BY <3>1, <3>2
  <2> QED
    BY <2>1, <2>2, PathKept
<1>21. On(k + 1, q) \cap On(m, f) = {}
  BY <1>19 DEF Linked
<1> QED
  BY <1>17, <1>18, <1>19, <1>20, <1>21 DEF Linked, q

-----------------------------------------------------------------------------
(* The calls of timer.c. *)

Heap == [head : Ptr, free : Ptr, used : SUBSET Timers,
         next : [Timers -> Ptr], prev : [Timers -> Ptr],
         time : [Timers -> Nat], owner : [Timers -> Slots]]

\* The scheduled timers are A, the free ones F.
Lists(g, A, F) ==
    \E k, p, m, f :
        /\ Linked(g.next, g.prev, g.head, g.free, k, p, m, f)
        /\ Sorted(g.time, k, p)
        /\ A = On(k, p) /\ F = On(m, f)

\* What the lists say of the pointers.
LEMMA ListFacts ==
    ASSUME NEW g \in Heap, NEW A, NEW F, Lists(g, A, F)
    PROVE  /\ OnList(g.next, g.head) = A /\ OnList(g.next, g.free) = F
           /\ A \subseteq Timers /\ F \subseteq Timers /\ A \cap F = {}
           /\ Walk(g.next, g.head)[Cardinality(Timers)] = NULL
           /\ g.head # NULL => g.head \in A /\ g.prev[g.head] = NULL
           /\ g.head = NULL => A = {}
           /\ g.free = NULL => F = {}
           /\ g.free # NULL => g.free \in F
           /\ \A t \in A : g.next[t] # NULL => /\ g.next[t] \in A /\ g.next[t] # t
                                               /\ g.prev[g.next[t]] = t
                                               /\ g.time[t] <= g.time[g.next[t]]
<1>1. PICK k, p, m, f : /\ Linked(g.next, g.prev, g.head, g.free, k, p, m, f)
                        /\ Sorted(g.time, k, p)
                        /\ A = On(k, p) /\ F = On(m, f)
  BY DEF Lists
<1>2. Path(g.next, g.head, k, p) /\ Path(g.next, g.free, m, f) /\ A \cap F = {}
  BY <1>1 DEF Linked
<1>3. k \in Nat /\ m \in Nat /\ k <= N /\ N \in Nat /\ Cardinality(Timers) = N /\ NULL \notin Timers
  <2>1. k \in Nat /\ m \in Nat
    BY <1>2 DEF Path
  <2>2. k <= N
    BY <1>2, PathShort
  <2> QED
    BY <2>1, <2>2, TimerFacts
<1>4. OnList(g.next, g.head) = A /\ OnList(g.next, g.free) = F
  BY <1>1, <1>2, WalkPath
<1>5. A \subseteq Timers /\ F \subseteq Timers
  BY <1>1, <1>2 DEF Path, On
<1>6. Walk(g.next, g.head)[N] = NULL
  <2>1. N \in 0..N
    BY <1>3
  <2>2. Walk(g.next, g.head)[N] = IF N <= k THEN p[N] ELSE NULL
    BY <1>2, <2>1, WalkPath
  <2> QED
    BY <1>2, <1>3, <2>2 DEF Path
<1>7. k = 0 => g.head = NULL /\ A = {}
  BY <1>1, <1>2 DEF Path, On
<1>8. k # 0 => /\ 0 \in 0..k - 1 /\ g.head = p[0] /\ p[0] \in A /\ g.head \in Timers
               /\ g.prev[g.head] = NULL
  BY <1>1, <1>2, <1>3 DEF Path, On, Linked
<1>9. m = 0 => g.free = NULL /\ F = {}
  BY <1>1, <1>2 DEF Path, On
<1>10. m # 0 => g.free = f[0] /\ f[0] \in F /\ g.free \in Timers
  <2>1. m # 0 => 0 \in 0..m - 1
    BY <1>3
  <2> QED
    BY <1>1, <1>2, <2>1 DEF Path, On
<1>11. ASSUME NEW t \in A, g.next[t] # NULL
       PROVE  /\ g.next[t] \in A /\ g.next[t] # t
              /\ g.prev[g.next[t]] = t
              /\ g.time[t] <= g.time[g.next[t]]
  <2>1. PICK i \in 0..k - 1 : t = p[i]
    BY <1>1 DEF On
  <2>2. g.next[t] = p[i + 1]
    BY <1>2, <2>1 DEF Path
  <2>3. i + 1 # k
    BY <1>2, <1>11, <2>2 DEF Path
  <2>4. i + 1 \in 0..k - 1 /\ i + 1 # 0 /\ (i + 1) - 1 = i /\ i < i + 1 /\ i # i + 1
    BY <1>3, <2>3
  <2>5. p[i + 1] \in A /\ p[i + 1] # p[i]
    BY <1>1, <1>2, <2>4 DEF On, Path
  <2>6. g.prev[p[i + 1]] = p[i]
    BY <1>1, <2>4 DEF Linked
  <2>7. g.time[p[i]] <= g.time[p[i + 1]]
    BY <1>1, <2>4 DEF Sorted
  <2> QED
    BY <2>1, <2>2, <2>5, <2>6, <2>7
<1> QED
  BY <1>2, <1>3, <1>4, <1>5, <1>6, <1>7, <1>8, <1>9, <1>10, <1>11

\* The fields of a heap after list_remove.
LEMMA ListRemoveIs ==
    ASSUME NEW g \in Heap, NEW t \in Timers
    PROVE  LET r == list_remove(g, t)
           IN  /\ r \in Heap
               /\ r.head = IF g.prev[t] = NULL THEN g.next[t] ELSE g.head
               /\ r.next = [x \in Timers |-> IF x = g.prev[t] THEN g.next[t] ELSE g.next[x]]
               /\ r.prev = [x \in Timers |-> IF x = g.next[t] THEN g.prev[t] ELSE g.prev[x]]
               /\ r.free = g.free /\ r.used = g.used /\ r.time = g.time /\ r.owner = g.owner
BY DEF list_remove, Heap

\* list_remove takes a timer off the list.  Its own time may have changed before.
LEMMA RemoveLists ==
    ASSUME NEW g \in Heap, NEW A, NEW F, Lists(g, A, F), NEW t \in A,
           NEW c \in Heap, c.next = g.next, c.prev = g.prev, c.head = g.head, c.free = g.free,
           \A x \in A \ {t} : c.time[x] = g.time[x]
    PROVE  Lists(list_remove(c, t), A \ {t}, F)
<1>1. PICK k, p, m, f : /\ Linked(g.next, g.prev, g.head, g.free, k, p, m, f)
                        /\ Sorted(g.time, k, p)
                        /\ A = On(k, p) /\ F = On(m, f)
  BY DEF Lists
<1>2. PICK e \in 0..k - 1 : t = p[e]
  BY <1>1 DEF On
<1>3. Path(g.next, g.head, k, p) /\ k \in Nat /\ t \in Timers
  BY <1>1, <1>2 DEF Linked, Path
<1> DEFINE q == Without(k, p, e)
           r == list_remove(c, t)
<1>4. /\ r.head = IF g.prev[t] = NULL THEN g.next[t] ELSE g.head
      /\ r.next = [x \in Timers |-> IF x = g.prev[t] THEN g.next[t] ELSE g.next[x]]
      /\ r.prev = [x \in Timers |-> IF x = g.next[t] THEN g.prev[t] ELSE g.prev[x]]
      /\ r.free = g.free /\ r.time = c.time
  BY <1>3, ListRemoveIs
<1>5. g.next \in [Timers -> Ptr] /\ g.prev \in [Timers -> Ptr]
  BY DEF Heap
<1> HIDE DEF r
<1>6. Linked(r.next, r.prev, r.head, r.free, k - 1, q, m, f) /\ On(k - 1, q) = A \ {t}
  BY <1>1, <1>2, <1>4, <1>5, RemoveLinked
<1>7. Sorted(r.time, k - 1, q)
  <2> SUFFICES ASSUME NEW i \in 0..(k - 1) - 1, NEW j \in 0..(k - 1) - 1, i < j
               PROVE  r.time[q[i]] <= r.time[q[j]]
    BY DEF Sorted
  <2>1. q[i] \in A \ {t} /\ q[j] \in A \ {t}
    BY <1>6 DEF On
  <2>2. \E a, b \in 0..k - 1 : a < b /\ q[i] = p[a] /\ q[j] = p[b]
    <3> DEFINE a == IF i < e THEN i ELSE i + 1
               b == IF j < e THEN j ELSE j + 1
    <3>1. a \in 0..k - 1 /\ b \in 0..k - 1 /\ a < b /\ i \in 0..k - 1 /\ j \in 0..k - 1
      BY <1>3
    <3>2. q[i] = p[a] /\ q[j] = p[b]
      BY <3>1 DEF Without
    <3> QED
      BY <3>1, <3>2
  <2>3. g.time[q[i]] <= g.time[q[j]]
    BY <1>1, <2>2 DEF Sorted
  <2> QED
    BY <1>4, <2>1, <2>3
<1> HIDE DEF q
<1> QED
  BY <1>1, <1>6, <1>7 DEF Lists, r

\* The fields of a heap after list_add, and the place it finds.
LEMMA ListAddIs ==
    ASSUME NEW g \in Heap, NEW k, NEW p, Path(g.next, g.head, k, p), Sorted(g.time, k, p),
           NEW t \in Timers
    PROVE  \E n \in 0..k :
               LET r == list_add(g, t)
                   b == IF n = 0 THEN NULL ELSE p[n - 1]
               IN  /\ \A i \in 0..k - 1 : IF i < n THEN g.time[p[i]] <= g.time[t]
                                                   ELSE g.time[t] <= g.time[p[i]]
                   /\ r \in Heap
                   /\ r.head = IF b = NULL THEN t ELSE g.head
                   /\ r.next = [x \in Timers |-> IF x = t THEN p[n] ELSE IF x = b THEN t ELSE g.next[x]]
                   /\ r.prev = [x \in Timers |-> IF x = t THEN b ELSE IF x = p[n] THEN t ELSE g.prev[x]]
                   /\ r.free = g.free /\ r.used = g.used /\ r.time = g.time /\ r.owner = g.owner
<1> DEFINE at == Walk(g.next, g.head)
           listed == {n \in DOMAIN at : at[n] # NULL}
           later == {n \in listed : g.time[t] < g.time[at[n]]}
           n2 == IF later = {} THEN Cardinality(listed)
                               ELSE CHOOSE n \in later : \A j \in later : n <= j
           t2 == IF later = {} THEN NULL ELSE at[n2]
           t2prev == IF n2 = 0 THEN NULL ELSE at[n2 - 1]
           b == IF n2 = 0 THEN NULL ELSE p[n2 - 1]
           r == list_add(g, t)
<1>1. k \in Nat /\ k <= N /\ N \in Nat /\ NULL \notin Timers /\ p[k] = NULL
      /\ p \in [0..k -> Ptr]
  BY PathShort, TimerFacts DEF Path
<1>2. DOMAIN at = 0..N /\ \A n \in 0..N : at[n] = IF n <= k THEN p[n] ELSE NULL
  BY WalkPath
<1>3. \A i \in 0..k - 1 : p[i] \in Timers
  BY DEF Path
<1>4. r = [g EXCEPT !.head = IF t2prev = NULL THEN t ELSE @,
               !.next = [x \in Timers |-> IF x = t THEN t2 ELSE IF x = t2prev THEN t ELSE @[x]],
               !.prev = [x \in Timers |-> IF x = t THEN t2prev ELSE IF x = t2 THEN t ELSE @[x]]]
  BY Zenon DEF list_add
<1> HIDE DEF at, r
<1>5. listed = 0..k - 1
  <2>1. ASSUME NEW n \in 0..N
        PROVE  at[n] # NULL <=> n \in 0..k - 1
    BY <1>1, <1>2, <1>3
  <2>2. \A n \in 0..k - 1 : n \in 0..N
    BY <1>1
  <2> QED
    BY <1>2, <2>1, <2>2
<1>6. Cardinality(listed) = k
  <2>1. 0 \in Int /\ k - 1 \in Int /\ k \in Nat
    BY <1>1
  <2>2. Cardinality(0..k - 1) = IF 0 > k - 1 THEN 0 ELSE (k - 1) - 0 + 1
    BY <2>1, FS_Interval
  <2> HIDE DEF listed
  <2> QED
    BY <1>5, <2>1, <2>2
<1>7. \A i \in 0..k - 1 : at[i] = p[i] /\ g.time[p[i]] \in Nat /\ g.time[t] \in Nat
  BY <1>1, <1>2, <1>3 DEF Heap
<1>8. later = {n \in 0..k - 1 : g.time[t] < g.time[p[n]]}
  BY <1>5, <1>7
<1> HIDE DEF listed, later
<1>9. /\ n2 \in 0..k /\ t2 = p[n2]
      /\ \A i \in 0..k - 1 : IF i < n2 THEN g.time[p[i]] <= g.time[t]
                                       ELSE g.time[t] <= g.time[p[i]]
  <2>1. CASE later = {}
    <3>1. n2 = k /\ t2 = NULL
      BY <1>6, <2>1
    <3>2. \A i \in 0..k - 1 : g.time[p[i]] <= g.time[t] /\ i < k
      BY <1>1, <1>7, <1>8, <2>1
    <3> HIDE DEF n2, t2
    <3>3. n2 \in 0..k /\ t2 = p[n2]
      BY <1>1, <3>1
    <3> QED
      BY <3>1, <3>2, <3>3
  <2>2. CASE later # {}
    <3>1. later \subseteq Nat
      BY <1>8
    <3>2. \E n \in later : \A j \in later : n <= j
      BY <2>2, <3>1, LeastNumber
    <3>3. n2 \in later /\ \A j \in later : n2 <= j
      BY <2>2, <3>2, Zenon
    <3>4. t2 = at[n2]
      BY <2>2
    <3> HIDE DEF n2, t2
    <3>5. n2 \in 0..k - 1 /\ g.time[t] < g.time[p[n2]]
      BY <1>8, <3>3
    <3>6. n2 \in 0..k /\ t2 = p[n2]
      BY <1>1, <1>7, <3>4, <3>5
    <3>7. ASSUME NEW i \in 0..k - 1
          PROVE  IF i < n2 THEN g.time[p[i]] <= g.time[t] ELSE g.time[t] <= g.time[p[i]]
      <4>1. CASE i < n2
        <5>1. i \notin later
          BY <3>1, <3>3, <3>5, <4>1
        <5> QED
          BY <1>7, <1>8, <4>1, <5>1
      <4>2. CASE ~(i < n2)
        <5>1. i = n2 \/ n2 < i
          BY <3>5, <4>2
        <5>2. g.time[p[n2]] <= g.time[p[i]]
          BY <1>7, <3>5, <5>1 DEF Sorted
        <5> QED
          BY <1>7, <3>5, <4>2, <5>2
      <4> QED
        BY <4>1, <4>2
    <3> QED
      BY <3>6, <3>7
  <2> QED
    BY <2>1, <2>2
<1> HIDE DEF n2, t2
<1>10. t2prev = b /\ b \in Ptr
  <2>1. CASE n2 = 0
    BY <2>1 DEF Ptr
  <2>2. CASE n2 # 0
    <3>1. n2 - 1 \in 0..k - 1
      BY <1>1, <1>9, <2>2
    <3> QED
      BY <1>3, <1>7, <2>2, <3>1 DEF Ptr
  <2> QED
    BY <2>1, <2>2
<1>11. t2 \in Ptr
  BY <1>1, <1>9
<1> HIDE DEF b, t2prev
<1>12. /\ r \in Heap
       /\ r.head = IF b = NULL THEN t ELSE g.head
       /\ r.next = [x \in Timers |-> IF x = t THEN t2 ELSE IF x = b THEN t ELSE g.next[x]]
       /\ r.prev = [x \in Timers |-> IF x = t THEN b ELSE IF x = t2 THEN t ELSE g.prev[x]]
       /\ r.free = g.free /\ r.used = g.used /\ r.time = g.time /\ r.owner = g.owner
  BY <1>4, <1>10, <1>11 DEF Heap, Ptr
<1> QED
  BY <1>9, <1>12 DEF b, r

\* list_add puts a timer on the list, where its time belongs.
LEMMA AddLists ==
    ASSUME NEW g \in Heap, NEW A, NEW F, Lists(g, A, F), NEW t \in Timers, t \notin A, t \notin F
    PROVE  LET r == list_add(g, t)
           IN  /\ r \in Heap /\ Lists(r, A \cup {t}, F)
               /\ r.free = g.free /\ r.used = g.used /\ r.time = g.time /\ r.owner = g.owner
<1> DEFINE r == list_add(g, t)
<1>1. PICK k, p, m, f : /\ Linked(g.next, g.prev, g.head, g.free, k, p, m, f)
                        /\ Sorted(g.time, k, p)
                        /\ A = On(k, p) /\ F = On(m, f)
  BY DEF Lists
<1>2. Path(g.next, g.head, k, p) /\ k \in Nat
  BY <1>1 DEF Linked, Path
<1>3. PICK n \in 0..k :
          LET b == IF n = 0 THEN NULL ELSE p[n - 1]
          IN  /\ \A i \in 0..k - 1 : IF i < n THEN g.time[p[i]] <= g.time[t]
                                              ELSE g.time[t] <= g.time[p[i]]
              /\ r \in Heap
              /\ r.head = IF b = NULL THEN t ELSE g.head
              /\ r.next = [x \in Timers |-> IF x = t THEN p[n] ELSE IF x = b THEN t ELSE g.next[x]]
              /\ r.prev = [x \in Timers |-> IF x = t THEN b ELSE IF x = p[n] THEN t ELSE g.prev[x]]
              /\ r.free = g.free /\ r.used = g.used /\ r.time = g.time /\ r.owner = g.owner
  BY <1>1, <1>2, ListAddIs
<1> DEFINE q == With(k, p, n, t)
           b == IF n = 0 THEN NULL ELSE p[n - 1]
<1> HIDE DEF r
<1>4. g.next \in [Timers -> Ptr] /\ g.prev \in [Timers -> Ptr]
  BY DEF Heap
<1>5. Linked(r.next, r.prev, r.head, r.free, k + 1, q, m, f) /\ On(k + 1, q) = A \cup {t}
  <2>1. /\ r.head = IF b = NULL THEN t ELSE g.head
        /\ r.next = [x \in Timers |-> IF x = t THEN p[n] ELSE IF x = b THEN t ELSE g.next[x]]
        /\ r.prev = [x \in Timers |-> IF x = t THEN b ELSE IF x = p[n] THEN t ELSE g.prev[x]]
        /\ r.free = g.free
    BY <1>3
  <2>2. b = IF n = 0 THEN NULL ELSE p[n - 1]
    OBVIOUS
  <2> HIDE DEF b
  <2> QED
    BY <1>1, <1>4, <2>1, <2>2, AddLinked
<1>6. Sorted(r.time, k + 1, q)
  <2> SUFFICES ASSUME NEW i \in 0..(k + 1) - 1, NEW j \in 0..(k + 1) - 1, i < j
               PROVE  g.time[q[i]] <= g.time[q[j]]
    BY <1>3 DEF Sorted
  <2>1. i \in 0..k + 1 /\ j \in 0..k + 1 /\ i \in Nat /\ j \in Nat /\ n \in Nat
    BY <1>2
  <2>2. /\ i < n => i \in 0..k - 1 /\ q[i] = p[i]
        /\ i = n => q[i] = t
        /\ i > n => i - 1 \in 0..k - 1 /\ ~(i - 1 < n) /\ q[i] = p[i - 1]
    BY <1>2, <2>1 DEF With
  <2>3. /\ j < n => j \in 0..k - 1 /\ q[j] = p[j]
        /\ j = n => q[j] = t
        /\ j > n => j - 1 \in 0..k - 1 /\ ~(j - 1 < n) /\ q[j] = p[j - 1]
    BY <1>2, <2>1 DEF With
  <2>4. \A x \in 0..k - 1 : p[x] \in Timers
    BY <1>2 DEF Path
  <2>5. \A x \in Timers : g.time[x] \in Nat
    BY DEF Heap
  <2>6. \A x \in 0..k - 1 : /\ x < n => g.time[p[x]] <= g.time[t]
                            /\ ~(x < n) => g.time[t] <= g.time[p[x]]
    BY <1>3
  <2> HIDE DEF q
  <2>7. CASE j < n
    BY <1>1, <2>1, <2>2, <2>3, <2>7 DEF Sorted
  <2>8. CASE j = n
    BY <2>1, <2>2, <2>3, <2>6, <2>8
  <2>9. CASE j > n /\ i < n
    <3>1. g.time[p[i]] <= g.time[t] /\ g.time[t] <= g.time[p[j - 1]]
      BY <2>2, <2>3, <2>6, <2>9
    <3> QED
      BY <2>2, <2>3, <2>4, <2>5, <2>9, <3>1
  <2>10. CASE j > n /\ i = n
    BY <2>2, <2>3, <2>6, <2>10
  <2>11. CASE j > n /\ i > n
    <3>1. i - 1 < j - 1 /\ i - 1 \in 0..k - 1 /\ j - 1 \in 0..k - 1
      BY <2>1, <2>2, <2>3, <2>11
    <3>2. g.time[p[i - 1]] <= g.time[p[j - 1]]
      BY <1>1, <3>1 DEF Sorted
    <3> QED
      BY <2>2, <2>3, <2>11, <3>2
  <2> QED
    BY <2>1, <2>7, <2>8, <2>9, <2>10, <2>11
<1> HIDE DEF q
<1>7. Lists(r, A \cup {t}, F)
  BY <1>1, <1>5, <1>6 DEF Lists
<1> QED
  BY <1>3, <1>7 DEF r

\* list_resort after a change of the timer's time: both lists keep their timers.
LEMMA ResortLists ==
    ASSUME NEW g \in Heap, NEW A, NEW F, Lists(g, A, F), NEW t \in A, NEW v \in Nat
    PROVE  LET r == list_resort([g EXCEPT !.time[t] = v], t)
           IN  r \in Heap /\ Lists(r, A, F) /\ r.used = g.used /\ r.owner = g.owner
<1> DEFINE c == [g EXCEPT !.time[t] = v]
           d == list_remove(c, t)
<1>1. A \subseteq Timers /\ A \cap F = {} /\ t \in Timers /\ t \notin F
  BY ListFacts
<1>2. /\ c \in Heap /\ c.next = g.next /\ c.prev = g.prev /\ c.head = g.head /\ c.free = g.free
      /\ c.used = g.used /\ c.owner = g.owner /\ \A x \in A \ {t} : c.time[x] = g.time[x]
  BY <1>1 DEF Heap
<1> HIDE DEF c
<1>3. Lists(d, A \ {t}, F)
  BY <1>2, RemoveLists
<1>4. d \in Heap /\ d.used = g.used /\ d.owner = g.owner
  <2>1. c \in Heap /\ t \in Timers
    BY <1>1, <1>2
  <2>2. d \in Heap /\ d.used = c.used /\ d.owner = c.owner
    BY <2>1, ListRemoveIs
  <2> QED
    BY <1>2, <2>2
<1> HIDE DEF d
<1>5. (A \ {t}) \cup {t} = A
  OBVIOUS
<1>6. /\ list_add(d, t) \in Heap /\ Lists(list_add(d, t), A, F)
      /\ list_add(d, t).used = d.used /\ list_add(d, t).owner = d.owner
  BY <1>1, <1>3, <1>4, <1>5, AddLists
<1>7. list_resort(c, t) = list_add(d, t)
  BY DEF list_resort, d
<1> QED
  BY <1>4, <1>6, <1>7 DEF c

\* A timer at the head of the free list.
LEMMA PushFree ==
    ASSUME NEW next \in [Timers -> Ptr], NEW first, NEW m, NEW f, Path(next, first, m, f),
           NEW t \in Timers, t \notin On(m, f)
    PROVE  /\ Path([next EXCEPT ![t] = first], t, m + 1, With(m, f, 0, t))
           /\ On(m + 1, With(m, f, 0, t)) = On(m, f) \cup {t}
<1> DEFINE q == With(m, f, 0, t)
           new == [next EXCEPT ![t] = first]
<1>1. m \in Nat /\ m + 1 \in Nat /\ f \in [0..m -> Ptr] /\ f[0] = first /\ f[m] = NULL /\ 0 \in 0..m
  BY DEF Path
<1>2. \A i \in 0..m - 1 : f[i] \in Timers /\ next[f[i]] = f[i + 1] /\ f[i] # t
  BY DEF Path, On
<1>3. \A i, j \in 0..m - 1 : f[i] = f[j] => i = j
  BY DEF Path
<1>4. \A i \in 0..m + 1 : q[i] = IF i = 0 THEN t ELSE f[i - 1]
  BY DEF With
<1>5. q \in [0..m + 1 -> Ptr]
  <2>1. \A i \in 0..m + 1 : i # 0 => i - 1 \in 0..m
    BY <1>1
  <2>2. \A i \in 0..m + 1 : q[i] \in Ptr
    BY <1>1, <1>4, <2>1 DEF Ptr
  <2> QED
    BY <2>2 DEF With
<1>6. q[0] = t /\ q[m + 1] = NULL
  <2>1. 0 \in 0..m + 1 /\ m + 1 \in 0..m + 1 /\ m + 1 # 0 /\ (m + 1) - 1 = m
    BY <1>1
  <2> QED
    BY <1>1, <1>4, <2>1
<1>7. ASSUME NEW i \in 0..(m + 1) - 1
      PROVE  q[i] \in Timers /\ new[q[i]] = q[i + 1]
  <2>1. i \in 0..m + 1 /\ i + 1 \in 0..m + 1 /\ i + 1 # 0 /\ (i + 1) - 1 = i
    BY <1>1
  <2>2. CASE i = 0
    BY <1>1, <1>4, <2>1, <2>2
  <2>3. CASE i # 0
    <3>1. i - 1 \in 0..m - 1 /\ (i - 1) + 1 = i
      BY <1>1, <2>3
    <3> QED
      BY <1>2, <1>4, <2>1, <2>3, <3>1
  <2> QED
    BY <2>2, <2>3
<1>8. ASSUME NEW i \in 0..(m + 1) - 1, NEW j \in 0..(m + 1) - 1, q[i] = q[j]
      PROVE  i = j
  <2>1. i \in 0..m + 1 /\ j \in 0..m + 1 /\ (i # 0 => i - 1 \in 0..m - 1) /\ (j # 0 => j - 1 \in 0..m - 1)
    BY <1>1
  <2>2. CASE i = 0 \/ j = 0
    BY <1>2, <1>4, <1>8, <2>1, <2>2
  <2>3. CASE i # 0 /\ j # 0
    <3>1. i - 1 = j - 1
      BY <1>3, <1>4, <1>8, <2>1, <2>3
    <3> QED
      BY <3>1
  <2> QED
    BY <2>2, <2>3
<1>9. On(m + 1, q) = On(m, f) \cup {t}
  BY <1>1, OnWith
<1> HIDE DEF q, new
<1>10. Path(new, t, m + 1, q)
  BY <1>1, <1>5, <1>6, <1>7, <1>8 DEF Path
<1> QED
  BY <1>9, <1>10 DEF q, new

\* The free list without its head.
LEMMA PopFree ==
    ASSUME NEW next, NEW first, NEW m, NEW f, Path(next, first, m, f), first # NULL
    PROVE  /\ Path(next, next[first], m - 1, Without(m, f, 0))
           /\ On(m - 1, Without(m, f, 0)) = On(m, f) \ {first}
<1> DEFINE q == Without(m, f, 0)
<1>1. m \in Nat /\ f \in [0..m -> Ptr] /\ f[0] = first /\ f[m] = NULL
  BY DEF Path
<1>2. m # 0 /\ m - 1 \in Nat /\ 0 \in 0..m - 1
  BY <1>1
<1>3. \A i \in 0..m - 1 : q[i] = f[i + 1] /\ i + 1 \in 0..m
  BY <1>1 DEF Without
<1>4. \A i \in 0..m - 1 : f[i] \in Timers /\ next[f[i]] = f[i + 1]
  BY DEF Path
<1>5. \A i, j \in 0..m - 1 : f[i] = f[j] => i = j
  BY DEF Path
<1>6. q \in [0..m - 1 -> Ptr]
  BY <1>1, <1>3 DEF Without
<1>7. q[0] = next[first] /\ q[m - 1] = NULL
  <2>1. m - 1 \in 0..m - 1 /\ (m - 1) + 1 = m
    BY <1>1, <1>2
  <2> QED
    BY <1>1, <1>2, <1>3, <1>4, <2>1
<1>8. \A i \in 0..(m - 1) - 1 : i \in 0..m - 1 /\ i + 1 \in 0..m - 1
  BY <1>1
<1>9. \A i \in 0..(m - 1) - 1 : q[i] \in Timers /\ next[q[i]] = q[i + 1]
  BY <1>3, <1>4, <1>8
<1>10. ASSUME NEW i \in 0..(m - 1) - 1, NEW j \in 0..(m - 1) - 1, q[i] = q[j]
       PROVE  i = j
  <2>1. i + 1 = j + 1
    BY <1>3, <1>5, <1>8, <1>10
  <2> QED
    BY <2>1
<1>11. On(m - 1, q) = On(m, f) \ {first}
  BY <1>1, <1>2, OnWithout
<1> HIDE DEF q
<1>12. Path(next, next[first], m - 1, q)
  BY <1>2, <1>6, <1>7, <1>9, <1>10 DEF Path
<1> QED
  BY <1>11, <1>12 DEF q

\* tmr_cancel moves a timer from the list to the free list.
LEMMA CancelLists ==
    ASSUME NEW g \in Heap, NEW A, NEW F, Lists(g, A, F), NEW t \in A
    PROVE  LET r == tmr_cancel(g, t)
           IN  r \in Heap /\ Lists(r, A \ {t}, F \cup {t}) /\ r.used = g.used /\ r.owner = g.owner
<1> DEFINE d == list_remove(g, t)
           r == tmr_cancel(g, t)
<1>1. A \subseteq Timers /\ A \cap F = {} /\ t \in Timers /\ t \notin F
  BY ListFacts
<1>2. Lists(d, A \ {t}, F)
  BY RemoveLists
<1>3. d \in Heap /\ d.used = g.used /\ d.owner = g.owner
  BY <1>1, ListRemoveIs
<1>4. r = [d EXCEPT !.next[t] = d.free, !.free = t, !.prev[t] = NULL]
  BY DEF tmr_cancel
<1> HIDE DEF d, r
<1>5. /\ r \in Heap /\ r.head = d.head /\ r.free = t /\ r.used = d.used
      /\ r.next = [d.next EXCEPT ![t] = d.free] /\ r.prev = [d.prev EXCEPT ![t] = NULL]
      /\ r.time = d.time /\ r.owner = d.owner
  BY <1>1, <1>3, <1>4 DEF Heap, Ptr
<1>6. PICK k, p, m, f : /\ Linked(d.next, d.prev, d.head, d.free, k, p, m, f)
                        /\ Sorted(d.time, k, p)
                        /\ A \ {t} = On(k, p) /\ F = On(m, f)
  BY <1>2 DEF Lists
<1> DEFINE q == With(m, f, 0, t)
<1>7. d.next \in [Timers -> Ptr] /\ d.prev \in [Timers -> Ptr]
  BY <1>3 DEF Heap
<1>8. Path(r.next, r.free, m + 1, q) /\ On(m + 1, q) = F \cup {t}
  BY <1>1, <1>5, <1>6, <1>7, PushFree DEF Linked
<1>9. \A x \in On(k, p) : x \in Timers /\ x # t
  BY <1>1, <1>6
<1>10. Path(r.next, r.head, k, p)
  <2>1. Path(d.next, d.head, k, p) /\ \A x \in On(k, p) : r.next[x] = d.next[x]
    BY <1>5, <1>6, <1>7, <1>9 DEF Linked
  <2>2. Path(r.next, d.head, k, p)
    BY <2>1, PathKept
  <2> QED
    BY <1>5, <2>2
<1>11. \A i \in 0..k - 1 : r.prev[p[i]] = IF i = 0 THEN NULL ELSE p[i - 1]
  <2>1. \A i \in 0..k - 1 : p[i] \in On(k, p)
    BY DEF On
  <2>2. \A i \in 0..k - 1 : r.prev[p[i]] = d.prev[p[i]]
    BY <1>5, <1>7, <1>9, <2>1
  <2> QED
    BY <1>6, <2>2 DEF Linked
<1>12. On(k, p) \cap On(m + 1, q) = {}
  BY <1>1, <1>6, <1>8
<1> HIDE DEF q
<1>13. Linked(r.next, r.prev, r.head, r.free, k, p, m + 1, q)
  BY <1>8, <1>10, <1>11, <1>12 DEF Linked
<1>14. Lists(r, A \ {t}, F \cup {t})
  BY <1>5, <1>6, <1>8, <1>13 DEF Lists
<1> QED
  BY <1>3, <1>5, <1>14 DEF r

\* A timer for a new one: off the list, and free or never used.
LEMMA NewTimerIs ==
    ASSUME NEW g \in Heap, NEW A, NEW F, Lists(g, A, F), A \cup F = g.used,
           F = {} => g.used # Timers
    PROVE  /\ NewTimer(g) \in Timers /\ NewTimer(g) \notin A
           /\ g.free # NULL => NewTimer(g) = g.free
           /\ g.free = NULL => NewTimer(g) \notin F
<1>1. /\ A \subseteq Timers /\ F \subseteq Timers /\ A \cap F = {}
      /\ g.free = NULL => F = {}
      /\ g.free # NULL => g.free \in F
  BY ListFacts
<1>2. CASE g.free # NULL
  BY <1>1, <1>2 DEF NewTimer
<1>3. CASE g.free = NULL
  <2> DEFINE S == Timers \ g.used
  <2>1. S \subseteq Nat /\ S # {}
    BY <1>1, <1>3, TimerFacts DEF Heap
  <2>2. \E t \in S : \A u \in S : t <= u
    BY <2>1, LeastNumber
  <2>3. NewTimer(g) = CHOOSE t \in S : \A u \in S : t <= u
    BY <1>3 DEF NewTimer
  <2> HIDE DEF S
  <2>4. NewTimer(g) \in S
    BY <2>2, <2>3, Zenon
  <2> QED
    BY <1>1, <1>3, <2>4 DEF S
<1> QED
  BY <1>2, <1>3

\* tmr_create puts it on the list.
LEMMA CreateLists ==
    ASSUME NEW g \in Heap, NEW A, NEW F, Lists(g, A, F), A \cup F = g.used,
           F = {} => g.used # Timers,
           NEW s \in Slots, now \in Nat, Usecs(s) \in Nat
    PROVE  LET r == tmr_create(g, s)
               t == NewTimer(g)
           IN  /\ r \in Heap /\ Lists(r, A \cup {t}, F \ {t})
               /\ r.used = g.used \cup {t} /\ r.owner = [g.owner EXCEPT ![t] = s]
<1> DEFINE t == NewTimer(g)
           c == [g EXCEPT !.free = IF @ = NULL THEN NULL ELSE g.next[@],
                          !.used = @ \cup {t},
                          !.owner[t] = s,
                          !.time[t] = now + Usecs(s)]
<1>1. /\ t \in Timers /\ t \notin A
      /\ g.free # NULL => t = g.free
      /\ g.free = NULL => t \notin F
  BY NewTimerIs
<1>2. tmr_create(g, s) = list_add(c, t)
  BY Zenon DEF tmr_create
<1> HIDE DEF t
<1>3. now + Usecs(s) \in Nat /\ (g.free # NULL => g.free \in Timers)
  BY DEF Heap, Ptr
<1>4. /\ c \in Heap /\ c.next = g.next /\ c.prev = g.prev /\ c.head = g.head
      /\ c.free = (IF g.free = NULL THEN NULL ELSE g.next[g.free])
      /\ c.used = g.used \cup {t} /\ c.owner = [g.owner EXCEPT ![t] = s]
      /\ \A x \in Timers \ {t} : c.time[x] = g.time[x]
  BY <1>1, <1>3 DEF Heap, Ptr
<1> HIDE DEF c
<1>5. PICK k, p, m, f : /\ Linked(g.next, g.prev, g.head, g.free, k, p, m, f)
                        /\ Sorted(g.time, k, p)
                        /\ A = On(k, p) /\ F = On(m, f)
  BY DEF Lists
<1>6. A \subseteq Timers
  BY ListFacts
<1>7. Sorted(c.time, k, p)
  <2>1. \A i \in 0..k - 1 : p[i] \in A
    BY <1>5 DEF On
  <2>2. \A i \in 0..k - 1 : c.time[p[i]] = g.time[p[i]]
    BY <1>1, <1>4, <1>6, <2>1
  <2> QED
    BY <1>5, <2>2 DEF Sorted
<1>8. Lists(c, A, F \ {t})
  <2>1. CASE g.free = NULL
    <3>1. Linked(c.next, c.prev, c.head, c.free, k, p, m, f)
      BY <1>4, <1>5, <2>1
    <3>2. F \ {t} = F
      BY <1>1, <2>1
    <3> QED
      BY <1>5, <1>7, <3>1, <3>2 DEF Lists
  <2>2. CASE g.free # NULL
    <3> DEFINE q == Without(m, f, 0)
    <3>1. Path(c.next, c.free, m - 1, q) /\ On(m - 1, q) = F \ {t}
      BY <1>1, <1>4, <1>5, <2>2, PopFree DEF Linked
    <3> HIDE DEF q
    <3>2. Linked(c.next, c.prev, c.head, c.free, k, p, m - 1, q)
      BY <1>4, <1>5, <3>1 DEF Linked
    <3> QED
      BY <1>5, <1>7, <3>1, <3>2 DEF Lists
  <2> QED
    BY <2>1, <2>2
<1>9. /\ list_add(c, t) \in Heap /\ Lists(list_add(c, t), A \cup {t}, F \ {t})
      /\ list_add(c, t).used = c.used /\ list_add(c, t).owner = c.owner
  <2>1. c \in Heap /\ t \in Timers /\ t \notin A /\ t \notin F \ {t}
    BY <1>1, <1>4
  <2> QED
    BY <1>8, <2>1, AddLists
<1> QED
  BY <1>2, <1>4, <1>9 DEF t

-----------------------------------------------------------------------------
(* The calls a test makes. *)

Calls == [f : {"create", "cancel", "free", "reset"}, slot : Slots]

\* Call makes a call.
LEMMA CallIs ==
    ASSUME NEW f \in {"create", "cancel", "free", "reset"}, NEW s \in Slots
    PROVE  Call(f, s) \in Calls /\ Call(f, s).f = f /\ Call(f, s).slot = s
BY DEF Call, Calls

\* The streams one after another, each once.
LEMMA StreamListIs ==
    ASSUME NEW S, S \subseteq Streams
    PROVE  /\ Cardinality(S) \in Nat
           /\ StreamList(S) \in [1..Cardinality(S) -> S]
           /\ \A s \in S : \E i \in 1..Cardinality(S) : StreamList(S)[i] = s
           /\ \A i, j \in 1..Cardinality(S) : StreamList(S)[i] = StreamList(S)[j] => i = j
<1> DEFINE n == Cardinality(S)
           OK(q) == \A s \in S : \E i \in DOMAIN q : q[i] = s
           l == CHOOSE q \in [1..n -> S] : OK(q)
<1>1. IsFiniteSet(S) /\ n \in Nat /\ ExistsBijection(1..n, S)
  <2>1. IsFiniteSet(S)
    BY FS_Subset, TimerAssumption
  <2> QED
    BY <2>1, FS_CardinalityType
<1>2. \E q \in [1..n -> S] : OK(q)
  <2>1. PICK q : q \in Bijection(1..n, S)
    BY <1>1 DEF ExistsBijection
  <2>2. q \in [1..n -> S] /\ \A s \in S : \E i \in 1..n : q[i] = s
    BY <2>1 DEF Bijection, Surjection
  <2> QED
    BY <2>2
<1>3. l \in [1..n -> S] /\ OK(l)
  <2> HIDE DEF OK
  <2> QED
    BY <1>2, Zenon
<1>4. StreamList(S) = l
  BY DEF StreamList
<1> HIDE DEF l
<1>5. \A s \in S : \E i \in 1..n : l[i] = s
  BY <1>3
<1>6. l \in Surjection(1..n, S)
  BY <1>3, <1>5 DEF Surjection
<1>7. IsFiniteSet(1..n) /\ Cardinality(1..n) = n
  BY <1>1, FS_Interval
<1>8. l \in Injection(1..n, S)
  BY <1>6, <1>7, FS_Surjection
<1>9. \A i, j \in 1..n : l[i] = l[j] => i = j
  BY <1>8 DEF Injection, IsInjective
<1> QED
  BY <1>1, <1>3, <1>4, <1>5, <1>9

\* The calls q create timers for some of the slots S, no slot twice.
Plan(q, S) ==
    /\ q \in Seq(Calls)
    /\ \A i \in 1..Len(q) : q[i].f = "create" /\ q[i].slot \in S
    /\ \A i, j \in 1..Len(q) : q[i].slot = q[j].slot => i = j

\* The entries of two sequences one after the other.
LEMMA ConcatIs ==
    ASSUME NEW S, NEW q \in Seq(S), NEW r \in Seq(S)
    PROVE  /\ q \o r \in Seq(S) /\ Len(q) \in Nat /\ Len(r) \in Nat
           /\ Len(q \o r) = Len(q) + Len(r)
           /\ \A i \in 1..Len(q) : i \in 1..Len(q \o r) /\ (q \o r)[i] = q[i]
           /\ \A i \in 1..Len(r) : i + Len(q) \in 1..Len(q \o r) /\ (q \o r)[i + Len(q)] = r[i]
           /\ \A i \in 1..Len(q \o r) : \/ i \in 1..Len(q) /\ (q \o r)[i] = q[i]
                                        \/ i - Len(q) \in 1..Len(r) /\ (q \o r)[i] = r[i - Len(q)]
<1>1. /\ q \o r \in Seq(S) /\ Len(q) \in Nat /\ Len(r) \in Nat
      /\ Len(q \o r) = Len(q) + Len(r)
  OBVIOUS
<1>2. \A i \in 1..Len(q) + Len(r) : (q \o r)[i] = IF i <= Len(q) THEN q[i] ELSE r[i - Len(q)]
  OBVIOUS
<1>3. ASSUME NEW i \in 1..Len(q)
      PROVE  i \in 1..Len(q \o r) /\ (q \o r)[i] = q[i]
  BY <1>1, <1>2
<1>4. ASSUME NEW i \in 1..Len(r)
      PROVE  i + Len(q) \in 1..Len(q \o r) /\ (q \o r)[i + Len(q)] = r[i]
  <2>1. i + Len(q) \in 1..Len(q) + Len(r) /\ ~(i + Len(q) <= Len(q)) /\ (i + Len(q)) - Len(q) = i
    BY <1>1
  <2> QED
    BY <1>1, <1>2, <2>1
<1>5. ASSUME NEW i \in 1..Len(q \o r)
      PROVE  \/ i \in 1..Len(q) /\ (q \o r)[i] = q[i]
             \/ i - Len(q) \in 1..Len(r) /\ (q \o r)[i] = r[i - Len(q)]
  BY <1>1, <1>2
<1> QED
  BY <1>1, <1>3, <1>4, <1>5

\* Two plans for different slots.
LEMMA PlanConcat ==
    ASSUME NEW q, NEW r, NEW S, NEW T, Plan(q, S), Plan(r, T), S \cap T = {}
    PROVE  Plan(q \o r, S \cup T)
<1> DEFINE c == q \o r
           n == Len(q)
<1>1. q \in Seq(Calls) /\ r \in Seq(Calls) /\ n \in Nat /\ c \in Seq(Calls)
  BY ConcatIs DEF Plan
<1>2. \A i \in 1..Len(c) : \/ i \in 1..n /\ c[i] = q[i]
                           \/ i - n \in 1..Len(r) /\ c[i] = r[i - n]
  BY <1>1, ConcatIs
<1>3. \A i \in 1..Len(q) : q[i].f = "create" /\ q[i].slot \in S
  BY DEF Plan
<1>4. \A i \in 1..Len(r) : r[i].f = "create" /\ r[i].slot \in T
  BY DEF Plan
<1> HIDE DEF c
<1>5. \A i \in 1..Len(c) : c[i].f = "create" /\ c[i].slot \in S \cup T
  BY <1>2, <1>3, <1>4
<1>6. ASSUME NEW i \in 1..Len(c), NEW j \in 1..Len(c), c[i].slot = c[j].slot
      PROVE  i = j
  <2>1. CASE i \in 1..n /\ c[i] = q[i] /\ j \in 1..n /\ c[j] = q[j]
    BY <1>6, <2>1 DEF Plan
  <2>2. CASE i - n \in 1..Len(r) /\ c[i] = r[i - n] /\ j - n \in 1..Len(r) /\ c[j] = r[j - n]
    <3>1. i - n = j - n
      BY <1>6, <2>2 DEF Plan
    <3> QED
      BY <1>1, <3>1
  <2>3. CASE i \in 1..n /\ c[i] = q[i] /\ j - n \in 1..Len(r) /\ c[j] = r[j - n]
    BY <1>3, <1>4, <1>6, <2>3
  <2>4. CASE i - n \in 1..Len(r) /\ c[i] = r[i - n] /\ j \in 1..n /\ c[j] = q[j]
    BY <1>3, <1>4, <1>6, <2>4
  <2> QED
    BY <1>2, <2>1, <2>2, <2>3, <2>4
<1> QED
  BY <1>1, <1>5, <1>6 DEF Plan, c

\* One call, or none.
LEMMA PlanOne ==
    ASSUME NEW s \in Slots
    PROVE  Plan(<<Call("create", s)>>, {s}) /\ Plan(<<>>, {})
<1>1. Call("create", s) \in Calls /\ Call("create", s).f = "create" /\ Call("create", s).slot = s
  BY CallIs
<1> QED
  BY <1>1 DEF Plan

\* The timers of a test: no slot twice, the duration timer only if there is a
\* duration, send timers only for a side that paces.
LEMMA CreatesIs ==
    Plan(Creates, {s \in Slots : (s = "timer" => Duration # 0) /\ (s \in Streams => role \in Paced)})
<1> DEFINE d == IF Duration = 0 THEN <<>> ELSE <<Call("create", "timer")>>
           D == IF Duration = 0 THEN {} ELSE {"timer"}
           c == <<Call("create", "stats"), Call("create", "reporter")>>
           o == IF Omit = 0 THEN <<>> ELSE <<Call("create", "omit")>>
           O == IF Omit = 0 THEN {} ELSE {"omit"}
           v == [i \in 1..Cardinality(Streams) |-> Call("create", StreamList(Streams)[i])]
           w == IF role \in Paced THEN v ELSE <<>>
           W == IF role \in Paced THEN Streams ELSE {}
           all == (((D \cup ({"stats"} \cup {"reporter"})) \cup O) \cup W)
<1>1. {"timer", "stats", "reporter", "omit"} \subseteq Slots /\ Streams \subseteq Slots
      /\ Streams \cap {"timer", "stats", "reporter", "omit"} = {}
  BY TimerAssumption DEF Slots
<1>2. Plan(d, D) /\ Plan(o, O)
  BY <1>1, PlanOne
<1>3. Plan(w, W)
  <2>1. CASE role \notin Paced
    BY <1>1, <2>1, PlanOne
  <2>2. CASE role \in Paced
    <3>1. /\ Cardinality(Streams) \in Nat
          /\ StreamList(Streams) \in [1..Cardinality(Streams) -> Streams]
          /\ \A i, j \in 1..Cardinality(Streams) :
                 StreamList(Streams)[i] = StreamList(Streams)[j] => i = j
      BY StreamListIs
    <3>2. \A i \in 1..Cardinality(Streams) :
              v[i] \in Calls /\ v[i].f = "create" /\ v[i].slot = StreamList(Streams)[i]
      BY <1>1, <3>1, CallIs
    <3>3. v \in Seq(Calls) /\ Len(v) = Cardinality(Streams)
      BY <3>1, <3>2
    <3> HIDE DEF v
    <3>4. Plan(v, Streams)
      BY <3>1, <3>2, <3>3 DEF Plan
    <3> QED
      BY <2>2, <3>4
  <2> QED
    BY <2>1, <2>2
<1>4. Creates = ((d \o c) \o o) \o w
  BY DEF Creates
<1>5. Plan(c, {"stats"} \cup {"reporter"})
  <2>1. /\ Call("create", "stats") \in Calls /\ Call("create", "stats").f = "create"
        /\ Call("create", "stats").slot = "stats"
        /\ Call("create", "reporter") \in Calls /\ Call("create", "reporter").f = "create"
        /\ Call("create", "reporter").slot = "reporter"
    BY <1>1, CallIs
  <2>2. c \in Seq(Calls) /\ Len(c) = 2 /\ c[1] = Call("create", "stats")
        /\ c[2] = Call("create", "reporter")
    BY <2>1
  <2>3. \A i \in 1..Len(c) : i = 1 \/ i = 2
    BY <2>2
  <2> HIDE DEF c
  <2> QED
    BY <2>1, <2>2, <2>3 DEF Plan
<1>6. D \subseteq {"timer"} /\ O \subseteq {"omit"} /\ W \subseteq Streams
  OBVIOUS
<1> HIDE DEF d, c, o, w, D, O, W
<1>8. Plan(d \o c, D \cup ({"stats"} \cup {"reporter"}))
  <2>1. D \cap ({"stats"} \cup {"reporter"}) = {}
    BY <1>6
  <2> QED
    BY <1>2, <1>5, <2>1, PlanConcat
<1>9. Plan((d \o c) \o o, (D \cup ({"stats"} \cup {"reporter"})) \cup O)
  <2>1. (D \cup ({"stats"} \cup {"reporter"})) \cap O = {}
    BY <1>6
  <2> QED
    BY <1>2, <1>8, <2>1, PlanConcat
<1>10. Plan(((d \o c) \o o) \o w, all)
  <2>1. ((D \cup ({"stats"} \cup {"reporter"})) \cup O) \cap W = {}
    BY <1>1, <1>6
  <2> QED
    BY <1>3, <1>9, <2>1, PlanConcat
<1>11. all \subseteq {s \in Slots : (s = "timer" => Duration # 0) /\ (s \in Streams => role \in Paced)}
  BY <1>1 DEF D, O, W
<1> QED
  BY <1>4, <1>10, <1>11 DEF Plan

\* Times are natural numbers.
LEMMA UsecsIs ==
    ASSUME NEW s
    PROVE  Usecs(s) \in Nat
<1>1. Duration \in Nat /\ Omit \in Nat /\ Grace \in Nat /\ Interval \in Nat /\ Pacing \in Nat
  BY TimerAssumption
<1>2. CASE s = "timer"
  BY <1>1, <1>2 DEF Usecs
<1>3. CASE s \in {"stats", "reporter"}
  BY <1>1, <1>3 DEF Usecs
<1>4. CASE s = "omit"
  BY <1>1, <1>4 DEF Usecs
<1>5. CASE s \notin {"timer", "stats", "reporter", "omit"}
  BY <1>1, <1>5 DEF Usecs
<1> QED
  BY <1>2, <1>3, <1>4, <1>5

\* The next call and the ones after it.
LEMMA TodoStep ==
    ASSUME NEW S, NEW q \in Seq(S), q # <<>>
    PROVE  /\ Len(q) \in Nat /\ 1 \in 1..Len(q) /\ Head(q) = q[1] /\ Head(q) \in S
           /\ Tail(q) \in Seq(S) /\ Len(Tail(q)) \in Nat
           /\ \A i \in 1..Len(Tail(q)) : i \in Nat /\ i + 1 \in 1..Len(q) /\ Tail(q)[i] = q[i + 1]
           /\ \A i \in 1..Len(q) : i # 1 => i - 1 \in 1..Len(Tail(q)) /\ Tail(q)[i - 1] = q[i]
<1>1. /\ Len(q) \in Nat /\ Len(q) # 0 /\ Head(q) = q[1] /\ Tail(q) \in Seq(S)
      /\ Len(Tail(q)) = Len(q) - 1
  OBVIOUS
<1>2. \A i \in 1..Len(Tail(q)) : Tail(q)[i] = q[i + 1]
  OBVIOUS
<1>3. 1 \in 1..Len(q) /\ q[1] \in S
  BY <1>1
<1>4. ASSUME NEW i \in 1..Len(Tail(q))
      PROVE  i \in Nat /\ i + 1 \in 1..Len(q) /\ Tail(q)[i] = q[i + 1]
  BY <1>1, <1>2
<1>5. ASSUME NEW i \in 1..Len(q), i # 1
      PROVE  i - 1 \in 1..Len(Tail(q)) /\ Tail(q)[i - 1] = q[i]
  <2>1. i - 1 \in 1..Len(Tail(q)) /\ (i - 1) + 1 = i
    BY <1>1, <1>5
  <2> QED
    BY <1>2, <2>1
<1> QED
  BY <1>1, <1>3, <1>4, <1>5

\* FreeStreams comes to every stream.
LEMMA FreeStreamsIs ==
    ASSUME NEW S, S \subseteq Streams
    PROVE  /\ FreeStreams(S) \in Seq(Calls)
           /\ \A i \in 1..Len(FreeStreams(S)) : FreeStreams(S)[i].f = "free" /\ FreeStreams(S)[i].slot \in S
           /\ \A s \in S : \E i \in 1..Len(FreeStreams(S)) : FreeStreams(S)[i].slot = s
<1> DEFINE n == Cardinality(S)
           l == StreamList(S)
           v == [i \in 1..n |-> Call("free", l[i])]
<1>1. n \in Nat /\ l \in [1..n -> S] /\ \A s \in S : \E i \in 1..n : l[i] = s
  BY StreamListIs
<1>2. S \subseteq Slots
  BY DEF Slots
<1>3. FreeStreams(S) = v
  BY DEF FreeStreams
<1> HIDE DEF n, l
<1>4. \A i \in 1..n : v[i] \in Calls /\ v[i].f = "free" /\ v[i].slot = l[i]
  BY <1>1, <1>2, CallIs
<1>5. v \in Seq(Calls) /\ Len(v) = n
  BY <1>1, <1>4
<1> HIDE DEF v
<1> QED
  BY <1>1, <1>3, <1>4, <1>5

\* The calls q cancel timers, those of S among them.
Ending(q, S) ==
    /\ q \in Seq(Calls)
    /\ \A i \in 1..Len(q) : q[i].f \in {"cancel", "free"}
    /\ \A s \in S : \E i \in 1..Len(q) : q[i].slot = s

\* One after the other they cancel the timers of both.
LEMMA EndingConcat ==
    ASSUME NEW q, NEW r, NEW S, NEW T, Ending(q, S), Ending(r, T)
    PROVE  Ending(q \o r, S \cup T)
<1> DEFINE c == q \o r
           n == Len(q)
<1>1. q \in Seq(Calls) /\ r \in Seq(Calls)
  BY DEF Ending
<1>2. /\ c \in Seq(Calls)
      /\ \A i \in 1..n : i \in 1..Len(c) /\ c[i] = q[i]
      /\ \A i \in 1..Len(r) : i + n \in 1..Len(c) /\ c[i + n] = r[i]
      /\ \A i \in 1..Len(c) : \/ i \in 1..n /\ c[i] = q[i]
                              \/ i - n \in 1..Len(r) /\ c[i] = r[i - n]
  BY <1>1, ConcatIs
<1> HIDE DEF c
<1>3. \A i \in 1..Len(c) : c[i].f \in {"cancel", "free"}
  BY <1>2 DEF Ending
<1>4. ASSUME NEW s \in S
      PROVE  \E i \in 1..Len(c) : c[i].slot = s
  BY <1>2 DEF Ending
<1>5. ASSUME NEW s \in T
      PROVE  \E i \in 1..Len(c) : c[i].slot = s
  <2>1. PICK i \in 1..Len(r) : r[i].slot = s
    BY DEF Ending
  <2>2. i + n \in 1..Len(c) /\ c[i + n].slot = s
    BY <1>2, <2>1
  <2> QED
    BY <2>2
<1> QED
  BY <1>2, <1>3, <1>4, <1>5 DEF Ending, c

\* Cancels comes to every timer of the test.
LEMMA CancelsIs ==
    ASSUME alive \subseteq Streams
    PROVE  Ending(Cancels, {"timer", "stats", "reporter", "omit"} \cup alive)
<1> DEFINE l == IF role = "server" THEN <<"stats", "reporter", "omit", "timer">>
                                   ELSE <<"omit", "timer", "stats", "reporter">>
           v == [i \in 1..4 |-> Call("cancel", l[i])]
           w == FreeStreams(alive)
<1>1. Cancels = IF role = "server" THEN v \o w ELSE w \o v
  BY DEF Cancels
<1>2. /\ \A i \in 1..4 : l[i] \in Slots
      /\ \A s \in {"timer", "stats", "reporter", "omit"} : \E i \in 1..4 : l[i] = s
  <2>1. \A i \in 1..4 : i = 1 \/ i = 2 \/ i = 3 \/ i = 4
    OBVIOUS
  <2>2. 1 \in 1..4 /\ 2 \in 1..4 /\ 3 \in 1..4 /\ 4 \in 1..4
    OBVIOUS
  <2>3. CASE role = "server"
    <3>1. l[1] = "stats" /\ l[2] = "reporter" /\ l[3] = "omit" /\ l[4] = "timer"
      BY <2>3
    <3> QED
      BY <2>1, <2>2, <3>1 DEF Slots
  <2>4. CASE role # "server"
    <3>1. l[1] = "omit" /\ l[2] = "timer" /\ l[3] = "stats" /\ l[4] = "reporter"
      BY <2>4
    <3> QED
      BY <2>1, <2>2, <3>1 DEF Slots
  <2> QED
    BY <2>3, <2>4
<1> HIDE DEF l
<1>3. \A i \in 1..4 : v[i] \in Calls /\ v[i].f = "cancel" /\ v[i].slot = l[i]
  BY <1>2, CallIs
<1>4. v \in Seq(Calls) /\ Len(v) = 4
  BY <1>3
<1>5. /\ w \in Seq(Calls)
      /\ \A i \in 1..Len(w) : w[i].f = "free"
      /\ \A s \in alive : \E i \in 1..Len(w) : w[i].slot = s
  BY FreeStreamsIs
<1> HIDE DEF v, w
<1> DEFINE S == {"timer", "stats", "reporter", "omit"}
<1>6. Ending(v, S)
  BY <1>2, <1>3, <1>4 DEF Ending
<1> HIDE DEF S
<1>7. Ending(w, alive)
  BY <1>5 DEF Ending
<1>8. Ending(v \o w, S \cup alive)
  BY <1>6, <1>7, EndingConcat
<1>9. Ending(w \o v, alive \cup S)
  BY <1>6, <1>7, EndingConcat
<1>10. alive \cup S = S \cup alive
  OBVIOUS
<1>11. Ending(Cancels, S \cup alive)
  BY <1>1, <1>8, <1>9, <1>10
<1> QED
  BY <1>11 DEF S

\* The omit timers reset the statistics and the reporter, when there are any.
LEMMA ResetsIs ==
    LET q == ResetIfSet("stats") \o ResetIfSet("reporter")
    IN  /\ q \in Seq(Calls)
        /\ \A i \in 1..Len(q) : /\ q[i].f = "reset" /\ slot[q[i].slot] # NULL
                              /\ q[i].slot \in {"stats", "reporter"}
<1> DEFINE v == ResetIfSet("stats")
           w == ResetIfSet("reporter")
           q == v \o w
<1>1. ASSUME NEW s \in {"stats", "reporter"}
      PROVE  /\ ResetIfSet(s) \in Seq(Calls)
             /\ \A i \in 1..Len(ResetIfSet(s)) :
                    ResetIfSet(s)[i].f = "reset" /\ slot[ResetIfSet(s)[i].slot] # NULL /\ ResetIfSet(s)[i].slot = s
  <2>1. CASE slot[s] = NULL
    BY <2>1 DEF ResetIfSet
  <2>2. CASE slot[s] # NULL
    <3>1. Call("reset", s) \in Calls /\ Call("reset", s).f = "reset" /\ Call("reset", s).slot = s
      BY CallIs DEF Slots
    <3>2. ResetIfSet(s) = <<Call("reset", s)>>
      BY <2>2 DEF ResetIfSet
    <3>3. Len(ResetIfSet(s)) = 1 /\ ResetIfSet(s)[1] = Call("reset", s) /\ ResetIfSet(s) \in Seq(Calls)
      BY <3>1, <3>2
    <3> QED
      BY <2>2, <3>1, <3>3
  <2> QED
    BY <2>1, <2>2
<1>2. /\ v \in Seq(Calls) /\ w \in Seq(Calls)
      /\ \A i \in 1..Len(v) : v[i].f = "reset" /\ slot[v[i].slot] # NULL /\ v[i].slot = "stats"
      /\ \A i \in 1..Len(w) : w[i].f = "reset" /\ slot[w[i].slot] # NULL /\ w[i].slot = "reporter"
  BY <1>1
<1> HIDE DEF v, w
<1>3. /\ q \in Seq(Calls)
      /\ \A i \in 1..Len(q) : \/ i \in 1..Len(v) /\ q[i] = v[i]
                              \/ i - Len(v) \in 1..Len(w) /\ q[i] = w[i - Len(v)]
  BY <1>2, ConcatIs
<1> HIDE DEF q
<1>4. ASSUME NEW i \in 1..Len(q)
      PROVE  /\ q[i].f = "reset" /\ slot[q[i].slot] # NULL
             /\ q[i].slot \in {"stats", "reporter"}
  <2>1. CASE i \in 1..Len(v) /\ q[i] = v[i]
    BY <1>2, <2>1
  <2>2. CASE i - Len(v) \in 1..Len(w) /\ q[i] = w[i - Len(v)]
    BY <1>2, <2>2
  <2> QED
    BY <1>3, <2>1, <2>2
<1> QED
  BY <1>3, <1>4 DEF q, v, w

-----------------------------------------------------------------------------
(* The inductive invariant. *)

Shape ==
    /\ role \in Roles /\ h \in Heap /\ slot \in [Slots -> Ptr]
    /\ alive \subseteq Streams /\ done \in BOOLEAN /\ now \in 0..MaxTime
    /\ pc \in {"idle", "start", "loop", "run", "proc", "cleanup", "freed"}
    /\ todo \in Seq(Calls) /\ cur \in Ptr /\ saved \in Ptr

\* The two lists hold every struct that malloc has given.
Listed == Lists(h, Active, Free) /\ Active \cup Free = h.used

\* Conversely to SlotsScheduled: the slot of a scheduled timer points at it, but
\* for the timer of a callback that has just cleared its slot.
Owned ==
    \A t \in Active :
        \/ slot[h.owner[t]] = t
        \/ pc = "proc" /\ t = cur /\ slot[h.owner[t]] = NULL /\ ~Periodic(h.owner[t])

\* The send timer of a stream that the server's watchdog has freed.
Gone(t) ==
    /\ t \in Timers \ Active
    /\ role = "server" /\ done /\ role \in Paced
    /\ h.owner[t] \in Streams \ alive

\* What tmr_run holds is scheduled, or gone: the timer it looks at, and during a
\* callback the one it goes on with.
Running ==
    /\ pc \in {"run", "freed"} => cur = NULL \/ cur \in Active \/ Gone(cur)
    /\ pc = "proc" => /\ cur \in Active
                      /\ saved = NULL \/ (saved \in Active /\ saved # cur) \/ Gone(saved)
                      /\ ~Periodic(h.owner[cur]) => slot[h.owner[cur]] = NULL

\* The slots that are still to get a timer.
Vacant == {s \in Slots : slot[s] = NULL /\ (s = "timer" => Duration # 0)
                                        /\ (s \in Streams => role \in Paced)}

\* What a callback still does: the omit timer resets, the watchdog frees.
InProc(c) ==
    \/ c.f = "reset" /\ c.slot \in {"stats", "reporter"} /\ slot[c.slot] # NULL
    \/ /\ c.f = "free" /\ c.slot \in Streams
       /\ role = "server" /\ done /\ h.owner[cur] = "timer"

\* The calls that are still to be made: no slot gets a second timer, and a test
\* that ends comes to every timer.
Pending ==
    /\ pc \in {"idle", "loop", "run", "freed"} => todo = <<>>
    /\ pc = "idle" => \A s \in Slots : slot[s] = NULL
    /\ pc = "start" => alive = Streams /\ Plan(todo, Vacant)
    /\ pc = "proc" => \A i \in 1..Len(todo) : InProc(todo[i])
    /\ pc = "cleanup" => Ending(todo, {s \in Slots : slot[s] # NULL})

\* Only a paced stream that is alive has a send timer, only a test with a
\* duration a duration timer.
Justified ==
    /\ \A s \in Streams : slot[s] # NULL => s \in alive /\ role \in Paced
    /\ slot["timer"] # NULL => Duration # 0

IInv == Shape /\ Listed /\ SlotsScheduled /\ Owned /\ Running /\ Pending /\ Justified

\* What the lists say of the scheduled timers.
LEMMA InvFacts ==
    ASSUME Shape, Listed
    PROVE  /\ Active \subseteq Timers /\ Active \cap Free = {} /\ NULL \notin Timers
           /\ NULL \notin Active /\ Active \subseteq h.used
           /\ h.head # NULL => h.head \in Active
           /\ \A t \in Active : h.next[t] # NULL => h.next[t] \in Active /\ h.next[t] # t
<1>1. h \in Heap /\ Lists(h, Active, Free) /\ Active \cup Free = h.used
  BY DEF Shape, Listed
<1>2. /\ Active \subseteq Timers /\ Active \cap Free = {}
      /\ h.head # NULL => h.head \in Active
      /\ \A t \in Active : h.next[t] # NULL => h.next[t] \in Active /\ h.next[t] # t
  BY <1>1, ListFacts
<1>3. NULL \notin Timers
  BY TimerFacts
<1> QED
  BY <1>1, <1>2, <1>3

\* The lists of the next state.
LEMMA NextLists ==
    ASSUME h' \in Heap, NEW A, NEW F, Lists(h', A, F)
    PROVE  Active' = A /\ Free' = F /\ Lists(h', Active', Free')
<1>1. OnList(h'.next, h'.head) = A /\ OnList(h'.next, h'.free) = F
  BY ListFacts
<1>2. Active' = A /\ Free' = F
  BY <1>1 DEF Active, Free
<1> QED
  BY <1>2

\* A step that touches no timer keeps the lists.
LEMMA SameLists ==
    ASSUME h' = h
    PROVE  Active' = Active /\ Free' = Free /\ (Listed => Listed')
<1>1. Active' = Active /\ Free' = Free
  BY DEF Active, Free
<1> QED
  BY <1>1 DEF Listed

\* The invariant holds at the start.
LEMMA InitInv == Init => IInv
<1> SUFFICES ASSUME Init PROVE IInv
  OBVIOUS
<1>1. N \in Nat /\ NULL \notin Timers
  BY TimerFacts
<1>2. Shape
  <2>1. h \in Heap
    BY DEF Init, Heap, Ptr, Slots
  <2>2. slot \in [Slots -> Ptr] /\ cur \in Ptr /\ saved \in Ptr
    BY DEF Init, Ptr
  <2>3. done \in BOOLEAN
    BY DEF Init
  <2>4. now \in 0..MaxTime
    BY TimerAssumption DEF Init
  <2>5. todo \in Seq(Calls)
    BY DEF Init
  <2>6. role \in Roles /\ alive \subseteq Streams /\ pc = "idle"
    BY DEF Init
  <2> QED
    BY <2>1, <2>2, <2>3, <2>4, <2>5, <2>6 DEF Shape
<1>3. Lists(h, {}, {})
  <2> DEFINE p == [i \in 0..0 |-> NULL]
  <2>1. h.head = NULL /\ h.free = NULL
    BY DEF Init
  <2>2. Path(h.next, NULL, 0, p) /\ On(0, p) = {}
    BY DEF Path, On, Ptr
  <2>3. Linked(h.next, h.prev, h.head, h.free, 0, p, 0, p) /\ Sorted(h.time, 0, p)
    BY <2>1, <2>2 DEF Linked, Sorted
  <2> HIDE DEF p
  <2> QED
    BY <2>2, <2>3 DEF Lists
<1>4. Active = {} /\ Free = {}
  <2>1. h \in Heap
    BY <1>2 DEF Shape
  <2> QED
    BY <1>3, <2>1, ListFacts DEF Active, Free
<1>5. Listed
  BY <1>3, <1>4 DEF Listed, Init
<1>6. slot = [s \in Slots |-> NULL] /\ pc = "idle" /\ todo = <<>>
  BY DEF Init
<1>7. \A s \in Slots : slot[s] = NULL
  BY <1>6
<1>8. Pending
  BY <1>6, <1>7 DEF Pending
<1>9. SlotsScheduled /\ Owned /\ Running /\ Justified
  BY <1>4, <1>6, <1>7 DEF SlotsScheduled, Owned, Running, Justified, Slots
<1> QED
  BY <1>2, <1>5, <1>8, <1>9 DEF IInv

-----------------------------------------------------------------------------
(* The steps of a test. *)

\* A slot that is set points at a timer of its own, and no two at the same.
LEMMA SlotFacts ==
    ASSUME IInv
    PROVE  /\ \A s \in Slots : slot[s] # NULL => slot[s] \in Active /\ h.owner[slot[s]] = s
           /\ \A t \in Active : h.owner[t] \in Slots
           /\ pc # "proc" => \A t \in Active : slot[h.owner[t]] = t
<1>1. Active \subseteq Timers
  BY InvFacts DEF IInv
<1>2. \A s \in Slots : slot[s] # NULL => slot[s] \in Active /\ h.owner[slot[s]] = s
  BY DEF IInv, SlotsScheduled
<1>3. \A t \in Active : h.owner[t] \in Slots
  BY <1>1 DEF IInv, Shape, Heap
<1>4. pc # "proc" => \A t \in Active : slot[h.owner[t]] = t
  BY DEF IInv, Owned
<1> QED
  BY <1>2, <1>3, <1>4

\* TEST_START plans timers for slots that are all empty.
LEMMA TestStartInv ==
    ASSUME IInv, TestStart
    PROVE  IInv'
<1>1. /\ pc = "idle" /\ pc' = "start" /\ todo' = Creates /\ alive' = Streams
      /\ done' = (IF Duration = 0 THEN done ELSE FALSE)
      /\ role' = role /\ h' = h /\ slot' = slot /\ now' = now /\ cur' = cur /\ saved' = saved
  BY DEF TestStart
<1>2. Active' = Active /\ Free' = Free /\ Listed'
  BY <1>1, SameLists DEF IInv
<1>3. \A s \in Slots : slot[s] = NULL
  BY <1>1 DEF IInv, Pending
<1>4. Plan(Creates, Vacant)
  <2>1. Vacant = {s \in Slots : (s = "timer" => Duration # 0) /\ (s \in Streams => role \in Paced)}
    BY <1>3 DEF Vacant
  <2> QED
    BY <2>1, CreatesIs
<1>5. Vacant' = Vacant
  BY <1>1 DEF Vacant
<1>6. done' \in BOOLEAN
  BY <1>1 DEF IInv, Shape
<1>7. Shape'
  BY <1>1, <1>4, <1>6 DEF IInv, Shape, Plan
<1>8. Pending'
  BY <1>1, <1>4, <1>5 DEF Pending
<1>9. SlotsScheduled' /\ Justified' /\ Running'
  BY <1>1, <1>3 DEF SlotsScheduled, Justified, Running, Slots
<1>10. Owned'
  BY <1>1, <1>2 DEF IInv, Owned
<1> QED
  BY <1>2, <1>7, <1>8, <1>9, <1>10 DEF IInv

\* The functions that only go on to the next phase: nothing is to be done any more.
LEMMA StartedInv ==
    ASSUME IInv, Started
    PROVE  IInv'
<1>1. /\ pc = "start" /\ pc' = "loop" /\ todo = <<>> /\ todo' = todo /\ alive' = alive
      /\ done' = done /\ role' = role /\ h' = h /\ slot' = slot /\ now' = now
      /\ cur' = cur /\ saved' = saved
  BY DEF Started
<1>2. Active' = Active /\ Free' = Free /\ Listed'
  BY <1>1, SameLists DEF IInv
<1>3. Shape'
  BY <1>1 DEF IInv, Shape
<1>4. Pending' /\ Running'
  BY <1>1 DEF Pending, Running
<1>5. SlotsScheduled' /\ Justified' /\ Owned'
  BY <1>1, <1>2 DEF IInv, SlotsScheduled, Justified, Owned
<1> QED
  BY <1>2, <1>3, <1>4, <1>5 DEF IInv

\* Time passes.
LEMMA TickInv ==
    ASSUME IInv, Tick
    PROVE  IInv'
<1>1. /\ pc = "loop" /\ pc' = pc /\ todo' = todo /\ alive' = alive /\ now < MaxTime /\ now' = now + 1
      /\ done' = done /\ role' = role /\ h' = h /\ slot' = slot /\ cur' = cur /\ saved' = saved
  BY DEF Tick
<1>2. Active' = Active /\ Free' = Free /\ Listed'
  BY <1>1, SameLists DEF IInv
<1>3. now' \in 0..MaxTime
  BY <1>1, TimerAssumption DEF IInv, Shape
<1>4. Shape'
  BY <1>1, <1>3 DEF IInv, Shape
<1>5. Pending' /\ Running'
  BY <1>1 DEF IInv, Pending, Running
<1>6. SlotsScheduled' /\ Justified' /\ Owned'
  BY <1>1, <1>2 DEF IInv, SlotsScheduled, Justified, Owned
<1> QED
  BY <1>2, <1>4, <1>5, <1>6 DEF IInv

\* tmr_run starts with the head of the list.
LEMMA RunInv ==
    ASSUME IInv, tmr_run
    PROVE  IInv'
<1>1. /\ pc = "loop" /\ pc' = "run" /\ todo' = todo /\ alive' = alive /\ cur' = h.head
      /\ h.head # NULL /\ now' = now
      /\ done' = done /\ role' = role /\ h' = h /\ slot' = slot /\ saved' = saved
  BY DEF tmr_run
<1>2. Active' = Active /\ Free' = Free /\ Listed'
  BY <1>1, SameLists DEF IInv
<1>3. cur' \in Active /\ cur' \in Ptr
  BY <1>1, InvFacts DEF IInv, Ptr
<1>4. Shape'
  BY <1>1, <1>3 DEF IInv, Shape
<1>5. Pending' /\ Running'
  BY <1>1, <1>2, <1>3 DEF IInv, Pending, Running
<1>6. SlotsScheduled' /\ Justified' /\ Owned'
  BY <1>1, <1>2 DEF IInv, SlotsScheduled, Justified, Owned
<1> QED
  BY <1>2, <1>4, <1>5, <1>6 DEF IInv

\* tmr_run ends.
LEMMA RunEndsInv ==
    ASSUME IInv, RunEnds
    PROVE  IInv'
<1>1. /\ pc = "run" /\ pc' = "loop" /\ todo' = todo /\ alive' = alive /\ cur' = NULL /\ now' = now
      /\ done' = done /\ role' = role /\ h' = h /\ slot' = slot /\ saved' = saved
  BY DEF RunEnds
<1>2. Active' = Active /\ Free' = Free /\ Listed'
  BY <1>1, SameLists DEF IInv
<1>3. Shape'
  BY <1>1 DEF IInv, Shape, Ptr
<1>4. Pending' /\ Running'
  BY <1>1 DEF IInv, Pending, Running
<1>5. SlotsScheduled' /\ Justified' /\ Owned'
  BY <1>1, <1>2 DEF IInv, SlotsScheduled, Justified, Owned
<1> QED
  BY <1>2, <1>3, <1>4, <1>5 DEF IInv

\* tmr_run calls a callback that has been descheduled.
LEMMA RunsFreedInv ==
    ASSUME IInv, RunsFreed
    PROVE  IInv'
<1>1. /\ pc = "run" /\ pc' = "freed" /\ todo' = todo /\ alive' = alive /\ cur' = cur /\ now' = now
      /\ done' = done /\ role' = role /\ h' = h /\ slot' = slot /\ saved' = saved
  BY DEF RunsFreed
<1>2. Active' = Active /\ Free' = Free /\ Listed'
  BY <1>1, SameLists DEF IInv
<1>3. Shape'
  BY <1>1 DEF IInv, Shape
<1>4. Pending' /\ Running'
  BY <1>1, <1>2 DEF IInv, Pending, Running, Gone
<1>5. SlotsScheduled' /\ Justified' /\ Owned'
  BY <1>1, <1>2 DEF IInv, SlotsScheduled, Justified, Owned
<1> QED
  BY <1>2, <1>3, <1>4, <1>5 DEF IInv

\* The test ends: the calls to come reach every slot that is set.
LEMMA TestEndInv ==
    ASSUME IInv, TestEnd
    PROVE  IInv'
<1>1. /\ pc = "loop" /\ pc' = "cleanup" /\ todo' = Cancels /\ alive' = alive /\ cur' = cur
      /\ now' = now /\ done' = done /\ role' = role /\ h' = h /\ slot' = slot /\ saved' = saved
  BY DEF TestEnd
<1>2. Active' = Active /\ Free' = Free /\ Listed'
  BY <1>1, SameLists DEF IInv
<1>3. Ending(Cancels, {"timer", "stats", "reporter", "omit"} \cup alive)
  BY CancelsIs DEF IInv, Shape
<1>4. {s \in Slots : slot[s] # NULL} \subseteq {"timer", "stats", "reporter", "omit"} \cup alive
  BY DEF IInv, Justified, Slots
<1>5. Ending(Cancels, {s \in Slots : slot[s] # NULL})
  BY <1>3, <1>4 DEF Ending
<1>6. Shape'
  BY <1>1, <1>3 DEF IInv, Shape, Ending
<1>7. Pending' /\ Running'
  BY <1>1, <1>5 DEF Pending, Running
<1>8. SlotsScheduled' /\ Justified' /\ Owned'
  BY <1>1, <1>2 DEF IInv, SlotsScheduled, Justified, Owned
<1> QED
  BY <1>2, <1>6, <1>7, <1>8 DEF IInv

\* The test is over: every slot has been cleared.
LEMMA TestOverInv ==
    ASSUME IInv, TestOver
    PROVE  IInv'
<1>1. /\ pc = "cleanup" /\ pc' = "idle" /\ todo = <<>> /\ todo' = todo /\ alive' = alive
      /\ cur' = cur /\ now' = 0 /\ done' = FALSE /\ role' = role /\ h' = h /\ slot' = slot
      /\ saved' = saved
  BY DEF TestOver
<1>2. Active' = Active /\ Free' = Free /\ Listed'
  BY <1>1, SameLists DEF IInv
<1>3. \A s \in Slots : slot[s] = NULL
  <2>1. Ending(todo, {s \in Slots : slot[s] # NULL})
    BY <1>1 DEF IInv, Pending
  <2>2. 1..Len(todo) = {}
    BY <1>1
  <2> QED
    BY <2>1, <2>2 DEF Ending
<1>4. now' \in 0..MaxTime
  BY <1>1, TimerAssumption
<1>5. done' \in BOOLEAN
  BY <1>1
<1>6. Shape'
  BY <1>1, <1>4, <1>5 DEF IInv, Shape
<1>7. Pending' /\ Running'
  BY <1>1, <1>3 DEF Pending, Running
<1>8. SlotsScheduled' /\ Justified' /\ Owned'
  BY <1>1, <1>2 DEF IInv, SlotsScheduled, Justified, Owned
<1> QED
  BY <1>2, <1>6, <1>7, <1>8 DEF IInv

\* tmr_run calls a callback: what it holds is scheduled, and the slot of the
\* timer points at it.
LEMMA FiresFacts ==
    ASSUME IInv, NEW s, Fires(s)
    PROVE  /\ pc = "run" /\ pc' = "proc" /\ role' = role /\ h' = h /\ alive' = alive /\ now' = now
           /\ cur' = cur /\ cur \in Active /\ h.owner[cur] = s /\ s \in Slots /\ slot[s] = cur
           /\ slot[s] # NULL /\ saved' \in Ptr
           /\ saved' = NULL \/ (saved' \in Active /\ saved' # cur)
           /\ Active' = Active /\ Free' = Free /\ Listed' /\ todo = <<>>
           /\ \A t \in Active : slot[h.owner[t]] = t
<1>1. /\ pc = "run" /\ pc' = "proc" /\ role' = role /\ h' = h /\ alive' = alive /\ now' = now
      /\ cur' = cur /\ cur \in Active /\ h.owner[cur] = s /\ saved' = h.next[cur]
  BY DEF Fires
<1>2. Active' = Active /\ Free' = Free /\ Listed'
  BY <1>1, SameLists DEF IInv
<1>3. cur \in Active /\ todo = <<>>
  BY <1>1 DEF IInv, Pending
<1>4. s \in Slots /\ slot[s] = cur /\ cur # NULL /\ \A t \in Active : slot[h.owner[t]] = t
  BY <1>1, <1>3, SlotFacts, InvFacts DEF IInv
<1>5. saved' = NULL \/ (saved' \in Active /\ saved' # cur)
  BY <1>1, <1>3, InvFacts DEF IInv
<1>6. saved' \in Ptr
  BY <1>5, InvFacts DEF IInv, Ptr
<1> QED
  BY <1>1, <1>2, <1>3, <1>4, <1>5, <1>6

\* A callback that clears the slot of its timer.
LEMMA ClearedInv ==
    ASSUME IInv, NEW s \in {"timer", "omit"}, Fires(s),
           slot' = [slot EXCEPT ![s] = NULL], done' \in BOOLEAN, todo' \in Seq(Calls),
           \A i \in 1..Len(todo') :
               \/ /\ todo'[i].f = "reset" /\ todo'[i].slot \in {"stats", "reporter"}
                  /\ slot'[todo'[i].slot] # NULL
               \/ /\ todo'[i].f = "free" /\ todo'[i].slot \in Streams
                  /\ role = "server" /\ done' /\ s = "timer"
    PROVE  IInv'
<1>1. /\ pc = "run" /\ pc' = "proc" /\ role' = role /\ h' = h /\ alive' = alive /\ now' = now
      /\ cur' = cur /\ cur \in Active /\ h.owner[cur] = s /\ s \in Slots /\ slot[s] = cur
      /\ saved' \in Ptr
      /\ saved' = NULL \/ (saved' \in Active /\ saved' # cur)
      /\ Active' = Active /\ Free' = Free /\ Listed'
      /\ \A t \in Active : slot[h.owner[t]] = t
  BY FiresFacts
<1>2. slot \in [Slots -> Ptr]
  BY DEF IInv, Shape
<1>3. slot' \in [Slots -> Ptr] /\ slot'[s] = NULL /\ \A x \in Slots : x # s => slot'[x] = slot[x]
  BY <1>1, <1>2 DEF Ptr
<1>4. Shape'
  BY <1>1, <1>3 DEF IInv, Shape
<1>5. SlotsScheduled'
  BY <1>1, <1>3 DEF IInv, SlotsScheduled
<1>6. Periodic(s) = FALSE
  BY DEF Periodic
<1>7. Owned'
  <2> SUFFICES ASSUME NEW t \in Active
               PROVE  \/ slot'[h.owner[t]] = t
                      \/ t = cur /\ slot'[h.owner[t]] = NULL /\ ~Periodic(h.owner[t])
    BY <1>1 DEF Owned, Periodic
  <2>1. h.owner[t] \in Slots
    BY SlotFacts
  <2>2. CASE h.owner[t] = s
    BY <1>1, <1>3, <1>6, <2>2
  <2>3. CASE h.owner[t] # s
    BY <1>1, <1>3, <2>1, <2>3
  <2> QED
    BY <2>2, <2>3
<1>8. Running'
  BY <1>1, <1>3 DEF Running
<1>9. Pending'
  BY <1>1 DEF Pending, InProc
<1>10. Justified'
  <2>1. Streams \subseteq Slots /\ "timer" \in Slots
    BY DEF Slots
  <2>2. \A x \in Slots : slot'[x] # NULL => slot[x] # NULL
    BY <1>3
  <2> QED
    BY <1>1, <2>1, <2>2 DEF IInv, Justified
<1> QED
  BY <1>1, <1>4, <1>5, <1>7, <1>8, <1>9, <1>10 DEF IInv

\* The omit timer resets the statistics and the reporter.
LEMMA OmitInv ==
    ASSUME IInv, omit_timer_proc
    PROVE  IInv'
<1> DEFINE q == ResetIfSet("stats") \o ResetIfSet("reporter")
<1>1. Fires("omit") /\ slot' = [slot EXCEPT !["omit"] = NULL] /\ todo' = q /\ done' = done
  BY DEF omit_timer_proc
<1>2. q \in Seq(Calls) /\ \A i \in 1..Len(q) : q[i].f = "reset" /\ slot[q[i].slot] # NULL
  BY ResetsIs
<1>3. \A i \in 1..Len(q) : q[i].slot \in {"stats", "reporter"}
  BY ResetsIs
<1> HIDE DEF q
<1>4. \A x \in {"stats", "reporter"} : slot'[x] = slot[x]
  BY <1>1 DEF IInv, Shape, Slots
<1>5. done' \in BOOLEAN
  BY <1>1 DEF IInv, Shape
<1>6. \A i \in 1..Len(todo') : /\ todo'[i].f = "reset" /\ todo'[i].slot \in {"stats", "reporter"}
                               /\ slot'[todo'[i].slot] # NULL
  BY <1>1, <1>2, <1>3, <1>4
<1> QED
  BY <1>1, <1>2, <1>5, <1>6, ClearedInv

\* The client's duration timer plans no call.
LEMMA TestTimerInv ==
    ASSUME IInv, test_timer_proc
    PROVE  IInv'
<1>1. Fires("timer") /\ slot' = [slot EXCEPT !["timer"] = NULL] /\ done' = TRUE /\ todo' = todo
  BY DEF test_timer_proc
<1>2. todo = <<>>
  BY <1>1, FiresFacts
<1>3. todo' \in Seq(Calls) /\ 1..Len(todo') = {}
  BY <1>1, <1>2
<1>4. done' \in BOOLEAN
  BY <1>1
<1> QED
  BY <1>1, <1>3, <1>4, ClearedInv

\* The server's watchdog frees the streams.
LEMMA ServerTimerInv ==
    ASSUME IInv, server_timer_proc
    PROVE  IInv'
<1> DEFINE q == FreeStreams(alive)
<1>1. /\ Fires("timer") /\ slot' = [slot EXCEPT !["timer"] = NULL] /\ done' = TRUE
      /\ role = "server" /\ todo' = IF done THEN todo ELSE q
  BY DEF server_timer_proc
<1>2. todo = <<>>
  BY <1>1, FiresFacts
<1>3. alive \subseteq Streams
  BY DEF IInv, Shape
<1>4. q \in Seq(Calls) /\ \A i \in 1..Len(q) : q[i].f = "free" /\ q[i].slot \in alive
  BY <1>3, FreeStreamsIs
<1> HIDE DEF q
<1>5. /\ todo' \in Seq(Calls)
      /\ \A i \in 1..Len(todo') : todo'[i].f = "free" /\ todo'[i].slot \in Streams
  <2>1. CASE done
    <3>1. todo' = <<>>
      BY <1>1, <1>2, <2>1
    <3> QED
      BY <3>1
  <2>2. CASE ~done
    <3>1. todo' = q
      BY <1>1, <2>2
    <3> QED
      BY <1>3, <1>4, <3>1
  <2> QED
    BY <2>1, <2>2
<1>6. done' \in BOOLEAN
  BY <1>1
<1> QED
  BY <1>1, <1>5, <1>6, ClearedInv

\* The other callbacks touch no timer.
LEMMA OtherTimerInv ==
    ASSUME IInv, other_timer_proc
    PROVE  IInv'
<1>1. PICK s \in {"stats", "reporter"} \cup Streams : Fires(s)
  BY DEF other_timer_proc
<1>2. slot' = slot /\ done' = done /\ todo' = todo
  BY DEF other_timer_proc
<1>3. /\ pc = "run" /\ pc' = "proc" /\ role' = role /\ h' = h /\ alive' = alive /\ now' = now
      /\ cur' = cur /\ cur \in Active /\ h.owner[cur] = s
      /\ saved' \in Ptr
      /\ saved' = NULL \/ (saved' \in Active /\ saved' # cur)
      /\ Active' = Active /\ Free' = Free /\ Listed' /\ todo = <<>>
      /\ \A t \in Active : slot[h.owner[t]] = t
  BY <1>1, FiresFacts
<1>4. Shape'
  BY <1>2, <1>3 DEF IInv, Shape
<1>5. SlotsScheduled' /\ Justified'
  BY <1>2, <1>3 DEF IInv, SlotsScheduled, Justified
<1>6. Owned'
  BY <1>2, <1>3 DEF Owned
<1>7. Periodic(s)
  BY <1>1, TimerAssumption DEF Periodic
<1>8. Running'
  BY <1>2, <1>3, <1>7 DEF Running
<1>9. Pending'
  <2>1. 1..Len(todo') = {}
    BY <1>2, <1>3
  <2> QED
    BY <1>3, <2>1 DEF Pending
<1> QED
  BY <1>3, <1>4, <1>5, <1>6, <1>8, <1>9 DEF IInv

\* Which call is made when: timers are created at the start, reset by callbacks,
\* cancelled by the watchdog and at the end.
LEMMA CallFacts ==
    ASSUME IInv, todo # <<>>
    PROVE  LET c == Head(todo)
           IN  /\ c = todo[1] /\ 1 \in 1..Len(todo) /\ c.slot \in Slots /\ Tail(todo) \in Seq(Calls)
               /\ \/ pc = "start" /\ c.f = "create" /\ c.slot \in Vacant
                  \/ pc = "proc" /\ c.f = "reset" /\ slot[c.slot] # NULL
                  \/ /\ pc = "proc" /\ c.f = "free" /\ c.slot \in Streams
                     /\ role = "server" /\ done /\ h.owner[cur] = "timer"
                  \/ pc = "cleanup" /\ c.f \in {"cancel", "free"}
<1> DEFINE c == Head(todo)
<1>1. todo \in Seq(Calls)
  BY DEF IInv, Shape
<1>2. 1 \in 1..Len(todo) /\ c = todo[1] /\ c \in Calls /\ Tail(todo) \in Seq(Calls)
  BY <1>1, TodoStep
<1> HIDE DEF c
<1>3. c.slot \in Slots
  BY <1>2 DEF Calls
<1>4. pc \in {"start", "proc", "cleanup"}
  BY DEF IInv, Shape, Pending
<1>5. pc = "start" => c.f = "create" /\ c.slot \in Vacant
  BY <1>2 DEF IInv, Pending, Plan
<1>6. pc = "proc" => \/ c.f = "reset" /\ slot[c.slot] # NULL
                     \/ /\ c.f = "free" /\ c.slot \in Streams
                        /\ role = "server" /\ done /\ h.owner[cur] = "timer"
  BY <1>2 DEF IInv, Pending, InProc
<1>7. pc = "cleanup" => c.f \in {"cancel", "free"}
  BY <1>2 DEF IInv, Pending, Ending
<1> QED
  BY <1>2, <1>3, <1>4, <1>5, <1>6, <1>7 DEF c

\* As long as a slot is vacant there is a struct for its timer: each scheduled
\* timer is that of another slot.
LEMMA StructLeft ==
    ASSUME IInv, pc = "start", NEW s \in Slots, slot[s] = NULL, Free = {}
    PROVE  h.used # Timers
<1> SUFFICES ASSUME h.used = Timers PROVE FALSE
  OBVIOUS
<1>1. Active = Timers /\ NULL \notin Timers
  BY InvFacts DEF IInv, Listed
<1>2. \A t \in Timers : h.owner[t] \in Slots /\ slot[h.owner[t]] = t
  BY <1>1, SlotFacts
<1> DEFINE f == [t \in Timers |-> h.owner[t]]
<1>3. f \in Injection(Timers, Slots \ {s})
  BY <1>1, <1>2 DEF Injection, IsInjective
<1> HIDE DEF f
<1>4. IsFiniteSet(Slots) /\ IsFiniteSet(Timers) /\ Cardinality(Timers) = N /\ N \in Nat
  BY TimerFacts
<1>5. IsFiniteSet(Slots \ {s}) /\ Cardinality(Slots \ {s}) = N - 1
  BY <1>4, FS_RemoveElement DEF N
<1>6. N <= N - 1
  BY <1>3, <1>4, <1>5, FS_Injection
<1> QED
  BY <1>4, <1>6

\* tmr_create fills a vacant slot.
LEMMA CreateInv ==
    ASSUME IInv, Create
    PROVE  IInv'
<1> DEFINE s == Head(todo).slot
           t == NewTimer(h)
<1>1. /\ todo # <<>> /\ Head(todo).f = "create" /\ h' = tmr_create(h, s)
      /\ slot' = [slot EXCEPT ![s] = t] /\ todo' = Tail(todo)
      /\ role' = role /\ alive' = alive /\ done' = done /\ now' = now /\ pc' = pc
      /\ cur' = cur /\ saved' = saved
  BY DEF Create
<1>2. /\ Head(todo) = todo[1] /\ 1 \in 1..Len(todo) /\ s \in Slots /\ Tail(todo) \in Seq(Calls)
      /\ pc = "start" /\ s \in Vacant
  BY <1>1, CallFacts
<1> HIDE DEF s
<1>3. h \in Heap /\ Lists(h, Active, Free) /\ Active \cup Free = h.used /\ now \in Nat
      /\ slot \in [Slots -> Ptr] /\ todo \in Seq(Calls)
  BY DEF IInv, Shape, Listed
<1>4. slot[s] = NULL /\ (s = "timer" => Duration # 0) /\ (s \in Streams => role \in Paced)
  BY <1>2 DEF Vacant
<1>5. Free = {} => h.used # Timers
  BY <1>2, <1>4, StructLeft
<1>6. t \in Timers /\ t \notin Active
  BY <1>3, <1>5, NewTimerIs
<1>7. /\ h' \in Heap /\ Lists(h', Active \cup {t}, Free \ {t})
      /\ h'.used = h.used \cup {t} /\ h'.owner = [h.owner EXCEPT ![t] = s]
  BY <1>1, <1>2, <1>3, <1>5, UsecsIs, CreateLists
<1>8. Active' = Active \cup {t} /\ Free' = Free \ {t} /\ Lists(h', Active', Free')
  BY <1>7, NextLists
<1> HIDE DEF t
<1>9. Listed'
  BY <1>3, <1>7, <1>8 DEF Listed
<1>10. /\ slot' \in [Slots -> Ptr] /\ slot'[s] = t
       /\ \A x \in Slots : x # s => slot'[x] = slot[x]
  BY <1>1, <1>2, <1>3, <1>6 DEF Ptr
<1>11. /\ h'.owner[t] = s /\ \A x \in Active : x # t /\ h'.owner[x] = h.owner[x]
       /\ Active \subseteq Timers /\ NULL \notin Timers
  BY <1>3, <1>6, <1>7, InvFacts DEF IInv, Heap
<1>12. Shape'
  BY <1>1, <1>2, <1>7, <1>10 DEF IInv, Shape
<1>13. SlotsScheduled'
  <2> SUFFICES ASSUME NEW x \in Slots, slot'[x] # NULL
               PROVE  slot'[x] \in Active \cup {t} /\ h'.owner[slot'[x]] = x
    BY <1>8 DEF SlotsScheduled
  <2>1. CASE x = s
    BY <1>10, <1>11, <2>1
  <2>2. CASE x # s
    BY <1>10, <1>11, <2>2, SlotFacts
  <2> QED
    BY <2>1, <2>2
<1>14. Owned'
  <2> SUFFICES ASSUME NEW x \in Active \cup {t}
               PROVE  slot'[h'.owner[x]] = x
    BY <1>8 DEF Owned
  <2>1. CASE x = t
    BY <1>10, <1>11, <2>1
  <2>2. CASE x \in Active
    <3>1. h.owner[x] \in Slots /\ slot[h.owner[x]] = x /\ x # NULL
      BY <1>2, <1>11, <2>2, SlotFacts
    <3> QED
      BY <1>4, <1>10, <1>11, <2>2, <3>1
  <2> QED
    BY <2>1, <2>2
<1>15. Running'
  BY <1>1, <1>2 DEF Running
<1>16. Pending'
  <2>1. alive = Streams /\ Plan(todo, Vacant)
    BY <1>2 DEF IInv, Pending
  <2> DEFINE q == Tail(todo)
  <2>2. \A i \in 1..Len(q) : i \in Nat /\ i + 1 \in 1..Len(todo) /\ q[i] = todo[i + 1]
    BY <1>1, <1>3, TodoStep
  <2> HIDE DEF q
  <2>3. ASSUME NEW i \in 1..Len(q)
        PROVE  q[i].f = "create" /\ q[i].slot \in Vacant'
    <3>1. q[i].f = "create" /\ q[i].slot \in Vacant
      BY <2>1, <2>2 DEF Plan
    <3>2. q[i].slot # s
      <4>1. i + 1 # 1
        BY <2>2
      <4> QED
        BY <1>2, <2>1, <2>2, <4>1 DEF Plan, s
    <3> QED
      BY <1>1, <1>10, <3>1, <3>2 DEF Vacant
  <2>4. ASSUME NEW i \in 1..Len(q), NEW j \in 1..Len(q), q[i].slot = q[j].slot
        PROVE  i = j
    <3>1. i + 1 = j + 1
      BY <2>1, <2>2, <2>4 DEF Plan
    <3> QED
      BY <2>2, <3>1
  <2>5. Plan(q, Vacant')
    BY <1>2, <2>3, <2>4 DEF Plan, q
  <2> QED
    BY <1>1, <1>2, <2>1, <2>5 DEF Pending, q
<1>17. Justified'
  <2>1. \A x \in Slots : slot'[x] # NULL => x = s \/ slot[x] # NULL
    BY <1>10
  <2>2. Streams \subseteq Slots /\ "timer" \in Slots
    BY DEF Slots
  <2>3. alive = Streams
    BY <1>2 DEF IInv, Pending
  <2> QED
    BY <1>1, <1>4, <2>1, <2>2, <2>3 DEF IInv, Justified
<1> QED
  BY <1>9, <1>12, <1>13, <1>14, <1>15, <1>16, <1>17 DEF IInv

\* tmr_cancel at the end of a test, and what a callback frees.
LEMMA CancelInv ==
    ASSUME IInv, Cancel
    PROVE  IInv'
<1> DEFINE s == Head(todo).slot
           t == slot[s]
<1>1. /\ todo # <<>> /\ Head(todo).f \in {"cancel", "free"}
      /\ h' = IF t = NULL THEN h ELSE tmr_cancel(h, t)
      /\ slot' = [slot EXCEPT ![s] = NULL] /\ todo' = Tail(todo) /\ alive' = alive \ {s}
      /\ role' = role /\ done' = done /\ now' = now /\ pc' = pc
      /\ cur' = cur /\ saved' = saved
  BY DEF Cancel
<1>2. /\ Head(todo) = todo[1] /\ 1 \in 1..Len(todo) /\ s \in Slots /\ Tail(todo) \in Seq(Calls)
      /\ \/ pc = "proc" /\ s \in Streams /\ role = "server" /\ done /\ h.owner[cur] = "timer"
         \/ pc = "cleanup"
  BY <1>1, CallFacts
<1> HIDE DEF s
<1>3. h \in Heap /\ Lists(h, Active, Free) /\ Active \cup Free = h.used
      /\ slot \in [Slots -> Ptr] /\ todo \in Seq(Calls)
  BY DEF IInv, Shape, Listed
<1>4. slot' \in [Slots -> Ptr] /\ slot'[s] = NULL /\ \A x \in Slots : x # s => slot'[x] = slot[x]
  BY <1>1, <1>2, <1>3 DEF Ptr
<1>5. /\ Active' = Active \ {t} /\ Listed' /\ h' \in Heap /\ h'.owner = h.owner
  <2>1. CASE t = NULL
    <3>1. h' = h /\ NULL \notin Active
      BY <1>1, <2>1, InvFacts DEF IInv
    <3>2. Active' = Active /\ Listed'
      BY <3>1, SameLists DEF IInv
    <3> QED
      BY <1>3, <2>1, <3>1, <3>2
  <2>2. CASE t # NULL
    <3>1. t \in Active
      BY <1>2, <2>2, SlotFacts
    <3>2. h' \in Heap /\ Lists(h', Active \ {t}, Free \cup {t}) /\ h'.used = h.used /\ h'.owner = h.owner
      BY <1>1, <1>3, <2>2, <3>1, CancelLists
    <3>3. Active' = Active \ {t} /\ Free' = Free \cup {t} /\ Lists(h', Active', Free')
      BY <3>2, NextLists
    <3> HIDE DEF t
    <3> QED
      BY <1>3, <3>1, <3>2, <3>3 DEF Listed
  <2> QED
    BY <2>1, <2>2
<1>6. Shape'
  BY <1>1, <1>2, <1>4, <1>5 DEF IInv, Shape
<1>7. SlotsScheduled'
  <2> SUFFICES ASSUME NEW x \in Slots, slot'[x] # NULL
               PROVE  slot'[x] \in Active \ {t} /\ h.owner[slot'[x]] = x
    BY <1>5 DEF SlotsScheduled
  <2>1. x # s /\ slot'[x] = slot[x]
    BY <1>4
  <2>2. slot[x] \in Active /\ h.owner[slot[x]] = x
    BY <2>1, SlotFacts
  <2>3. slot[x] # t
    BY <1>2, <2>1, <2>2, SlotFacts
  <2> QED
    BY <2>1, <2>2, <2>3
<1>8. Owned'
  <2> SUFFICES ASSUME NEW x \in Active, x # t
               PROVE  \/ slot'[h.owner[x]] = x
                      \/ pc = "proc" /\ x = cur /\ slot'[h.owner[x]] = NULL /\ ~Periodic(h.owner[x])
    BY <1>1, <1>5 DEF Owned, Periodic
  <2>1. h.owner[x] \in Slots
    BY SlotFacts
  <2>2. \/ slot[h.owner[x]] = x
        \/ pc = "proc" /\ x = cur /\ slot[h.owner[x]] = NULL /\ ~Periodic(h.owner[x])
    BY DEF IInv, Owned
  <2> QED
    BY <1>4, <2>1, <2>2
<1>9. Running'
  <2>1. CASE pc = "proc"
    <3>1. /\ cur \in Active /\ s \in Streams /\ role = "server" /\ done /\ h.owner[cur] = "timer"
          /\ saved = NULL \/ (saved \in Active /\ saved # cur) \/ Gone(saved)
          /\ ~Periodic(h.owner[cur]) => slot[h.owner[cur]] = NULL
      BY <1>2, <2>1 DEF IInv, Running
    <3>2. s # "timer" /\ "timer" \in Slots /\ Active \subseteq Timers
      BY <3>1, TimerAssumption, InvFacts DEF IInv, Slots
    <3>3. cur # t /\ cur \in Active'
      <4>1. t # NULL => h.owner[t] = s
        BY <1>2, SlotFacts
      <4>2. cur # NULL
        BY <3>1, InvFacts DEF IInv
      <4> QED
        BY <1>5, <3>1, <3>2, <4>1, <4>2
    <3>4. slot'["timer"] = slot["timer"]
      BY <1>4, <3>2
    <3>5. saved = NULL \/ (saved \in Active' /\ saved # cur) \/ Gone(saved)'
      <4>1. CASE saved \in Active /\ saved = t /\ saved # NULL
        <5>1. h.owner[saved] = s /\ s \in alive /\ role \in Paced
          BY <1>2, <3>1, <4>1, SlotFacts DEF IInv, Justified
        <5> QED
          BY <1>1, <1>5, <3>1, <3>2, <4>1, <5>1 DEF Gone
      <4>2. CASE saved \in Active /\ saved # t
        BY <1>5, <3>1, <4>2 DEF Gone
      <4>3. CASE Gone(saved)
        BY <1>1, <1>5, <4>3 DEF Gone
      <4> QED
        BY <3>1, <4>1, <4>2, <4>3
    <3> QED
      BY <1>1, <1>5, <2>1, <3>1, <3>3, <3>4, <3>5 DEF Running, Periodic
  <2>2. CASE pc = "cleanup"
    BY <1>1, <2>2 DEF Running
  <2> QED
    BY <1>2, <2>1, <2>2
<1> DEFINE q == Tail(todo)
<1>10. /\ \A i \in 1..Len(q) : i \in Nat /\ i + 1 \in 1..Len(todo) /\ q[i] = todo[i + 1]
       /\ \A i \in 1..Len(todo) : i # 1 => i - 1 \in 1..Len(q) /\ q[i - 1] = todo[i]
  BY <1>1, <1>3, TodoStep
<1> HIDE DEF q
<1>11. Pending'
  <2>1. CASE pc = "proc"
    <3>1. s \in Streams /\ \A x \in {"stats", "reporter"} : x \in Slots /\ x # s
      BY <1>2, <2>1, TimerAssumption DEF Slots
    <3>2. \A i \in 1..Len(todo) : InProc(todo[i])
      BY <2>1 DEF IInv, Pending
    <3>3. \A x \in {"stats", "reporter"} : slot'[x] = slot[x]
      BY <1>4, <3>1
    <3>4. ASSUME NEW i \in 1..Len(q)
          PROVE  \/ /\ q[i].f = "reset" /\ q[i].slot \in {"stats", "reporter"}
                    /\ slot'[q[i].slot] # NULL
                 \/ /\ q[i].f = "free" /\ q[i].slot \in Streams
                    /\ role' = "server" /\ done' /\ h'.owner[cur'] = "timer"
      <4>1. InProc(todo[i + 1]) /\ q[i] = todo[i + 1]
        BY <1>10, <3>2
      <4> QED
        BY <1>1, <1>5, <3>3, <4>1 DEF InProc
    <3> QED
      BY <1>1, <2>1, <3>4 DEF Pending, InProc, q
  <2>2. CASE pc = "cleanup"
    <3>1. Ending(todo, {x \in Slots : slot[x] # NULL})
      BY <2>2 DEF IInv, Pending
    <3>2. \A i \in 1..Len(q) : q[i].f \in {"cancel", "free"}
      BY <1>10, <3>1 DEF Ending
    <3>3. ASSUME NEW x \in Slots, slot'[x] # NULL
          PROVE  \E i \in 1..Len(q) : q[i].slot = x
      <4>1. x # s /\ slot[x] # NULL
        BY <1>4, <3>3
      <4>2. PICK i \in 1..Len(todo) : todo[i].slot = x
        BY <3>1, <4>1 DEF Ending
      <4>3. i # 1
        BY <1>2, <4>1, <4>2 DEF s
      <4>4. i - 1 \in 1..Len(q) /\ q[i - 1].slot = x
        BY <1>10, <4>2, <4>3
      <4> QED
        BY <4>4
    <3>4. Ending(q, {x \in Slots : slot'[x] # NULL})
      BY <1>2, <3>2, <3>3 DEF Ending, q
    <3> QED
      BY <1>1, <2>2, <3>4 DEF Pending, q
  <2> QED
    BY <1>2, <2>1, <2>2
<1>12. Justified'
  <2>1. Streams \subseteq Slots /\ "timer" \in Slots
    BY DEF Slots
  <2>2. \A x \in Slots : slot'[x] # NULL => x # s /\ slot[x] # NULL
    BY <1>4
  <2> QED
    BY <1>1, <2>1, <2>2 DEF IInv, Justified
<1> QED
  BY <1>5, <1>6, <1>7, <1>8, <1>9, <1>11, <1>12 DEF IInv

\* tmr_reset in a callback reorders the list.
LEMMA ResetInv ==
    ASSUME IInv, Reset
    PROVE  IInv'
<1> DEFINE s == Head(todo).slot
           t == slot[s]
           q == Tail(todo)
<1>1. /\ todo # <<>> /\ Head(todo).f = "reset" /\ h' = tmr_reset(h, t)
      /\ slot' = slot /\ todo' = q /\ alive' = alive
      /\ role' = role /\ done' = done /\ now' = now /\ pc' = pc
      /\ cur' = cur /\ saved' = saved
  BY DEF Reset
<1>2. s \in Slots /\ q \in Seq(Calls) /\ pc = "proc" /\ t # NULL
  BY <1>1, CallFacts
<1> HIDE DEF s
<1>3. h \in Heap /\ Lists(h, Active, Free) /\ Active \cup Free = h.used /\ now \in Nat
      /\ todo \in Seq(Calls)
  BY DEF IInv, Shape, Listed
<1>4. t \in Active
  BY <1>2, SlotFacts
<1> HIDE DEF t
<1> DEFINE v == now + Usecs(h.owner[t])
<1>5. v \in Nat
  BY <1>3, UsecsIs
<1>6. h' = list_resort([h EXCEPT !.time[t] = v], t)
  BY <1>1 DEF tmr_reset
<1> HIDE DEF v
<1>7. h' \in Heap /\ Lists(h', Active, Free) /\ h'.used = h.used /\ h'.owner = h.owner
  BY <1>3, <1>4, <1>5, <1>6, ResortLists
<1>8. Active' = Active /\ Free' = Free /\ Lists(h', Active', Free')
  BY <1>7, NextLists
<1>9. Listed'
  BY <1>3, <1>7, <1>8 DEF Listed
<1>10. Shape'
  BY <1>1, <1>2, <1>7 DEF IInv, Shape
<1>11. SlotsScheduled' /\ Owned' /\ Justified'
  BY <1>1, <1>7, <1>8 DEF IInv, SlotsScheduled, Owned, Justified, Periodic
<1>12. Running'
  BY <1>1, <1>2, <1>7, <1>8 DEF IInv, Running, Gone, Periodic
<1>13. Pending'
  <2>1. \A i \in 1..Len(q) : i + 1 \in 1..Len(todo) /\ q[i] = todo[i + 1]
    BY <1>1, <1>3, TodoStep
  <2> HIDE DEF q
  <2>2. \A i \in 1..Len(todo) : InProc(todo[i])
    BY <1>2 DEF IInv, Pending
  <2>3. ASSUME NEW i \in 1..Len(q)
        PROVE  \/ /\ q[i].f = "reset" /\ q[i].slot \in {"stats", "reporter"}
                  /\ slot'[q[i].slot] # NULL
               \/ /\ q[i].f = "free" /\ q[i].slot \in Streams
                  /\ role' = "server" /\ done' /\ h'.owner[cur'] = "timer"
    BY <1>1, <1>7, <2>1, <2>2 DEF InProc
  <2> QED
    BY <1>1, <1>2, <2>3 DEF Pending, InProc
<1> QED
  BY <1>9, <1>10, <1>11, <1>12, <1>13 DEF IInv

\* tmr_run reschedules a periodic timer and cancels another, whose slot is
\* cleared; the timer it saved is another one and still scheduled, or gone.
LEMMA ProcReturnsInv ==
    ASSUME IInv, ProcReturns
    PROVE  IInv'
<1> DEFINE v == h.time[cur] + Usecs(h.owner[cur])
<1>1. /\ pc = "proc" /\ pc' = "run" /\ todo = <<>> /\ todo' = todo /\ cur' = saved
      /\ h' = (IF Periodic(h.owner[cur]) THEN list_resort([h EXCEPT !.time[cur] = v], cur)
                                         ELSE tmr_cancel(h, cur))
      /\ slot' = slot /\ alive' = alive /\ role' = role /\ done' = done /\ now' = now
      /\ saved' = saved
  BY DEF ProcReturns
<1>2. h \in Heap /\ Lists(h, Active, Free) /\ Active \cup Free = h.used
  BY DEF IInv, Shape, Listed
<1>3. /\ cur \in Active
      /\ saved = NULL \/ (saved \in Active /\ saved # cur) \/ Gone(saved)
      /\ ~Periodic(h.owner[cur]) => slot[h.owner[cur]] = NULL
  BY <1>1 DEF IInv, Running
<1>4. v \in Nat
  BY <1>2, <1>3, UsecsIs, InvFacts DEF IInv, Heap
<1>5. NULL \notin Active /\ \A x \in Active : h.owner[x] \in Slots
  BY InvFacts, SlotFacts DEF IInv
<1>6. \A x \in Active : x # cur => slot[h.owner[x]] = x
  BY DEF IInv, Owned
<1> HIDE DEF v
<1>7. CASE Periodic(h.owner[cur])
  <2>1. h' \in Heap /\ Lists(h', Active, Free) /\ h'.used = h.used /\ h'.owner = h.owner
    BY <1>1, <1>2, <1>3, <1>4, <1>7, ResortLists
  <2>2. Active' = Active /\ Free' = Free /\ Lists(h', Active', Free')
    BY <2>1, NextLists
  <2>3. Listed'
    BY <1>2, <2>1, <2>2 DEF Listed
  <2>4. Shape'
    BY <1>1, <2>1 DEF IInv, Shape
  <2>5. slot[h.owner[cur]] = cur
    BY <1>3, <1>7 DEF IInv, Owned
  <2>6. Owned'
    BY <1>1, <1>6, <2>1, <2>2, <2>5 DEF Owned
  <2>7. SlotsScheduled' /\ Justified'
    BY <1>1, <2>1, <2>2 DEF IInv, SlotsScheduled, Justified
  <2>8. Running' /\ Pending'
    BY <1>1, <1>3, <2>1, <2>2 DEF Running, Gone, Pending
  <2> QED
    BY <2>3, <2>4, <2>6, <2>7, <2>8 DEF IInv
<1>8. CASE ~Periodic(h.owner[cur])
  <2>1. h' \in Heap /\ Lists(h', Active \ {cur}, Free \cup {cur}) /\ h'.used = h.used
        /\ h'.owner = h.owner
    BY <1>1, <1>2, <1>3, <1>8, CancelLists
  <2>2. Active' = Active \ {cur} /\ Free' = Free \cup {cur} /\ Lists(h', Active', Free')
    BY <2>1, NextLists
  <2>3. Listed'
    BY <1>2, <1>3, <2>1, <2>2 DEF Listed
  <2>4. Shape'
    BY <1>1, <2>1 DEF IInv, Shape
  <2>5. Owned'
    BY <1>1, <1>6, <2>1, <2>2 DEF Owned
  <2>6. SlotsScheduled'
    <3>1. \A x \in Slots : slot[x] # NULL => slot[x] # cur
      BY <1>3, <1>8, SlotFacts
    <3> QED
      BY <1>1, <2>1, <2>2, <3>1 DEF IInv, SlotsScheduled
  <2>7. Justified'
    BY <1>1 DEF IInv, Justified
  <2>8. Running' /\ Pending'
    BY <1>1, <1>3, <2>1, <2>2 DEF Running, Gone, Pending
  <2> QED
    BY <2>3, <2>4, <2>5, <2>6, <2>7, <2>8 DEF IInv
<1> QED
  BY <1>7, <1>8

\* Every step preserves the invariant.
LEMMA NextInv ==
    ASSUME IInv, [Next]_vars
    PROVE  IInv'
<1>1. CASE Step
  <2>1. CASE Create BY <2>1, CreateInv
  <2>2. CASE Cancel BY <2>2, CancelInv
  <2>3. CASE Reset BY <2>3, ResetInv
  <2>4. CASE Started BY <2>4, StartedInv
  <2>5. CASE tmr_run BY <2>5, RunInv
  <2>6. CASE RunEnds BY <2>6, RunEndsInv
  <2>7. CASE ProcReturns BY <2>7, ProcReturnsInv
  <2>8. CASE TestOver BY <2>8, TestOverInv
  <2>9. CASE omit_timer_proc BY <2>9, OmitInv
  <2>10. CASE test_timer_proc BY <2>10, TestTimerInv
  <2>11. CASE server_timer_proc BY <2>11, ServerTimerInv
  <2>12. CASE other_timer_proc BY <2>12, OtherTimerInv
  <2>13. CASE RunsFreed BY <2>13, RunsFreedInv
  <2> QED
    BY <1>1, <2>1, <2>2, <2>3, <2>4, <2>5, <2>6, <2>7, <2>8, <2>9, <2>10, <2>11, <2>12, <2>13 DEF Step
<1>2. CASE Tick BY <1>2, TickInv
<1>3. CASE TestStart BY <1>3, TestStartInv
<1>4. CASE TestEnd BY <1>4, TestEndInv
<1>5. CASE UNCHANGED vars
  <2>1. /\ role' = role /\ h' = h /\ slot' = slot /\ alive' = alive /\ done' = done /\ now' = now
        /\ pc' = pc /\ todo' = todo /\ cur' = cur /\ saved' = saved
    BY <1>5 DEF vars
  <2>2. Active' = Active /\ Free' = Free /\ Listed'
    BY <2>1, SameLists DEF IInv
  <2>3. Shape' /\ SlotsScheduled' /\ Owned' /\ Running' /\ Justified'
    BY <2>1, <2>2 DEF IInv, Shape, SlotsScheduled, Owned, Running, Gone, Justified
  <2>4. Vacant' = Vacant
    BY <2>1 DEF Vacant
  <2>5. Pending'
    BY <2>1, <2>4 DEF IInv, Pending, InProc
  <2> QED
    BY <2>2, <2>3, <2>5 DEF IInv
<1> QED
  BY <1>1, <1>2, <1>3, <1>4, <1>5 DEF Next

\* What the invariant implies.
LEMMA InvImplies ==
    ASSUME IInv
    PROVE  TypeOK /\ WellLinked /\ SlotsScheduled /\ RunsScheduled /\ NoTimerLeft
<1>1. TypeOK
  BY DEF IInv, Shape, Heap, Ptr, TypeOK
<1>2. WellLinked
  <2>1. h \in Heap /\ Lists(h, Active, Free) /\ Active \cup Free = h.used
    BY DEF IInv, Shape, Listed
  <2> QED
    BY <2>1, ListFacts DEF WellLinked
<1>3. RunsScheduled
  BY DEF IInv, Running, Gone, RunsScheduled
<1>4. NoTimerLeft
  <2> SUFFICES ASSUME pc = "idle", NEW t \in Active PROVE FALSE
    BY DEF NoTimerLeft
  <2>1. slot[h.owner[t]] = t /\ h.owner[t] \in Slots /\ t # NULL
    BY SlotFacts, InvFacts DEF IInv
  <2>2. \A s \in Slots : slot[s] = NULL
    BY DEF IInv, Pending
  <2> QED
    BY <2>1, <2>2
<1> QED
  BY <1>1, <1>2, <1>3, <1>4 DEF IInv

\* The invariant holds throughout.
THEOREM Invariant == Spec => []IInv
<1>1. Init => IInv
  BY InitInv
<1>2. IInv /\ [Next]_vars => IInv'
  BY NextInv
<1> QED
  BY <1>1, <1>2, PTL DEF Spec

\* Type correctness of the timers, their lists and the phases of a test.
THEOREM TimersTyped == Spec => []TypeOK
BY Invariant, InvImplies, PTL

\* list_add, list_remove and list_resort keep the timers a sorted, doubly linked
\* list that ends, and every struct on one of the two lists, through all calls a
\* test and its callbacks make, whatever the number of streams.
THEOREM ListsStayLinked == Spec => []WellLinked
BY Invariant, InvImplies, PTL

\* The timer pointers of a test and its streams never outlive their timers.
THEOREM SlotsStayScheduled == Spec => []SlotsScheduled
BY Invariant, InvImplies, PTL

\* tmr_run fetches its next timer before the callback that may reset or cancel
\* timers, and still only runs scheduled ones, except send timers of streams that
\* the server's watchdog has freed, for any number of streams and any times.
THEOREM OnlyScheduledRun == Spec => []RunsScheduled
BY Invariant, InvImplies, PTL

\* cleanup_server and iperf_reset_test, or iperf_free_test, leave no timer
\* scheduled for the next test.
THEOREM NothingLeft == Spec => []NoTimerLeft
BY Invariant, InvImplies, PTL
=============================================================================
