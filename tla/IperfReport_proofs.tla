------------------------- MODULE IperfReport_proofs -------------------------
(***************************************************************************)
(* Proofs about the reports of a TCP test, for any number of streams and   *)
(* any length of the test.  The sums over the streams need what            *)
(* SumFunctionOnSet does: its lemmas come first.                           *)
(***************************************************************************)
EXTENDS IperfReport, FiniteSetTheorems, SequenceTheorems, WellFoundedInduction, TLAPS

-----------------------------------------------------------------------------
(* Sums. *)

\* What holds of a finite set if it holds of one whenever it holds of all its
\* smaller subsets holds of the set.
LEMMA SubsetsInduction ==
    ASSUME NEW S, IsFiniteSet(S), NEW P,
           \A T \in SUBSET S : (\A U \in SUBSET T : U # T => U \in P) => T \in P
    PROVE  \A T \in SUBSET S : T \in P
<1> DEFINE bad == {T \in SUBSET S : T \notin P}
<1> SUFFICES ASSUME bad # {} PROVE FALSE
  OBVIOUS
<1>1. \A T \in SUBSET S : IsFiniteSet(T)
  BY FS_Subset
<1>2. bad \subseteq FiniteSubsetsOf(S)
  BY <1>1 DEF FiniteSubsetsOf
<1> HIDE DEF bad
<1>3. PICK T \in bad : \A U \in bad : ~ (<<U, T>> \in StrictSubsetOrdering(S))
  <2> DEFINE R == StrictSubsetOrdering(S)
             F == FiniteSubsetsOf(S)
  <2>1. IsWellFoundedOn(R, F)
    BY FS_StrictSubsetOrderingWellFounded
  <2>2. bad \subseteq F /\ bad # {}
    BY <1>2
  <2> HIDE DEF R, F
  <2>3. \E T \in bad : \A U \in bad : ~ (<<U, T>> \in R)
    BY <2>1, <2>2, WFMin, SMT
  <2> QED
    BY <2>3 DEF R
<1> USE DEF bad
<1>4. \A U \in SUBSET T : U # T => U \in P
  BY <1>3 DEF StrictSubsetOrdering
<1> QED
  BY <1>3, <1>4

Pick(T) == CHOOSE x \in T : TRUE

\* The equation of the recursive function that SumFunctionOnSet is defined by.
Sums(f, S, g) ==
    g = [T \in SUBSET S |-> IF T = {} THEN 0 ELSE f[Pick(T)] + g[T \ {Pick(T)}]]

\* A sum is the value of the table of its partial sums.
LEMMA SumIs ==
    ASSUME NEW f, NEW S
    PROVE  SumFunctionOnSet(f, S) = (CHOOSE g : Sums(f, S, g))[S]
BY Zenon DEF SumFunctionOnSet, FoldFunctionOnSet, MapThenFoldSet, Sums, Pick

\* The two subsets of the recursion.
LEMMA PickIs ==
    ASSUME NEW T, T # {}
    PROVE  Pick(T) \in T /\ T \ {Pick(T)} \subseteq T /\ T \ {Pick(T)} # T
BY DEF Pick

\* Two such tables agree wherever both are defined.
LEMMA SumsUnique ==
    ASSUME NEW S, IsFiniteSet(S), NEW f, NEW g, NEW h,
           NEW A, NEW B, A \in SUBSET S, B \in SUBSET S, Sums(f, A, g), Sums(f, B, h)
    PROVE  \A T \in SUBSET S : T \subseteq A /\ T \subseteq B => g[T] = h[T]
<1> DEFINE P == {T \in SUBSET S : T \subseteq A /\ T \subseteq B => g[T] = h[T]}
<1>1. ASSUME NEW T \in SUBSET S, \A U \in SUBSET T : U # T => U \in P
      PROVE  T \in P
  <2> SUFFICES ASSUME T \subseteq A, T \subseteq B PROVE g[T] = h[T]
    OBVIOUS
  <2>1. /\ g[T] = IF T = {} THEN 0 ELSE f[Pick(T)] + g[T \ {Pick(T)}]
        /\ h[T] = IF T = {} THEN 0 ELSE f[Pick(T)] + h[T \ {Pick(T)}]
    BY DEF Sums
  <2>2. CASE T # {}
    <3>1. T \ {Pick(T)} \in SUBSET T /\ T \ {Pick(T)} # T
      BY <2>2, PickIs
    <3>2. g[T \ {Pick(T)}] = h[T \ {Pick(T)}]
      BY <1>1, <3>1
    <3> QED
      BY <2>1, <3>2
  <2> QED
    BY <2>1, <2>2
<1> HIDE DEF P
<1>2. \A T \in SUBSET S : T \in P
  BY <1>1, SubsetsInduction
<1> QED
  BY <1>2 DEF P

\* There is such a table.
LEMMA SumsExist ==
    ASSUME NEW S, IsFiniteSet(S), NEW f
    PROVE  \E g : Sums(f, S, g)
<1> DEFINE P == {T \in SUBSET S : \E g : Sums(f, T, g)}
           G(T) == CHOOSE g : Sums(f, T, g)
<1>1. ASSUME NEW T \in SUBSET S, \A U \in SUBSET T : U # T => U \in P
      PROVE  T \in P
  <2> DEFINE rest == T \ {Pick(T)}
             g == [U \in SUBSET T |-> IF U # T THEN G(U)[U]
                                      ELSE IF T = {} THEN 0 ELSE f[Pick(T)] + G(rest)[rest]]
  <2>1. \A U \in SUBSET T : U # T => Sums(f, U, G(U))
    BY <1>1
  <2>2. ASSUME NEW U \in SUBSET T
        PROVE  g[U] = IF U = {} THEN 0 ELSE f[Pick(U)] + g[U \ {Pick(U)}]
    <3> DEFINE less == U \ {Pick(U)}
    <3>1. CASE U = {}
      <4>1. CASE U = T
        BY <3>1, <4>1
      <4>2. CASE U # T
        <5>1. G(U)[U] = 0
          <6>1. Sums(f, U, G(U))
            BY <2>1, <4>2
          <6> HIDE DEF G
          <6> QED
            BY <3>1, <6>1 DEF Sums
        <5> QED
          BY <3>1, <4>2, <5>1
      <4> QED
        BY <4>1, <4>2
    <3>2. CASE U # {}
      <4>1. less \in SUBSET T /\ less # T /\ less \in SUBSET U /\ less # U
        BY <3>2, PickIs
      <4>2. g[less] = G(less)[less]
        BY <4>1
      <4>3. CASE U = T
        BY <3>2, <4>2, <4>3
      <4>4. CASE U # T
        <5>1. Sums(f, U, G(U)) /\ Sums(f, less, G(less))
          BY <2>1, <4>1, <4>4
        <5>2. G(U)[U] = f[Pick(U)] + G(U)[less]
          <6> HIDE DEF G
          <6> QED
            BY <3>2, <5>1 DEF Sums
        <5>3. G(U)[less] = G(less)[less]
          <6> HIDE DEF G, less
          <6> QED
            BY <4>1, <5>1, SumsUnique
        <5> QED
          BY <3>2, <4>2, <4>4, <5>2, <5>3
      <4> QED
        BY <4>3, <4>4
    <3> QED
      BY <3>1, <3>2
  <2>3. Sums(f, T, g)
    <3> HIDE DEF G
    <3> QED
      BY <2>2 DEF Sums
  <2> QED
    BY <2>3
<1> HIDE DEF P
<1>2. \A T \in SUBSET S : T \in P
  BY <1>1, SubsetsInduction
<1> QED
  BY <1>2 DEF P

\* so the sum over a set is that of one element and of the rest, and so on.
Table(f, S, g) ==
    \A T \in SUBSET S :
        /\ T = {} => g[T] = 0
        /\ T # {} => g[T] = f[Pick(T)] + g[T \ {Pick(T)}]

\* A sum is the last entry of a table that adds one element after another.
LEMMA SumsUp ==
    ASSUME NEW S, IsFiniteSet(S), NEW f
    PROVE  \E g : SumFunctionOnSet(f, S) = g[S] /\ Table(f, S, g)
<1> DEFINE g == CHOOSE h : Sums(f, S, h)
<1>1. Sums(f, S, g)
  BY SumsExist
<1>2. SumFunctionOnSet(f, S) = g[S]
  BY SumIs
<1> HIDE DEF g
<1>3. Table(f, S, g)
  BY <1>1 DEF Sums, Table
<1> QED
  BY <1>2, <1>3

\* One step of the table.
Rest(T) == T \ {Pick(T)}

\* The empty sum.
LEMMA TableBase ==
    ASSUME NEW S, NEW f, NEW g, Table(f, S, g)
    PROVE  g[{}] = 0
BY DEF Table

\* One element more.
LEMMA TableStep ==
    ASSUME NEW S, NEW f, NEW g, Table(f, S, g), NEW T \in SUBSET S, T # {}
    PROVE  /\ g[T] = f[Pick(T)] + g[Rest(T)]
           /\ Pick(T) \in T /\ Pick(T) \in S
           /\ Rest(T) \in SUBSET T /\ Rest(T) # T /\ Rest(T) \in SUBSET S
           /\ \A x \in T : x = Pick(T) \/ x \in Rest(T)
<1>1. g[T] = f[Pick(T)] + g[Rest(T)]
  BY DEF Table, Rest
<1> QED
  BY <1>1, PickIs DEF Rest

\* A sum of integers is an integer.
LEMMA SumInt ==
    ASSUME NEW S, IsFiniteSet(S), NEW f, \A x \in S : f[x] \in Int
    PROVE  SumFunctionOnSet(f, S) \in Int
<1>1. PICK g : SumFunctionOnSet(f, S) = g[S] /\ Table(f, S, g)
  BY SumsUp
<1> DEFINE P == {T \in SUBSET S : g[T] \in Int}
<1>2. ASSUME NEW T \in SUBSET S, \A U \in SUBSET T : U # T => U \in P
      PROVE  T \in P
  <2>1. CASE T = {}
    BY <1>1, <2>1, TableBase
  <2>2. CASE T # {}
    <3>1. /\ g[T] = f[Pick(T)] + g[Rest(T)] /\ Pick(T) \in S
          /\ Rest(T) \in SUBSET T /\ Rest(T) # T
      BY <1>1, <2>2, TableStep
    <3>2. Rest(T) \in P
      BY <1>2, <3>1
    <3> QED
      BY <3>1, <3>2
  <2> QED
    BY <2>1, <2>2
<1> HIDE DEF P
<1>3. \A T \in SUBSET S : T \in P
  BY <1>2, SubsetsInduction
<1> QED
  BY <1>1, <1>3 DEF P

\* A sum of natural numbers is no less than any of them.
LEMMA SumNat ==
    ASSUME NEW S, IsFiniteSet(S), NEW f, \A x \in S : f[x] \in Nat
    PROVE  /\ SumFunctionOnSet(f, S) \in Nat
           /\ \A x \in S : f[x] <= SumFunctionOnSet(f, S)
<1>1. PICK g : SumFunctionOnSet(f, S) = g[S] /\ Table(f, S, g)
  BY SumsUp
<1> DEFINE P == {T \in SUBSET S : g[T] \in Nat /\ \A x \in T : f[x] <= g[T]}
<1>2. ASSUME NEW T \in SUBSET S, \A U \in SUBSET T : U # T => U \in P
      PROVE  T \in P
  <2>1. CASE T = {}
    <3>1. g[T] = 0
      BY <1>1, <2>1, TableBase
    <3>2. \A x \in T : f[x] <= g[T]
      BY <2>1
    <3> QED
      BY <3>1, <3>2
  <2>2. CASE T # {}
    <3>0. /\ g[T] = f[Pick(T)] + g[Rest(T)] /\ Pick(T) \in S
          /\ Rest(T) \in SUBSET T /\ Rest(T) # T
          /\ \A x \in T : x = Pick(T) \/ x \in Rest(T)
      BY <1>1, <2>2, TableStep
    <3>1. Rest(T) \in P
      BY <1>2, <3>0
    <3>2. f[Pick(T)] \in Nat /\ g[Rest(T)] \in Nat
      BY <3>0, <3>1
    <3>3. ASSUME NEW x \in T
          PROVE  f[x] <= g[T]
      <4>1. CASE x = Pick(T)
        BY <3>0, <3>2, <4>1
      <4>2. CASE x # Pick(T)
        <5>1. f[x] \in Nat /\ f[x] <= g[Rest(T)]
          BY <3>0, <3>1, <4>2
        <5> QED
          BY <3>0, <3>2, <5>1
      <4> QED
        BY <4>1, <4>2
    <3> QED
      BY <3>0, <3>2, <3>3
  <2> QED
    BY <2>1, <2>2
<1> HIDE DEF P
<1>3. \A T \in SUBSET S : T \in P
  BY <1>2, SubsetsInduction
<1> QED
  BY <1>1, <1>3 DEF P

\* Sums are added element by element.
LEMMA SumAdds ==
    ASSUME NEW S, IsFiniteSet(S), NEW f, NEW g, NEW h,
           \A x \in S : f[x] \in Int /\ g[x] \in Int /\ h[x] = f[x] + g[x]
    PROVE  SumFunctionOnSet(h, S) = SumFunctionOnSet(f, S) + SumFunctionOnSet(g, S)
<1>1. PICK a : SumFunctionOnSet(f, S) = a[S] /\ Table(f, S, a)
  BY SumsUp
<1>2. PICK b : SumFunctionOnSet(g, S) = b[S] /\ Table(g, S, b)
  BY SumsUp
<1>3. PICK c : SumFunctionOnSet(h, S) = c[S] /\ Table(h, S, c)
  BY SumsUp
<1> DEFINE P == {T \in SUBSET S : a[T] \in Int /\ b[T] \in Int /\ c[T] = a[T] + b[T]}
<1>4. ASSUME NEW T \in SUBSET S, \A U \in SUBSET T : U # T => U \in P
      PROVE  T \in P
  <2>1. CASE T = {}
    <3>1. a[T] = 0 /\ b[T] = 0 /\ c[T] = 0
      BY <1>1, <1>2, <1>3, <2>1, TableBase
    <3> QED
      BY <3>1
  <2>2. CASE T # {}
    <3> DEFINE x == Pick(T)
               U == Rest(T)
    <3>0. x \in S /\ U \in SUBSET T /\ U # T
      BY <1>1, <2>2, TableStep
    <3>1. x \in S /\ U \in P
      BY <1>4, <3>0
    <3>2. a[T] = f[x] + a[U] /\ b[T] = g[x] + b[U] /\ c[T] = h[x] + c[U]
      BY <1>1, <1>2, <1>3, <2>2, TableStep
    <3> HIDE DEF x, U
    <3>3. /\ f[x] \in Int /\ g[x] \in Int /\ h[x] = f[x] + g[x]
          /\ a[U] \in Int /\ b[U] \in Int /\ c[U] = a[U] + b[U]
      BY <3>1
    <3> QED
      BY <3>2, <3>3
  <2> QED
    BY <2>1, <2>2
<1> HIDE DEF P
<1>5. \A T \in SUBSET S : T \in P
  BY <1>4, SubsetsInduction
<1> QED
  BY <1>1, <1>2, <1>3, <1>5 DEF P

\* Zeros add up to zero.
LEMMA SumZero ==
    ASSUME NEW S, IsFiniteSet(S), NEW f, \A x \in S : f[x] = 0
    PROVE  SumFunctionOnSet(f, S) = 0
<1>1. PICK g : SumFunctionOnSet(f, S) = g[S] /\ Table(f, S, g)
  BY SumsUp
<1> DEFINE P == {T \in SUBSET S : g[T] = 0}
<1>2. ASSUME NEW T \in SUBSET S, \A U \in SUBSET T : U # T => U \in P
      PROVE  T \in P
  <2>1. CASE T = {}
    BY <1>1, <2>1, TableBase
  <2>2. CASE T # {}
    <3>1. /\ g[T] = f[Pick(T)] + g[Rest(T)] /\ Pick(T) \in S
          /\ Rest(T) \in SUBSET T /\ Rest(T) # T
      BY <1>1, <2>2, TableStep
    <3>2. Rest(T) \in P
      BY <1>2, <3>1
    <3> QED
      BY <3>1, <3>2
  <2> QED
    BY <2>1, <2>2
<1> HIDE DEF P
<1>3. \A T \in SUBSET S : T \in P
  BY <1>2, SubsetsInduction
<1> QED
  BY <1>1, <1>3 DEF P

\* Equal summands have equal sums.
LEMMA SumSame ==
    ASSUME NEW S, IsFiniteSet(S), NEW f, NEW g, \A x \in S : f[x] \in Int /\ g[x] = f[x]
    PROVE  SumFunctionOnSet(f, S) = SumFunctionOnSet(g, S)
<1> DEFINE z == [x \in S |-> 0]
<1>1. SumFunctionOnSet(z, S) = 0
  BY SumZero
<1>2. SumFunctionOnSet(g, S) = SumFunctionOnSet(f, S) + SumFunctionOnSet(z, S)
  <2>1. \A x \in S : f[x] \in Int /\ z[x] \in Int /\ g[x] = f[x] + z[x]
    OBVIOUS
  <2> HIDE DEF z
  <2> QED
    BY <2>1, SumAdds
<1>3. SumFunctionOnSet(f, S) \in Int
  BY SumInt
<1> QED
  BY <1>1, <1>2, <1>3

-----------------------------------------------------------------------------
(* The invariant of one side, of the values its variables have. *)

Line == [bytes : Nat, retrans : Nat]

\* What a side has printed, before it gives up on the other one.
IsOut(o) ==
    /\ o = [lines |-> o.lines, sum |-> o.sum, marks |-> o.marks, read |-> o.read,
            base |-> o.base, summary |-> o.summary, total |-> o.total, how |-> o.how,
            omits |-> o.omits, counted |-> o.counted, cut |-> o.cut]
    /\ o.lines \in [Streams -> Line]
    /\ o.sum \in [BOOLEAN -> Int]
    /\ o.base \in [Streams -> Nat]
    /\ o.read \in [Streams -> Nat]
    /\ o.counted \in [Streams -> Result]
    /\ o.cut \in [Streams -> Nat]

Sends(x) == TRUE \in Directions(x)

States == {"TEST_RUNNING", "TEST_END", "EXCHANGE_RESULTS", "RESULTS_READ",
           "DISPLAY_RESULTS", "IPERF_DONE", "EXIT"}

TestState == [state : States, due : BOOLEAN, omitting : BOOLEAN, has : -1..1, other : -1..1]

\* A client has gathered its last interval and not printed it yet.
Pending(x, t) ==
    x = "c" /\ t.state \in {"TEST_END", "EXCHANGE_RESULTS", "RESULTS_READ", "DISPLAY_RESULTS"}

\* A side has not reported yet.
Active(x, t) == t.state = "TEST_RUNNING" \/ Pending(x, t)

\* The results of the other side have not come yet.
Alone(t) == t.state \in {"TEST_RUNNING", "TEST_END", "EXCHANGE_RESULTS"}

\* An interval is gathered and not printed.
Unprinted(x, t) == Pending(x, t) \/ (t.state = "TEST_RUNNING" /\ t.due)

\* What a side counts of a stream itself.
Own(x, r, n) == IF IsSender(x, n) THEN r[n].sent - r[n].omit ELSE r[n].recv

\* What the kernel of a sending side counted until it last gathered.
Cnt(o, n) == o.counted[n].prev - o.base[n]

\* What no line has yet.
Left(x, t, r, n) == IF Unprinted(x, t) THEN r[n].last.bytes ELSE r[n].now
LeftRetrans(x, t, r, n) == IF Unprinted(x, t) THEN r[n].last.retrans ELSE 0

\* Every stream has an interval, with the mark of the test.
Marked(t, r) == \A n \in Streams : r[n].last # None /\ r[n].last.omitted = t.omitting

\* The intervals of all streams are of one kind: there are none, they have the
\* mark of the test, or the omit period has ended since.
Uniform(t, r) ==
    \/ \A n \in Streams : r[n].last = None
    \/ Marked(t, r)
    \/ ~t.omitting /\ \A n \in Streams : r[n].last # None /\ r[n].last.omitted = TRUE

\* The sum lines stay with the lines of the streams.
SumsMatch(x, o) ==
    PrintsSum(x) => \A d \in Directions(x) :
        o.sum[d] = SumFunctionOnSet([n \in Streams |-> o.lines[n].bytes], StreamsOf(x, d))

\* The counters and the lines of one stream of a side that has not reported:
\* the lines printed and what is not printed yet is all there is.
GoingStream(x, t, r, k, o, n) ==
    /\ r[n].prev <= k[n] /\ o.cut[n] = 0
    /\ IsSender(x, n) => r[n].omit <= r[n].sent /\ r[n].retrans = r[n].prev - o.base[n]
    /\ ~IsSender(x, n) => r[n].omit = 0 /\ (Alone(t) => r[n].sent = 0)
    /\ Unprinted(x, t) => r[n].now = 0
    /\ t.omitting => o.lines[n] = [bytes |-> 0, retrans |-> 0]
    /\ ~t.omitting =>
           /\ o.lines[n].bytes + Left(x, t, r, n) = Own(x, r, n)
           /\ IsSender(x, n) => o.lines[n].retrans + LeftRetrans(x, t, r, n) <= r[n].retrans
    /\ Pending(x, t) => Own(x, r, n) = Own(x, o.counted, n) /\ r[n].prev = o.counted[n].prev

\* A side that has not reported yet.
Going(x, t, r, k, o) ==
    /\ t \in TestState /\ Active(x, t)
    /\ r \in [Streams -> Result] /\ k \in [Streams -> 0..MaxRetrans]
    /\ IsOut(o) /\ o.how = "none" /\ o.marks /\ SumsMatch(x, o)
    /\ Sends(x) => t.has = 1
    /\ Alone(t) => (~Sends(x) => t.has = 0) /\ t.other = 0
    /\ Uniform(t, r) /\ (Unprinted(x, t) => Marked(t, r))
    /\ Pending(x, t) => ~t.omitting
    /\ \A n \in Streams : GoingStream(x, t, r, k, o, n)

\* A report at the end tells what the side counted, of a stream ...
ReportedStream(x, o, n) ==
    /\ ~o.omits => /\ o.lines[n].bytes + o.cut[n] = Own(x, o.counted, n)
                   /\ IsSender(x, n) => o.lines[n].retrans <= Cnt(o, n)
    /\ o.how = "regular" => o.cut[n] = 0
    /\ IsSender(x, n) => /\ o.summary[n].sent = Own(x, o.counted, n)
                         /\ o.summary[n].retrans = Cnt(o, n)
    /\ ~IsSender(x, n) => /\ o.summary[n].recv = Own(x, o.counted, n)
                          /\ x = "s" \/ o.how = "signal" => o.summary[n].retrans = None

\* ... and of a direction.
Reported(x, o) ==
    o.how \in {"regular", "signal", "late"} =>
        /\ \A n \in Streams : ReportedStream(x, o, n)
        /\ PrintsSum(x) => \A d \in Directions(x) :
               (IF d THEN o.total[d].sent ELSE o.total[d].recv)
                   = SumFunctionOnSet([n \in Streams |-> Own(x, o.counted, n)], StreamsOf(x, d))

\* The last interval was omitted, its sums are printed as if it were not.
Stale(x, t, r) ==
    /\ PrintsSum(x) /\ IntervalOk(x, r) /\ ~t.omitting
    /\ \E n \in StreamsOf(x, FALSE) : r[n].last.omitted

\* A side that has reported, or has nothing more to report.
Over(x, t, r, k, o) ==
    /\ t \in TestState /\ r \in [Streams -> Result] /\ k \in [Streams -> 0..MaxRetrans]
    /\ x = "s" => t.state \notin {"TEST_END", "RESULTS_READ"}
    /\ \A n \in Streams : IsSender(x, n) => r[n].omit <= r[n].sent
    /\ Sends(x) => t.has = 1
    /\ Uniform(t, r)
    /\ o.how # "peer" => IsOut(o) /\ o.marks /\ SumsMatch(x, o)
    /\ o.how = "peer" => (o.marks <=> ~Stale(x, t, r))
    /\ x = "s" /\ t.state \in {"EXCHANGE_RESULTS", "DISPLAY_RESULTS"} => o.how = "regular"
    /\ t.state = "EXCHANGE_RESULTS" =>
           \A n \in Streams : /\ Own(x, r, n) = Own(x, o.counted, n)
                              /\ IsSender(x, n) => r[n].retrans = Cnt(o, n)
    /\ Reported(x, o)

SideOK(x, t, r, k, o) ==
    /\ Active(x, t) => Going(x, t, r, k, o)
    /\ ~Active(x, t) => Over(x, t, r, k, o)

SideInv(x) == SideOK(x, test[x], res[x], kern[x], out[x])

-----------------------------------------------------------------------------
(* The invariant of both sides. *)

Results == [has : -1..1, streams : [Streams -> [bytes : Nat, retrans : Int]]]

Message ==
    [kind : {"TEST_END", "EXCHANGE_RESULTS", "DISPLAY_RESULTS", "TERMINATE"}, results : {None}]
        \cup [kind : {"RESULTS"}, results : Results]

Items(q) == {q[i] : i \in 1..Len(q)}

Shape ==
    /\ opt \in Tests
    /\ test \in [Sides -> TestState]
    /\ res \in [Sides -> [Streams -> Result]]
    /\ kern \in [Sides -> [Streams -> 0..MaxRetrans]]
    /\ DOMAIN out = Sides /\ out = [x \in Sides |-> out[x]]
    /\ msg \in [Sides -> Seq(Message)]
    /\ ticks \in 0..opt.ticks

\* The server, in state t and with output o, has counted b blocks of stream n,
\* and c retransmissions if it sends the stream.
ServerHas(t, o, n, b, c) ==
    /\ t.state # "TEST_RUNNING"
    /\ b = Own("s", o.counted, n)
    /\ IsSender("s", n) => c = Cnt(o, n)

\* The results on their way to the client, in queue q, are those that the
\* server, in state t and with output o, has counted.
SentBy(t, o, q) ==
    \A m \in Items(q) : m.kind = "RESULTS" =>
        /\ Sends("s") => m.results.has = 1
        /\ \A n \in Streams :
               ServerHas(t, o, n, m.results.streams[n].bytes, m.results.streams[n].retrans)

ResultsSent == SentBy(test["s"], out["s"], msg["c"])

\* A client that has them, in state v and with results r, keeps them.
Told(v) ==
    Sends("s") => (Bidirectional => v.other = 1) /\ (~Bidirectional => v.has = 1)

KnownBy(v, r, t, o) ==
    v.state \in {"RESULTS_READ", "DISPLAY_RESULTS"} =>
        /\ Told(v)
        /\ \A n \in Streams :
               ServerHas(t, o, n, IF IsSender("c", n) THEN r[n].recv ELSE r[n].sent, r[n].retrans)

HasResults == KnownBy(test["c"], res["c"], test["s"], out["s"])

\* The client's report w has what both sides counted.
ReportedBy(w, t, o) ==
    w.how = "regular" =>
        \A n \in Streams :
            /\ ServerHas(t, o, n, IF IsSender("c", n) THEN w.summary[n].recv ELSE w.summary[n].sent,
                         w.summary[n].retrans)
            /\ ~IsSender("c", n) => w.summary[n].retrans \in Int

BothReported == ReportedBy(out["c"], test["s"], out["s"])

\* A signal while the client waits may add to the server's retransmissions.
LateBy(w, t, o) ==
    w.how = "late" =>
        \A n \in Streams : ~IsSender("c", n) /\ w.summary[n].retrans # None =>
            t.state # "TEST_RUNNING" /\ w.summary[n].retrans >= Cnt(o, n)

LateReported == LateBy(out["c"], test["s"], out["s"])

ReportInv ==
    /\ Shape
    /\ \A x \in Sides : SideInv(x)
    /\ ResultsSent
    /\ HasResults
    /\ BothReported
    /\ LateReported

-----------------------------------------------------------------------------
(* Streams and directions. *)

\* A test has a first stream and finitely many.
LEMMA StreamFacts ==
    ASSUME opt \in Tests
    PROVE  /\ 1 \in Streams /\ Streams \subseteq Nat /\ IsFiniteSet(Streams)
           /\ \A x \in Sides : \A d \in BOOLEAN :
                  StreamsOf(x, d) \subseteq Streams /\ IsFiniteSet(StreamsOf(x, d))
<1>1. opt.num \in Nat \ {0} /\ opt.mode \in Modes /\ opt.ticks \in Nat
  BY ReportAssumption
<1>2. 1 \in Streams /\ Streams \subseteq Nat
  BY <1>1 DEF Streams
<1>3. IsFiniteSet(Streams)
  <2> DEFINE k == IF Bidirectional THEN 2 * opt.num ELSE opt.num
  <2>1. k \in Int /\ Streams = 1..k
    BY <1>1 DEF Streams
  <2> HIDE DEF k
  <2>2. IsFiniteSet(1..k)
    BY <2>1, FS_Interval
  <2> QED
    BY <2>1, <2>2
<1>4. \A x \in Sides : \A d \in BOOLEAN : StreamsOf(x, d) \in SUBSET Streams
  BY DEF StreamsOf
<1> QED
  BY <1>2, <1>3, <1>4, FS_Subset

\* Who sends: a side has the direction TRUE iff some stream of it sends.
LEMMA DirectionFacts ==
    ASSUME opt \in Tests, NEW x \in Sides
    PROVE  /\ Directions(x) \subseteq BOOLEAN
           /\ Directions(x) = {FALSE} <=> ~Sends(x)
           /\ Bidirectional => Sends(x)
           /\ \A n \in Streams : IsSender(x, n) => Sends(x)
           /\ ~Bidirectional => \A n \in Streams : IsSender(x, n) <=> Sends(x)
           /\ \A n \in Streams : IsSender("s", n) <=> ~IsSender("c", n)
<1>1. ~Bidirectional => \A n \in Streams : IsSender(x, n) <=> IsSender(x, 1)
  BY DEF IsSender
<1>2. \A n \in Streams : IsSender("s", n) <=> ~IsSender("c", n)
  BY DEF IsSender
<1>3. IsSender(x, 1) \in BOOLEAN
  BY DEF IsSender
<1>4. CASE Bidirectional
  BY <1>2, <1>4 DEF Directions, Sends
<1>5. CASE ~Bidirectional
  BY <1>1, <1>2, <1>3, <1>5 DEF Directions, Sends
<1> QED
  BY <1>4, <1>5

-----------------------------------------------------------------------------
(* Printing. *)

\* What iperf_print_intermediate does with intervals that all have the mark of
\* the test: a line for every stream, or none where there is nothing to tell.
LEMMA PrintsIntervals ==
    ASSUME opt \in Tests, NEW x \in Sides, NEW t \in TestState, NEW r \in [Streams -> Result],
           NEW o, IsOut(o), NEW p, p = iperf_print_intermediate(x, t, r, o),
           Marked(t, r)
    PROVE  /\ IsOut(p)
           /\ p.summary = o.summary /\ p.total = o.total /\ p.how = o.how
           /\ p.read = o.read /\ p.base = o.base
           /\ p.counted = o.counted /\ p.cut = o.cut
           /\ o.marks => p.marks
           /\ ~t.omitting => \A n \in Streams :
                  /\ p.lines[n].bytes = o.lines[n].bytes + r[n].last.bytes
                  /\ p.lines[n].retrans \in Nat
                  /\ t.has = 1 /\ IsSender(x, n) =>
                         p.lines[n].retrans <= o.lines[n].retrans + r[n].last.retrans
           /\ ~t.omitting /\ PrintsSum(x) => \A d \in Directions(x) :
                  p.sum[d] = o.sum[d] + SumFunctionOnSet([n \in Streams |-> r[n].last.bytes],
                                                         StreamsOf(x, d))
<1> DEFINE S(d) == SumFunctionOnSet([n \in Streams |-> r[n].last.bytes], StreamsOf(x, d))
<1>1. \A n \in Streams : r[n].last \in Interval
  BY DEF Marked, Result
<1>2. \A n \in Streams : /\ r[n].last.bytes \in Nat /\ r[n].last.retrans \in Nat
                         /\ o.lines[n] \in Line
                         /\ o.lines[n].bytes \in Nat /\ o.lines[n].retrans \in Nat
  BY <1>1 DEF Interval, IsOut, Line
<1>3. \A d : S(d) \in Int \/ d \notin BOOLEAN
  <2> SUFFICES ASSUME NEW d \in BOOLEAN PROVE S(d) \in Int
    OBVIOUS
  <2> DEFINE f == [n \in Streams |-> r[n].last.bytes]
  <2>1. \A n \in StreamsOf(x, d) : f[n] \in Int
    BY <1>2, StreamFacts
  <2>2. IsFiniteSet(StreamsOf(x, d))
    BY StreamFacts
  <2> HIDE DEF f
  <2>3. SumFunctionOnSet(f, StreamsOf(x, d)) \in Int
    BY <2>1, <2>2, SumInt
  <2> QED
    BY <2>3 DEF f
<1>6. /\ Directions(x) \subseteq BOOLEAN
      /\ o.sum \in [BOOLEAN -> Int]
      /\ \A d \in Directions(x) : o.sum[d] \in Int
  BY DirectionFacts DEF IsOut
<1>4. CASE ~IntervalOk(x, r)
  <2>1. p = o
    BY <1>4 DEF iperf_print_intermediate
  <2>2. \A n \in Streams : r[n].last.bytes = 0
    BY <1>2, <1>4 DEF Marked, IntervalOk
  <2>3. ASSUME NEW d \in Directions(x) PROVE S(d) = 0
    <3> DEFINE f == [n \in Streams |-> r[n].last.bytes]
    <3>1. d \in BOOLEAN
      BY DirectionFacts
    <3>2. \A n \in StreamsOf(x, d) : f[n] = 0
      BY <2>2, <3>1, StreamFacts
    <3>3. IsFiniteSet(StreamsOf(x, d))
      BY <3>1, StreamFacts
    <3> HIDE DEF f
    <3>4. SumFunctionOnSet(f, StreamsOf(x, d)) = 0
      BY <3>2, <3>3, SumZero
    <3> QED
      BY <3>4 DEF f
  <2>4. \A n \in Streams :
            /\ p.lines[n].bytes = o.lines[n].bytes + r[n].last.bytes
            /\ p.lines[n].retrans \in Nat
            /\ p.lines[n].retrans <= o.lines[n].retrans + r[n].last.retrans
    BY <1>2, <2>1, <2>2
  <2> HIDE DEF S
  <2>5. \A d \in Directions(x) : p.sum[d] = o.sum[d] + S(d)
    BY <1>6, <2>1, <2>3
  <2> QED
    BY <2>1, <2>4, <2>5 DEF S
<1>5. CASE IntervalOk(x, r)
  <2> DEFINE lines == [n \in Streams |-> print_interval_results(x, t, r, o, n)]
             sum == [d \in BOOLEAN |->
                        IF d \in Directions(x) /\ PrintsSum(x) /\ ~SumOmits(x, t, r, d)
                        THEN o.sum[d] + S(d) ELSE o.sum[d]]
             marks == o.marks /\ \A d \in Directions(x) : \A n \in StreamsOf(x, d) :
                          PrintsSum(x) => SumOmits(x, t, r, d) = r[n].last.omitted
  <2>1. p = [o EXCEPT !.lines = lines, !.sum = sum, !.marks = marks]
    BY <1>5 DEF iperf_print_intermediate, IsOut
  <2>2. \A d \in Directions(x) : SumOmits(x, t, r, d) = t.omitting
    BY StreamFacts DEF Marked, SumOmits
  <2>3. o.marks => marks
    <3>1. \A d \in Directions(x) : \A n \in StreamsOf(x, d) : n \in Streams
      BY DEF StreamsOf
    <3> QED
      BY <2>2, <3>1 DEF Marked
  <2>4. \A n \in Streams :
            /\ lines[n] \in Line
            /\ t.omitting => lines[n] = o.lines[n]
            /\ ~t.omitting =>
                  /\ lines[n].bytes = o.lines[n].bytes + r[n].last.bytes
                  /\ t.has = 1 /\ IsSender(x, n) =>
                         lines[n].retrans = o.lines[n].retrans + r[n].last.retrans
    BY <1>2 DEF Marked, print_interval_results, Line
  <2> HIDE DEF S
  <2>5. /\ sum \in [BOOLEAN -> Int]
        /\ t.omitting => sum = o.sum
        /\ ~t.omitting /\ PrintsSum(x) => \A d \in Directions(x) : sum[d] = o.sum[d] + S(d)
    <3>1. \A d \in BOOLEAN : o.sum[d] \in Int /\ S(d) \in Int
      BY <1>3, <1>6
    <3>2. \A d \in BOOLEAN :
              sum[d] = IF d \in Directions(x) /\ PrintsSum(x) /\ ~SumOmits(x, t, r, d)
                       THEN o.sum[d] + S(d) ELSE o.sum[d]
      OBVIOUS
    <3>3. sum = [d \in BOOLEAN |-> sum[d]]
      OBVIOUS
    <3> HIDE DEF sum
    <3>4. sum \in [BOOLEAN -> Int]
      BY <3>1, <3>2, <3>3
    <3>5. ASSUME t.omitting PROVE sum = o.sum
      <4>1. \A d \in BOOLEAN : sum[d] = o.sum[d]
        BY <2>2, <3>2, <3>5
      <4> QED
        BY <1>6, <3>3, <4>1
    <3> QED
      BY <1>6, <2>2, <3>2, <3>4, <3>5
  <2>6. lines \in [Streams -> Line] /\ (t.omitting => lines = o.lines)
    <3> HIDE DEF S
    <3> QED
      BY <2>4 DEF IsOut
  <2> HIDE DEF lines, sum, marks
  <2>7. /\ IsOut(p)
        /\ p.summary = o.summary /\ p.total = o.total /\ p.how = o.how
        /\ p.read = o.read /\ p.base = o.base
        /\ p.counted = o.counted /\ p.cut = o.cut
        /\ p.lines = lines /\ p.sum = sum /\ p.marks = marks
    BY <2>1, <2>5, <2>6 DEF IsOut
  <2>8. ~t.omitting => \A n \in Streams :
            /\ p.lines[n].bytes = o.lines[n].bytes + r[n].last.bytes
            /\ p.lines[n].retrans \in Nat
            /\ t.has = 1 /\ IsSender(x, n) =>
                   p.lines[n].retrans <= o.lines[n].retrans + r[n].last.retrans
    BY <1>2, <2>4, <2>7 DEF Line
  <2> QED
    BY <2>3, <2>5, <2>6, <2>7, <2>8 DEF S
<1> QED
  BY <1>4, <1>5

\* In the omit period nothing is added up.
LEMMA OmitsIntervals ==
    ASSUME opt \in Tests, NEW x \in Sides, NEW t \in TestState, NEW r \in [Streams -> Result],
           NEW o, IsOut(o), NEW p, p = iperf_print_intermediate(x, t, r, o),
           Marked(t, r),
           t.omitting
    PROVE  /\ \A n \in Streams : p.lines[n] = o.lines[n]
           /\ \A d \in BOOLEAN : p.sum[d] = o.sum[d]
<1>1. CASE ~IntervalOk(x, r)
  BY <1>1 DEF iperf_print_intermediate
<1>2. CASE IntervalOk(x, r)
  <2>1. \A n \in Streams : print_interval_results(x, t, r, o, n) = o.lines[n]
    BY DEF Marked, print_interval_results
  <2>2. \A d \in BOOLEAN : SumOmits(x, t, r, d) = t.omitting
    BY StreamFacts DEF Marked, SumOmits
  <2>3. /\ p.lines = [n \in Streams |-> print_interval_results(x, t, r, o, n)]
        /\ \A d \in BOOLEAN : SumOmits(x, t, r, d) => p.sum[d] = o.sum[d]
    BY <1>2 DEF iperf_print_intermediate, IsOut
  <2> QED
    BY <2>1, <2>2, <2>3
<1> QED
  BY <1>1, <1>2

\* Printing an interval keeps the sum lines with the lines.
LEMMA PrintsSums ==
    ASSUME opt \in Tests, NEW x \in Sides, NEW t \in TestState, NEW r \in [Streams -> Result],
           NEW o, IsOut(o), NEW p, p = iperf_print_intermediate(x, t, r, o),
           Marked(t, r),
           SumsMatch(x, o)
    PROVE  SumsMatch(x, p)
<1> SUFFICES ASSUME PrintsSum(x), NEW d \in Directions(x)
             PROVE  p.sum[d] = SumFunctionOnSet([n \in Streams |-> p.lines[n].bytes],
                                                StreamsOf(x, d))
  BY DEF SumsMatch
<1> DEFINE a == [n \in Streams |-> o.lines[n].bytes]
           b == [n \in Streams |-> r[n].last.bytes]
           c == [n \in Streams |-> p.lines[n].bytes]
<1>1. o.sum[d] = SumFunctionOnSet(a, StreamsOf(x, d))
  BY DEF SumsMatch
<1>2. CASE t.omitting
  <2>1. /\ \A n \in Streams : p.lines[n] = o.lines[n]
        /\ \A e \in BOOLEAN : p.sum[e] = o.sum[e]
    BY <1>2, OmitsIntervals
  <2>2. p.sum[d] = o.sum[d] /\ c = a
    BY <2>1, DirectionFacts
  <2> QED
    BY <1>1, <2>2
<1>3. CASE ~t.omitting
  <2>1. p.sum[d] = o.sum[d] + SumFunctionOnSet(b, StreamsOf(x, d))
    BY <1>3, PrintsIntervals
  <2>2. \A n \in Streams : p.lines[n].bytes = o.lines[n].bytes + r[n].last.bytes
    BY <1>3, PrintsIntervals
  <2>3. \A n \in Streams : o.lines[n].bytes \in Nat /\ r[n].last.bytes \in Nat
    BY DEF Marked, IsOut, Line, Result, Interval
  <2>4. \A n \in Streams : a[n] \in Int /\ b[n] \in Int /\ c[n] = a[n] + b[n]
    BY <2>2, <2>3
  <2>5. StreamsOf(x, d) \subseteq Streams /\ IsFiniteSet(StreamsOf(x, d))
    BY StreamFacts, DirectionFacts
  <2> HIDE DEF a, b, c
  <2>6. SumFunctionOnSet(c, StreamsOf(x, d))
            = SumFunctionOnSet(a, StreamsOf(x, d)) + SumFunctionOnSet(b, StreamsOf(x, d))
    BY <2>4, <2>5, SumAdds
  <2> QED
    BY <1>1, <2>1, <2>6 DEF c
<1> QED
  BY <1>2, <1>3

\* What iperf_print_results says of this side's own counters.
LEMMA PrintsResults ==
    ASSUME opt \in Tests, NEW x \in Sides, NEW t \in TestState, NEW r \in [Streams -> Result],
           NEW o, IsOut(o), NEW p, p = iperf_print_results(x, t, r, o),
           Sends(x) => t.has = 1
    PROVE  /\ IsOut(p)
           /\ p.lines = o.lines /\ p.sum = o.sum /\ p.marks = o.marks /\ p.how = o.how
           /\ p.read = o.read /\ p.base = o.base
           /\ p.counted = o.counted /\ p.cut = o.cut
           /\ \A n \in Streams : p.summary[n] = StreamSummary(x, t, r, n)
           /\ \A n \in Streams :
                  /\ IsSender(x, n) => /\ p.summary[n].sent = Own(x, r, n)
                                       /\ p.summary[n].retrans = r[n].retrans
                  /\ ~IsSender(x, n) =>
                         /\ p.summary[n].recv = Own(x, r, n)
                         /\ (~Sends(x) => t.has = 0) /\ t.other = 0 => p.summary[n].retrans = None
           /\ PrintsSum(x) => \A d \in Directions(x) :
                  (IF d THEN p.total[d].sent ELSE p.total[d].recv)
                      = SumFunctionOnSet([n \in Streams |-> Own(x, r, n)], StreamsOf(x, d))
<1> DEFINE summary == [n \in Streams |-> StreamSummary(x, t, r, n)]
           total == [d \in BOOLEAN |-> SumSummary(x, t, r, d)]
<1>1. p = [o EXCEPT !.summary = summary, !.total = total]
  BY DEF iperf_print_results, IsOut
<1>2. \A n \in Streams : summary[n] = StreamSummary(x, t, r, n)
  OBVIOUS
<1>3. \A d \in BOOLEAN : total[d] = SumSummary(x, t, r, d)
  OBVIOUS
<1> HIDE DEF summary, total
<1>4. /\ IsOut(p)
      /\ p.lines = o.lines /\ p.sum = o.sum /\ p.marks = o.marks /\ p.how = o.how
      /\ p.read = o.read /\ p.base = o.base
      /\ p.counted = o.counted /\ p.cut = o.cut
      /\ p.summary = summary /\ p.total = total
  BY <1>1 DEF IsOut
<1>5. ASSUME NEW n \in Streams, IsSender(x, n)
      PROVE  p.summary[n].sent = Own(x, r, n) /\ p.summary[n].retrans = r[n].retrans
  <2>1. Sends(x)
    BY <1>5, DirectionFacts
  <2>2. t.has = 1 /\ IsSender(x, n) = TRUE
    BY <1>5, <2>1 DEF IsSender
  <2>3. Available(x, TRUE) /\ HasRetransmits(t, TRUE)
    BY <2>2 DEF Available, HasRetransmits
  <2>4. StreamSummary(x, t, r, n).sent = r[n].sent - r[n].omit
    BY <2>2, <2>3 DEF StreamSummary
  <2>5. StreamSummary(x, t, r, n).retrans = r[n].retrans
    BY <2>2, <2>3 DEF StreamSummary
  <2> QED
    BY <1>2, <1>4, <1>5, <2>4, <2>5 DEF Own
<1>6. ASSUME NEW n \in Streams, ~IsSender(x, n)
      PROVE  /\ p.summary[n].recv = Own(x, r, n)
             /\ (~Sends(x) => t.has = 0) /\ t.other = 0 => p.summary[n].retrans = None
  <2>2. (~Sends(x) => t.has = 0) /\ t.other = 0 => ~HasRetransmits(t, FALSE)
    BY <1>6, DirectionFacts DEF HasRetransmits
  <2>3. IsSender(x, n) = FALSE
    BY <1>6 DEF IsSender
  <2> QED
    <3>1. StreamSummary(x, t, r, n).recv = r[n].recv
      BY <2>3 DEF StreamSummary, Available
    <3>2. ~HasRetransmits(t, FALSE) => StreamSummary(x, t, r, n).retrans = None
      BY <2>3 DEF StreamSummary
    <3> QED
      BY <1>2, <1>4, <1>6, <2>2, <3>1, <3>2 DEF Own
<1>7. ASSUME PrintsSum(x), NEW d \in Directions(x)
      PROVE  (IF d THEN p.total[d].sent ELSE p.total[d].recv)
                 = SumFunctionOnSet([n \in Streams |-> Own(x, r, n)], StreamsOf(x, d))
  <2> DEFINE own == [n \in Streams |-> Own(x, r, n)]
             snt == [n \in Streams |-> r[n].sent - r[n].omit]
             rcv == [n \in Streams |-> r[n].recv]
  <2>1. d \in BOOLEAN
    BY DirectionFacts
  <2>2. StreamsOf(x, d) \subseteq Streams /\ IsFiniteSet(StreamsOf(x, d))
    BY <2>1, StreamFacts
  <2>3. Available(x, TRUE)
    BY DEF Available
  <2>4. \A n \in StreamsOf(x, d) : IsSender(x, n) = d
    BY DEF StreamsOf
  <2>5. \A n \in Streams : /\ snt[n] = r[n].sent - r[n].omit /\ snt[n] \in Int
                           /\ rcv[n] = r[n].recv /\ rcv[n] \in Int
                           /\ own[n] = IF IsSender(x, n) THEN snt[n] ELSE rcv[n]
    BY DEF Own, Result
  <2>6. p.total[d] = SumSummary(x, t, r, d)
    BY <1>3, <1>4, <2>1
  <2>7. CASE d = TRUE
    <3>1. p.total[d].sent = SumFunctionOnSet(snt, StreamsOf(x, d))
      BY <1>7, <2>3, <2>6, <2>7 DEF SumSummary
    <3> HIDE DEF own, snt, rcv
    <3>2. \A n \in StreamsOf(x, d) : snt[n] \in Int /\ own[n] = snt[n]
      BY <2>2, <2>4, <2>5, <2>7
    <3>3. SumFunctionOnSet(snt, StreamsOf(x, d)) = SumFunctionOnSet(own, StreamsOf(x, d))
      BY <2>2, <3>2, SumSame
    <3> QED
      BY <2>7, <3>1, <3>3 DEF own
  <2>8. CASE d = FALSE
    <3>1. p.total[d].recv = SumFunctionOnSet(rcv, StreamsOf(x, d))
      BY <1>7, <2>6, <2>8 DEF SumSummary, Available
    <3> HIDE DEF own, snt, rcv
    <3>2. \A n \in StreamsOf(x, d) : rcv[n] \in Int /\ own[n] = rcv[n]
      BY <2>2, <2>4, <2>5, <2>8
    <3>3. SumFunctionOnSet(rcv, StreamsOf(x, d)) = SumFunctionOnSet(own, StreamsOf(x, d))
      BY <2>2, <3>2, SumSame
    <3> QED
      BY <2>8, <3>1, <3>3 DEF own
  <2> QED
    BY <2>1, <2>7, <2>8
<1> QED
  BY <1>2, <1>4, <1>5, <1>6, <1>7

\* iperf_reporter_callback without its CASE.
LEMMA ReporterIs ==
    ASSUME NEW x, NEW t, NEW r, NEW o
    PROVE  /\ t.state = "TEST_RUNNING" =>
                  iperf_reporter_callback(x, t, r, o) = iperf_print_intermediate(x, t, r, o)
           /\ t.state \in {"TEST_END", "DISPLAY_RESULTS"} =>
                  iperf_reporter_callback(x, t, r, o)
                      = iperf_print_results(x, t, r, iperf_print_intermediate(x, t, r, o))
<1>1. "TEST_RUNNING" \notin {"TEST_END", "DISPLAY_RESULTS"}
  OBVIOUS
<1> QED
  BY <1>1, Zenon DEF iperf_reporter_callback

-----------------------------------------------------------------------------
(* Steps of one side. *)

\* The test never changes, so neither do its streams and directions.
LEMMA SameTest ==
    ASSUME opt' = opt
    PROVE  /\ Streams' = Streams
           /\ (Bidirectional' <=> Bidirectional)
           /\ \A x \in Sides : /\ Directions(x)' = Directions(x)
                               /\ Sends(x)' <=> Sends(x)
                               /\ PrintsSum(x)' <=> PrintsSum(x)
                               /\ \A n : IsSender(x, n)' <=> IsSender(x, n)
                               /\ \A d : StreamsOf(x, d)' = StreamsOf(x, d)
BY DEF Streams, Bidirectional, Directions, Sends, PrintsSum, IsSender, StreamsOf

\* The invariant of a side is about the values of its variables.
LEMMA SideNext ==
    ASSUME opt' = opt, NEW x \in Sides, SideOK(x, test'[x], res'[x], kern'[x], out'[x])
    PROVE  SideInv(x)'
<1>1. SumsMatch(x, out'[x]) => SumsMatch(x, out[x])'
  BY SameTest DEF SumsMatch
<1>2. Uniform(test'[x], res'[x]) => Uniform(test[x], res[x])'
  BY SameTest DEF Uniform, Marked
<1>3. Going(x, test'[x], res'[x], kern'[x], out'[x]) => Going(x, test[x], res[x], kern[x], out[x])'
  <2>1. Marked(test'[x], res'[x]) => Marked(test[x], res[x])'
    BY SameTest DEF Marked
  <2>2. IsOut(out'[x]) => IsOut(out[x])'
    BY SameTest DEF IsOut
  <2>3. \A n \in Streams : GoingStream(x, test'[x], res'[x], kern'[x], out'[x], n)
                               => GoingStream(x, test[x], res[x], kern[x], out[x], n)'
    BY SameTest DEF GoingStream, Own, Left, LeftRetrans
  <2> QED
    BY <1>1, <1>2, <2>1, <2>2, <2>3, SameTest DEF Going
<1>4. Over(x, test'[x], res'[x], kern'[x], out'[x]) => Over(x, test[x], res[x], kern[x], out[x])'
  <2>1. IsOut(out'[x]) => IsOut(out[x])'
    BY SameTest DEF IsOut
  <2>2. Stale(x, test'[x], res'[x]) <=> Stale(x, test[x], res[x])'
    BY SameTest DEF Stale, IntervalOk
  <2>3. Reported(x, out'[x]) => Reported(x, out[x])'
    BY SameTest DEF Reported, ReportedStream, Own, Cnt
  <2>4. \A n \in Streams : /\ (Own(x, res'[x], n) = Own(x, out'[x].counted, n))
                                  <=> (Own(x, res[x], n) = Own(x, out[x].counted, n))'
                           /\ Cnt(out'[x], n) = Cnt(out[x], n)'
    BY SameTest DEF Own, Cnt
  <2> QED
    BY <1>1, <1>2, <2>1, <2>2, <2>3, <2>4, SameTest DEF Over
<1> QED
  BY <1>3, <1>4 DEF SideOK, SideInv

\* A step of side x that keeps the invariants of both sides.
Steps(x) ==
    /\ Shape' /\ opt' = opt /\ \A y \in Sides : SideInv(y)'
    /\ \A y \in Sides : y # x => /\ test'[y] = test[y] /\ res'[y] = res[y]
                                 /\ kern'[y] = kern[y] /\ out'[y] = out[y]

\* A step of one side: the invariant of the other side stays.
LEMMA SideStep ==
    ASSUME Shape, \A y \in Sides : SideInv(y), opt' = opt, NEW x \in Sides,
           NEW t \in TestState, NEW r \in [Streams -> Result], NEW k \in [Streams -> 0..MaxRetrans],
           NEW o, SideOK(x, t, r, k, o),
           test' = [test EXCEPT ![x] = t], res' = [res EXCEPT ![x] = r],
           kern' = [kern EXCEPT ![x] = k], out' = [out EXCEPT ![x] = o],
           msg' \in [Sides -> Seq(Message)], ticks' \in 0..opt.ticks
    PROVE  /\ Steps(x)
           /\ test'[x] = t /\ res'[x] = r /\ kern'[x] = k /\ out'[x] = o
<1>2. /\ test'[x] = t /\ res'[x] = r /\ kern'[x] = k /\ out'[x] = o
      /\ \A y \in Sides : y # x => /\ test'[y] = test[y] /\ res'[y] = res[y]
                                   /\ kern'[y] = kern[y] /\ out'[y] = out[y]
  BY DEF Shape
<1>3. Message' = Message
  BY SameTest DEF Message, Results
<1>4. Shape'
  <2>1. test' \in [Sides -> TestState]
    BY DEF Shape
  <2>2. res' \in [Sides -> [Streams -> Result]]
    BY DEF Shape
  <2>3. kern' \in [Sides -> [Streams -> 0..MaxRetrans]]
    BY DEF Shape
  <2>4. DOMAIN out' = Sides /\ out' = [y \in Sides |-> out'[y]]
    BY DEF Shape
  <2> QED
    BY <1>3, <2>1, <2>2, <2>3, <2>4, SameTest DEF Shape
<1>5. ASSUME NEW y \in Sides
      PROVE  SideInv(y)'
  <2>1. CASE y = x
    BY <1>2, <2>1, SideNext
  <2>2. CASE y # x
    <3>1. SideOK(y, test[y], res[y], kern[y], out[y])
      BY DEF SideInv
    <3>2. SideOK(y, test'[y], res'[y], kern'[y], out'[y])
      BY <1>2, <2>2, <3>1
    <3> QED
      BY <3>2, SideNext
  <2> QED
    BY <2>1, <2>2
<1> QED
  BY <1>2, <1>4, <1>5 DEF Steps

Gathered(q, b, c, l) == [q EXCEPT !.now = 0, !.retrans = b, !.prev = c, !.last = l]

\* The fields of a result after an interval was gathered.
LEMMA GatheredIs ==
    ASSUME NEW q \in Result, NEW b \in Int, NEW c \in Nat, NEW l \in Interval
    PROVE  /\ Gathered(q, b, c, l) \in Result
           /\ Gathered(q, b, c, l).last = l /\ Gathered(q, b, c, l).now = 0
           /\ Gathered(q, b, c, l).retrans = b /\ Gathered(q, b, c, l).prev = c
           /\ Gathered(q, b, c, l).sent = q.sent /\ Gathered(q, b, c, l).omit = q.omit
           /\ Gathered(q, b, c, l).recv = q.recv
BY DEF Gathered, Result

\* What iperf_stats_callback gathers.
LEMMA Gathers ==
    ASSUME opt \in Tests, NEW x \in Sides, NEW short \in BOOLEAN,
           test[x] \in TestState, res[x] \in [Streams -> Result],
           kern[x] \in [Streams -> 0..MaxRetrans],
           \A n \in Streams : res[x][n].prev <= kern[x][n],
           NEW r, r = iperf_stats_callback(x, short)
    PROVE  /\ r \in [Streams -> Result]
           /\ Marked(test[x], r)
           /\ \A n \in Streams :
                  /\ r[n].sent = res[x][n].sent /\ r[n].omit = res[x][n].omit
                  /\ r[n].recv = res[x][n].recv /\ r[n].now = 0
                  /\ r[n].last.bytes = res[x][n].now /\ r[n].last.retrans \in Nat
                  /\ r[n].retrans = res[x][n].retrans + r[n].last.retrans
                  /\ r[n].prev = res[x][n].prev + r[n].last.retrans
                  /\ r[n].prev <= kern[x][n]
<1> DEFINE old(n) == res[x][n]
           more(n) == IF test[x].has = 1 THEN kern[x][n] - old(n).prev ELSE 0
           last(n) == [bytes |-> old(n).now, retrans |-> more(n),
                       omitted |-> test[x].omitting, short |-> short]
<1>1. \A n \in Streams :
        r[n] = [old(n) EXCEPT !.now = 0, !.retrans = @ + more(n),
                              !.prev = IF test[x].has = 1 THEN kern[x][n] ELSE @,
                              !.last = last(n)]
  BY DEF iperf_stats_callback
<1>2. ASSUME NEW n \in Streams
      PROVE  /\ r[n] \in Result
             /\ r[n].last # None /\ r[n].last.omitted = test[x].omitting
             /\ r[n].sent = old(n).sent /\ r[n].omit = old(n).omit
             /\ r[n].recv = old(n).recv /\ r[n].now = 0
             /\ r[n].last.bytes = old(n).now /\ r[n].last.retrans \in Nat
             /\ r[n].retrans = old(n).retrans + r[n].last.retrans
             /\ r[n].prev = old(n).prev + r[n].last.retrans
             /\ r[n].prev <= kern[x][n]
  <2>1. /\ old(n) \in Result /\ kern[x][n] \in Nat /\ old(n).prev <= kern[x][n]
        /\ old(n).prev \in Nat /\ old(n).now \in Nat /\ old(n).retrans \in Int
    BY ReportAssumption DEF Result
  <2>2. /\ more(n) \in Nat /\ old(n).prev + more(n) <= kern[x][n]
        /\ (IF test[x].has = 1 THEN kern[x][n] ELSE old(n).prev) = old(n).prev + more(n)
        /\ old(n).prev + more(n) \in Nat /\ old(n).retrans + more(n) \in Int
    BY <2>1
  <2>3. test[x].omitting \in BOOLEAN
    BY DEF TestState
  <2>4. r[n] = Gathered(old(n), old(n).retrans + more(n), old(n).prev + more(n), last(n))
    <3> HIDE DEF last, more
    <3> QED
      BY <1>1, <2>1, <2>2 DEF Result, Gathered
  <2> HIDE DEF old, more
  <2>5. /\ last(n) \in Interval
        /\ last(n).bytes = old(n).now /\ last(n).retrans = more(n)
        /\ last(n).omitted = test[x].omitting
    BY <2>1, <2>2, <2>3 DEF Interval
  <2> HIDE DEF last
  <2>6. last(n) # None
    BY <2>5, ReportAssumption
  <2>7. /\ r[n] \in Result /\ r[n].last = last(n)
        /\ r[n].sent = old(n).sent /\ r[n].omit = old(n).omit
        /\ r[n].recv = old(n).recv /\ r[n].now = 0
        /\ r[n].retrans = old(n).retrans + more(n)
        /\ r[n].prev = old(n).prev + more(n)
    <3> DEFINE b == old(n).retrans + more(n)
               c == old(n).prev + more(n)
    <3>1. old(n) \in Result /\ b \in Int /\ c \in Nat /\ last(n) \in Interval
      BY <2>1, <2>2, <2>5
    <3>2. r[n] = Gathered(old(n), b, c, last(n))
      BY <2>4
    <3> HIDE DEF b, c
    <3>3. /\ r[n] \in Result /\ r[n].last = last(n) /\ r[n].now = 0 /\ r[n].retrans = b
          /\ r[n].prev = c /\ r[n].sent = old(n).sent /\ r[n].omit = old(n).omit
          /\ r[n].recv = old(n).recv
      BY <3>1, <3>2, GatheredIs
    <3> QED
      BY <3>3 DEF b, c
  <2> QED
    BY <2>2, <2>5, <2>6, <2>7
<1>3. r = [n \in Streams |-> r[n]]
  BY DEF iperf_stats_callback
<1> QED
  BY <1>2, <1>3 DEF Marked

-----------------------------------------------------------------------------
(* Reports at the end. *)

\* LastReport, of the values of its variables.
FinalOut(x, t, r, o, h) ==
    [iperf_reporter_callback(x, t, r, o) EXCEPT !.how = h, !.omits = t.omitting]

\* The last interval is printed and then the summary.
LEMMA FinalReport ==
    ASSUME opt \in Tests, NEW x \in Sides, NEW t \in TestState,
           t.state \in {"TEST_END", "DISPLAY_RESULTS"},
           NEW r \in [Streams -> Result], Marked(t, r),
           NEW o, IsOut(o), o.marks, SumsMatch(x, o), Sends(x) => t.has = 1,
           NEW h, NEW p, p = FinalOut(x, t, r, o, h)
    PROVE  /\ IsOut(p) /\ p.how = h /\ p.base = o.base /\ p.marks /\ SumsMatch(x, p)
           /\ p.counted = o.counted /\ p.cut = o.cut /\ p.omits = t.omitting
           /\ ~t.omitting => \A n \in Streams :
                  /\ p.lines[n].bytes = o.lines[n].bytes + r[n].last.bytes
                  /\ p.lines[n].retrans \in Nat
                  /\ IsSender(x, n) =>
                         p.lines[n].retrans <= o.lines[n].retrans + r[n].last.retrans
           /\ \A n \in Streams : p.summary[n] = StreamSummary(x, t, r, n)
           /\ \A n \in Streams :
                  /\ IsSender(x, n) => /\ p.summary[n].sent = Own(x, r, n)
                                       /\ p.summary[n].retrans = r[n].retrans
                  /\ ~IsSender(x, n) =>
                         /\ p.summary[n].recv = Own(x, r, n)
                         /\ (~Sends(x) => t.has = 0) /\ t.other = 0 => p.summary[n].retrans = None
           /\ PrintsSum(x) => \A d \in Directions(x) :
                  (IF d THEN p.total[d].sent ELSE p.total[d].recv)
                      = SumFunctionOnSet([n \in Streams |-> Own(x, r, n)], StreamsOf(x, d))
<1> DEFINE a == iperf_print_intermediate(x, t, r, o)
           b == iperf_print_results(x, t, r, a)
<1>1. iperf_reporter_callback(x, t, r, o) = b
  BY ReporterIs
<1>2. /\ IsOut(a) /\ a.base = o.base /\ a.marks /\ a.counted = o.counted /\ a.cut = o.cut
      /\ ~t.omitting => \A n \in Streams :
             /\ a.lines[n].bytes = o.lines[n].bytes + r[n].last.bytes
             /\ a.lines[n].retrans \in Nat
             /\ t.has = 1 /\ IsSender(x, n) =>
                    a.lines[n].retrans <= o.lines[n].retrans + r[n].last.retrans
  <2>1. a = iperf_print_intermediate(x, t, r, o)
    OBVIOUS
  <2> HIDE DEF a
  <2> QED
    BY <2>1, PrintsIntervals
<1>3. SumsMatch(x, a)
  <2>1. a = iperf_print_intermediate(x, t, r, o)
    OBVIOUS
  <2> HIDE DEF a
  <2> QED
    BY <2>1, PrintsSums
<1> HIDE DEF a
<1>4. b = iperf_print_results(x, t, r, a)
  OBVIOUS
<1> HIDE DEF b
<1>5. /\ IsOut(b)
      /\ b.lines = a.lines /\ b.sum = a.sum /\ b.marks = a.marks /\ b.base = a.base
      /\ b.counted = a.counted /\ b.cut = a.cut
  <2> DEFINE summary == [n \in Streams |-> StreamSummary(x, t, r, n)]
             total == [d \in BOOLEAN |-> SumSummary(x, t, r, d)]
  <2>1. b = [a EXCEPT !.summary = summary, !.total = total]
    BY <1>4 DEF iperf_print_results
  <2> HIDE DEF summary, total
  <2> QED
    BY <1>2, <2>1 DEF IsOut
<1>6. /\ \A n \in Streams : b.summary[n] = StreamSummary(x, t, r, n)
      /\ \A n \in Streams :
             /\ IsSender(x, n) => /\ b.summary[n].sent = Own(x, r, n)
                                  /\ b.summary[n].retrans = r[n].retrans
             /\ ~IsSender(x, n) =>
                    /\ b.summary[n].recv = Own(x, r, n)
                    /\ (~Sends(x) => t.has = 0) /\ t.other = 0 => b.summary[n].retrans = None
      /\ PrintsSum(x) => \A d \in Directions(x) :
             (IF d THEN b.total[d].sent ELSE b.total[d].recv)
                 = SumFunctionOnSet([n \in Streams |-> Own(x, r, n)], StreamsOf(x, d))
  BY <1>2, <1>4, PrintsResults
<1>7. p = [b EXCEPT !.how = h, !.omits = t.omitting]
  BY <1>1 DEF FinalOut
<1>8. /\ IsOut(p) /\ p.how = h /\ p.base = o.base /\ p.marks = a.marks
      /\ p.counted = o.counted /\ p.cut = o.cut /\ p.omits = t.omitting
      /\ p.lines = a.lines /\ p.sum = a.sum /\ p.summary = b.summary /\ p.total = b.total
  BY <1>2, <1>5, <1>7 DEF IsOut
<1>9. SumsMatch(x, p)
  BY <1>3, <1>8 DEF SumsMatch
<1>10. ~t.omitting => \A n \in Streams :
            /\ p.lines[n].bytes = o.lines[n].bytes + r[n].last.bytes
            /\ p.lines[n].retrans \in Nat
            /\ IsSender(x, n) => p.lines[n].retrans <= o.lines[n].retrans + r[n].last.retrans
  <2>1. \A n \in Streams : IsSender(x, n) => t.has = 1
    BY DirectionFacts
  <2> QED
    BY <1>2, <1>8, <2>1
<1> QED
  BY <1>2, <1>6, <1>8, <1>9, <1>10

SameFlags(t, u) == u.omitting = t.omitting /\ u.has = t.has /\ u.other = t.other

InState(t, w) == [t EXCEPT !.state = w]

\* The fields of a test whose state changes.
LEMMA StateIs ==
    ASSUME NEW t \in TestState, NEW w \in States
    PROVE  /\ InState(t, w) \in TestState /\ InState(t, w).state = w
           /\ SameFlags(t, InState(t, w)) /\ InState(t, w).due = t.due
<1> DEFINE u == InState(t, w)
<1>1. u = [t EXCEPT !.state = w]
  BY DEF InState
<1> HIDE DEF u
<1>2. u \in TestState /\ u.state = w
  BY <1>1 DEF TestState
<1>3. u.omitting = t.omitting /\ u.has = t.has /\ u.other = t.other /\ u.due = t.due
  BY <1>1 DEF TestState
<1> QED
  BY <1>2, <1>3 DEF SameFlags, u

\* Side x, in state t, is about to report results r and to go to state u; q is
\* what it counted and c what was gathered and will not be printed.
Closing(x, t, u, r, k, o, q, c, h) ==
    /\ x \in Sides /\ t \in TestState /\ t.state \in {"TEST_END", "DISPLAY_RESULTS"}
    /\ u \in TestState /\ SameFlags(t, u)
    /\ r \in [Streams -> Result] /\ Marked(t, r) /\ k \in [Streams -> 0..MaxRetrans]
    /\ IsOut(o) /\ o.marks /\ SumsMatch(x, o) /\ (Sends(x) => t.has = 1)
    /\ q \in [Streams -> Result] /\ c \in [Streams -> Nat]
    /\ h \in {"regular", "signal", "late"}
    /\ h = "regular" => \A n \in Streams : c[n] = 0
    /\ x = "s" \/ h = "signal" => (~Sends(x) => t.has = 0) /\ t.other = 0
    /\ u.state \in {"IPERF_DONE", "EXIT"} \/ (x = "s" /\ u.state = "EXCHANGE_RESULTS" /\ h = "regular")
    /\ \A n \in Streams :
           /\ IsSender(x, n) => r[n].omit <= r[n].sent /\ r[n].retrans = q[n].prev - o.base[n]
           /\ Own(x, r, n) = Own(x, q, n)
           /\ ~t.omitting =>
                  /\ o.lines[n].bytes + r[n].last.bytes + c[n] = Own(x, r, n)
                  /\ IsSender(x, n) => o.lines[n].retrans + r[n].last.retrans <= r[n].retrans

\* What is remembered of a report.
Noted(p, q, c) == [p EXCEPT !.counted = q, !.cut = c]

\* A side that has printed its report.
LEMMA Finish ==
    ASSUME opt \in Tests, NEW x, NEW t, NEW u, NEW r, NEW k, NEW o, NEW q, NEW c, NEW h,
           Closing(x, t, u, r, k, o, q, c, h),
           NEW p, p = FinalOut(x, t, r, o, h), NEW w, w = Noted(p, q, c)
    PROVE  /\ ~Active(x, u) /\ Over(x, u, r, k, w)
           /\ w.how = h /\ w.counted = q /\ w.base = o.base
           /\ \A n \in Streams : w.summary[n] = StreamSummary(x, t, r, n)
<1>0. /\ x \in Sides /\ t \in TestState /\ t.state \in {"TEST_END", "DISPLAY_RESULTS"}
      /\ u \in TestState /\ SameFlags(t, u)
      /\ r \in [Streams -> Result] /\ Marked(t, r) /\ k \in [Streams -> 0..MaxRetrans]
      /\ IsOut(o) /\ o.marks /\ SumsMatch(x, o) /\ (Sends(x) => t.has = 1)
      /\ q \in [Streams -> Result] /\ c \in [Streams -> Nat]
      /\ h \in {"regular", "signal", "late"}
  BY DEF Closing
<1>1. /\ IsOut(p) /\ p.how = h /\ p.base = o.base /\ p.marks /\ SumsMatch(x, p)
      /\ p.omits = t.omitting
      /\ \A n \in Streams : p.summary[n] = StreamSummary(x, t, r, n)
  BY <1>0, FinalReport
<1>2. /\ \A n \in Streams :
             /\ IsSender(x, n) => /\ p.summary[n].sent = Own(x, r, n)
                                  /\ p.summary[n].retrans = r[n].retrans
             /\ ~IsSender(x, n) =>
                    /\ p.summary[n].recv = Own(x, r, n)
                    /\ (~Sends(x) => t.has = 0) /\ t.other = 0 => p.summary[n].retrans = None
      /\ PrintsSum(x) => \A d \in Directions(x) :
             (IF d THEN p.total[d].sent ELSE p.total[d].recv)
                 = SumFunctionOnSet([n \in Streams |-> Own(x, r, n)], StreamsOf(x, d))
  BY <1>0, FinalReport
<1>3. ~t.omitting => \A n \in Streams :
          /\ p.lines[n].bytes = o.lines[n].bytes + r[n].last.bytes
          /\ p.lines[n].retrans \in Nat
          /\ IsSender(x, n) => p.lines[n].retrans <= o.lines[n].retrans + r[n].last.retrans
  BY <1>0, FinalReport
<1>4. /\ IsOut(w) /\ w.how = h /\ w.base = o.base /\ w.marks = p.marks /\ w.counted = q
      /\ w.cut = c /\ w.omits = p.omits /\ w.lines = p.lines /\ w.sum = p.sum
      /\ w.summary = p.summary /\ w.total = p.total
  BY <1>0, <1>1 DEF IsOut, Noted
<1>5. SumsMatch(x, w)
  BY <1>0, <1>1, <1>4 DEF SumsMatch
<1>6. ~Active(x, u)
  BY DEF Closing, Active, Pending
<1>7. ASSUME NEW n \in Streams
      PROVE  ReportedStream(x, w, n)
  <2>1. IsSender(x, n) => r[n].retrans = Cnt(w, n)
    BY <1>4 DEF Closing, Cnt
  <2>2. Own(x, r, n) = Own(x, w.counted, n)
    BY <1>4 DEF Closing
  <2>3. ASSUME ~w.omits
        PROVE  /\ w.lines[n].bytes + w.cut[n] = Own(x, w.counted, n)
               /\ IsSender(x, n) => w.lines[n].retrans <= Cnt(w, n)
    <3>1. /\ o.lines[n].bytes + r[n].last.bytes + c[n] = Own(x, r, n)
          /\ IsSender(x, n) => o.lines[n].retrans + r[n].last.retrans <= r[n].retrans
          /\ p.lines[n].bytes = o.lines[n].bytes + r[n].last.bytes
          /\ p.lines[n].retrans \in Nat
          /\ IsSender(x, n) => p.lines[n].retrans <= o.lines[n].retrans + r[n].last.retrans
      BY <1>1, <1>3, <1>4, <2>3 DEF Closing
    <3>2. /\ o.lines[n].retrans \in Nat /\ r[n].last.retrans \in Nat /\ r[n].retrans \in Int
      BY <1>0 DEF IsOut, Line, Result, Interval, Marked
    <3> QED
      BY <1>0, <1>4, <2>1, <2>2, <3>1, <3>2
  <2>4. h = "regular" => w.cut[n] = 0
    BY <1>4 DEF Closing
  <2>5. IsSender(x, n) => /\ w.summary[n].sent = Own(x, w.counted, n)
                          /\ w.summary[n].retrans = Cnt(w, n)
    BY <1>2, <1>4, <2>1, <2>2
  <2>6. ~IsSender(x, n) => /\ w.summary[n].recv = Own(x, w.counted, n)
                           /\ x = "s" \/ h = "signal" => w.summary[n].retrans = None
    BY <1>2, <1>4, <2>2 DEF Closing
  <2> QED
    BY <1>0, <1>4, <2>3, <2>4, <2>5, <2>6 DEF ReportedStream
<1>8. Reported(x, w)
  <2>1. [n \in Streams |-> Own(x, r, n)] = [n \in Streams |-> Own(x, w.counted, n)]
    BY <1>4 DEF Closing
  <2>2. PrintsSum(x) => \A d \in Directions(x) :
             (IF d THEN w.total[d].sent ELSE w.total[d].recv)
                 = SumFunctionOnSet([n \in Streams |-> Own(x, w.counted, n)], StreamsOf(x, d))
    BY <1>2, <1>4, <2>1
  <2> QED
    BY <1>0, <1>7, <2>2 DEF Reported
<1>9. Over(x, u, r, k, w)
  <2>1. Uniform(u, r)
    BY <1>0 DEF Uniform, Marked, SameFlags
  <2>2. u.has = t.has /\ x \in {"c", "s"}
    BY <1>0 DEF SameFlags, Sides
  <2>3. \A n \in Streams : /\ IsSender(x, n) => r[n].omit <= r[n].sent
                           /\ Own(x, r, n) = Own(x, w.counted, n)
                           /\ IsSender(x, n) => r[n].retrans = Cnt(w, n)
    BY <1>4 DEF Closing, Cnt
  <2>4. /\ x = "s" => u.state \notin {"TEST_END", "RESULTS_READ"}
        /\ x = "s" /\ u.state \in {"EXCHANGE_RESULTS", "DISPLAY_RESULTS"} => h = "regular"
    BY DEF Closing
  <2> QED
    BY <1>0, <1>1, <1>4, <1>5, <1>8, <2>1, <2>2, <2>3, <2>4 DEF Over
<1> QED
  BY <1>1, <1>4, <1>6, <1>9

-----------------------------------------------------------------------------
(* Steps of a side that has not reported. *)

\* A side that has not reported is Going.
LEMMA IsGoing ==
    ASSUME \A y \in Sides : SideInv(y), NEW x \in Sides, Active(x, test[x])
    PROVE  Going(x, test[x], res[x], kern[x], out[x])
BY DEF SideInv, SideOK

\* The timers run one after the other, but for the pair of stats and reporter.
LEMMA RunningIs ==
    ASSUME NEW x \in Sides, Running(x)
    PROVE  /\ Active(x, test[x]) /\ ~Unprinted(x, test[x]) /\ ~Pending(x, test[x])
           /\ Alone(test[x])
BY DEF Running, Active, Unprinted, Pending, Alone

\* The step of a side that goes on.
LEMMA GoingStep ==
    ASSUME Shape, \A y \in Sides : SideInv(y), opt' = opt, NEW x \in Sides,
           NEW t, NEW r, NEW k, NEW o, Going(x, t, r, k, o),
           test' = [test EXCEPT ![x] = t], res' = [res EXCEPT ![x] = r],
           kern' = [kern EXCEPT ![x] = k], out' = [out EXCEPT ![x] = o],
           msg' \in [Sides -> Seq(Message)], ticks' \in 0..opt.ticks
    PROVE  /\ Steps(x)
           /\ test'[x] = t /\ res'[x] = r /\ kern'[x] = k /\ out'[x] = o
<1>1. /\ t \in TestState /\ r \in [Streams -> Result] /\ k \in [Streams -> 0..MaxRetrans]
      /\ SideOK(x, t, r, k, o)
  BY DEF Going, SideOK
<1> QED
  BY <1>1, SideStep

\* The step of a side that has reported.
LEMMA OverStep ==
    ASSUME Shape, \A y \in Sides : SideInv(y), opt' = opt, NEW x \in Sides,
           NEW t, NEW r, NEW k, NEW o, Over(x, t, r, k, o), ~Active(x, t),
           test' = [test EXCEPT ![x] = t], res' = [res EXCEPT ![x] = r],
           kern' = [kern EXCEPT ![x] = k], out' = [out EXCEPT ![x] = o],
           msg' \in [Sides -> Seq(Message)], ticks' \in 0..opt.ticks
    PROVE  /\ Steps(x)
           /\ test'[x] = t /\ res'[x] = r /\ kern'[x] = k /\ out'[x] = o
<1>1. /\ t \in TestState /\ r \in [Streams -> Result] /\ k \in [Streams -> 0..MaxRetrans]
      /\ SideOK(x, t, r, k, o)
  BY DEF Over, SideOK
<1> QED
  BY <1>1, SideStep

\* One block sent.
LEMMA SendStep ==
    ASSUME Shape, \A y \in Sides : SideInv(y), NEW x \in Sides, NEW n \in Streams, Send(x, n)
    PROVE  Steps(x)
<1> DEFINE s == [res[x] EXCEPT ![n].sent = @ + 1, ![n].now = @ + 1]
<1>1. Going(x, test[x], res[x], kern[x], out[x]) /\ ~Unprinted(x, test[x]) /\ ~Pending(x, test[x])
  BY RunningIs, IsGoing DEF Send
<1>2. res' = [res EXCEPT ![x] = s]
  BY DEF Send, Shape
<1>3. /\ s \in [Streams -> Result]
      /\ s[n].sent = res[x][n].sent + 1 /\ s[n].now = res[x][n].now + 1
      /\ s[n].omit = res[x][n].omit /\ s[n].prev = res[x][n].prev
      /\ s[n].recv = res[x][n].recv /\ s[n].retrans = res[x][n].retrans
      /\ s[n].last = res[x][n].last
      /\ \A m \in Streams : m # n => s[m] = res[x][m]
  BY <1>1 DEF Going, Result
<1> HIDE DEF s
<1>4. IsSender(x, n)
  BY DEF Send, StreamsOf
<1>5. ASSUME NEW m \in Streams
      PROVE  GoingStream(x, test[x], s, kern[x], out[x], m)
  <2>1. GoingStream(x, test[x], res[x], kern[x], out[x], m)
    BY <1>1 DEF Going
  <2>2. CASE m # n
    <3>1. Own(x, s, m) = Own(x, res[x], m)
      BY <1>3, <2>2 DEF Own
    <3> QED
      BY <1>1, <1>3, <2>1, <2>2, <3>1 DEF GoingStream, Left, LeftRetrans
  <2>3. CASE m = n
    <3>1. /\ res[x][n].sent \in Nat /\ res[x][n].omit \in Nat /\ res[x][n].now \in Nat
      BY <1>1 DEF Going, Result
    <3>2. Own(x, s, n) = Own(x, res[x], n) + 1 /\ Own(x, res[x], n) \in Int
      BY <1>3, <1>4, <3>1 DEF Own
    <3>3. out[x].lines[n].bytes \in Nat
      BY <1>1 DEF Going, IsOut, Line
    <3> QED
      BY <1>1, <1>3, <1>4, <2>1, <2>3, <3>1, <3>2, <3>3 DEF GoingStream, Left, LeftRetrans
  <2> QED
    BY <2>2, <2>3
<1>6. Going(x, test[x], s, kern[x], out[x])
  <2>1. \A m \in Streams : s[m].last = res[x][m].last
    BY <1>3
  <2>2. Uniform(test[x], s)
    BY <1>1, <2>1 DEF Going, Uniform, Marked
  <2> QED
    BY <1>1, <1>3, <1>5, <2>2 DEF Going
<1>7. /\ test' = [test EXCEPT ![x] = test[x]] /\ kern' = [kern EXCEPT ![x] = kern[x]]
      /\ out' = [out EXCEPT ![x] = out[x]]
      /\ opt' = opt /\ msg' \in [Sides -> Seq(Message)] /\ ticks' \in 0..opt.ticks
  BY DEF Send, Shape
<1> QED
  BY <1>2, <1>6, <1>7, GoingStep

\* One block received.
LEMMA ReceiveStep ==
    ASSUME Shape, \A y \in Sides : SideInv(y), NEW x \in Sides, NEW n \in Streams, Receive(x, n)
    PROVE  Steps(x) /\ out'[x].how = "none"
<1> DEFINE s == [res[x] EXCEPT ![n].recv = @ + 1, ![n].now = @ + 1]
           o == [out[x] EXCEPT !.read[n] = @ + 1]
<1>1. Going(x, test[x], res[x], kern[x], out[x]) /\ ~Unprinted(x, test[x]) /\ ~Pending(x, test[x])
  BY RunningIs, IsGoing DEF Receive
<1>2. res' = [res EXCEPT ![x] = s] /\ out' = [out EXCEPT ![x] = o]
  BY DEF Receive, Shape
<1>3. /\ s \in [Streams -> Result]
      /\ s[n].recv = res[x][n].recv + 1 /\ s[n].now = res[x][n].now + 1
      /\ s[n].omit = res[x][n].omit /\ s[n].prev = res[x][n].prev
      /\ s[n].sent = res[x][n].sent /\ s[n].retrans = res[x][n].retrans
      /\ s[n].last = res[x][n].last
      /\ \A m \in Streams : m # n => s[m] = res[x][m]
  <2> DEFINE q == [res[x][n] EXCEPT !.recv = @ + 1, !.now = @ + 1]
  <2>1. res[x] \in [Streams -> Result] /\ res[x][n] \in Result
    BY <1>1 DEF Going
  <2>2. /\ q \in Result
        /\ q.recv = res[x][n].recv + 1 /\ q.now = res[x][n].now + 1
        /\ q.omit = res[x][n].omit /\ q.prev = res[x][n].prev /\ q.last = res[x][n].last
        /\ q.sent = res[x][n].sent /\ q.retrans = res[x][n].retrans
    <3> DEFINE z == res[x][n]
               b == z.recv + 1
               c == z.now + 1
    <3>1. z \in Result /\ b \in Nat /\ c \in Nat
      BY <2>1 DEF Result
    <3>2. q = [z EXCEPT !.recv = b, !.now = c]
      OBVIOUS
    <3> HIDE DEF b, c, z, q
    <3>3. /\ q \in Result /\ q.recv = b /\ q.now = c /\ q.last = z.last
          /\ q.omit = z.omit /\ q.prev = z.prev /\ q.sent = z.sent /\ q.retrans = z.retrans
      BY <3>1, <3>2 DEF Result
    <3> QED
      BY <3>3 DEF b, c, z
  <2>3. s = [res[x] EXCEPT ![n] = q]
    BY <2>1
  <2> HIDE DEF q, s
  <2> QED
    BY <2>1, <2>2, <2>3
<1>4. /\ IsOut(o) /\ o.how = out[x].how /\ o.lines = out[x].lines /\ o.sum = out[x].sum
      /\ o.base = out[x].base /\ o.marks = out[x].marks
      /\ o.counted = out[x].counted /\ o.cut = out[x].cut
  <2> DEFINE read == [out[x].read EXCEPT ![n] = @ + 1]
  <2>1. IsOut(out[x])
    BY <1>1 DEF Going
  <2>2. o = [out[x] EXCEPT !.read = read] /\ read \in [Streams -> Nat]
    BY <2>1 DEF IsOut
  <2> HIDE DEF read, o
  <2> QED
    BY <2>1, <2>2 DEF IsOut
<1> HIDE DEF s, o
<1>5. ~IsSender(x, n)
  <2>1. IsSender(x, n) = FALSE
    BY DEF Receive, StreamsOf
  <2> QED
    BY <2>1
<1>6. ASSUME NEW m \in Streams
      PROVE  GoingStream(x, test[x], s, kern[x], o, m)
  <2>1. GoingStream(x, test[x], res[x], kern[x], out[x], m)
    BY <1>1 DEF Going
  <2>2. CASE m # n
    <3>1. Own(x, s, m) = Own(x, res[x], m)
      BY <1>3, <2>2 DEF Own
    <3> QED
      BY <1>1, <1>3, <1>4, <2>1, <2>2, <3>1 DEF GoingStream, Left, LeftRetrans
  <2>3. CASE m = n
    <3>1. /\ res[x][n].recv \in Nat /\ res[x][n].omit \in Nat /\ res[x][n].now \in Nat
      BY <1>1 DEF Going, Result
    <3>2. Own(x, s, n) = Own(x, res[x], n) + 1 /\ Own(x, res[x], n) \in Int
      BY <1>3, <1>5, <3>1 DEF Own
    <3>3. out[x].lines[n].bytes \in Nat
      BY <1>1 DEF Going, IsOut, Line
    <3> QED
      BY <1>1, <1>3, <1>4, <1>5, <2>1, <2>3, <3>1, <3>2, <3>3 DEF GoingStream, Left, LeftRetrans
  <2> QED
    BY <2>2, <2>3
<1>7. Going(x, test[x], s, kern[x], o)
  <2>1. SumsMatch(x, o)
    BY <1>1, <1>4 DEF Going, SumsMatch
  <2>2. \A m \in Streams : s[m].last = res[x][m].last
    BY <1>3
  <2>3. Uniform(test[x], s)
    BY <1>1, <2>2 DEF Going, Uniform, Marked
  <2> QED
    BY <1>1, <1>3, <1>4, <1>6, <2>1, <2>3 DEF Going
<1>8. /\ test' = [test EXCEPT ![x] = test[x]] /\ kern' = [kern EXCEPT ![x] = kern[x]]
      /\ opt' = opt /\ msg' \in [Sides -> Seq(Message)] /\ ticks' \in 0..opt.ticks
  BY DEF Receive, Shape
<1>9. o.how = "none"
  BY <1>1, <1>4 DEF Going
<1> QED
  BY <1>2, <1>7, <1>8, <1>9, GoingStep, ZenonT(30)

\* A bound on the retransmissions of all sockets bounds those of each.
LEMMA OneOfAll ==
    ASSUME Shape, NEW x \in Sides, NEW n \in Streams,
           SumFunction([y \in Sides |-> SumFunction(kern[y])]) < MaxRetrans
    PROVE  kern[x][n] + 1 \in 0..MaxRetrans
<1> DEFINE all == [y \in Sides |-> SumFunction(kern[y])]
<1>1. IsFiniteSet(Streams) /\ IsFiniteSet(Sides) /\ MaxRetrans \in Nat
  <2>1. IsFiniteSet({"c"}) /\ Sides = {"c"} \cup {"s"}
    BY FS_Singleton DEF Sides
  <2>2. IsFiniteSet(Sides)
    BY <2>1, FS_AddElement
  <2> QED
    BY <2>2, StreamFacts, ReportAssumption DEF Shape
<1>2. ASSUME NEW y \in Sides
      PROVE  /\ SumFunction(kern[y]) \in Nat
             /\ \A m \in Streams : kern[y][m] <= SumFunction(kern[y])
  <2>1. DOMAIN kern[y] = Streams /\ \A m \in Streams : kern[y][m] \in Nat
    BY <1>1 DEF Shape
  <2>2. SumFunction(kern[y]) = SumFunctionOnSet(kern[y], Streams)
    BY <2>1 DEF SumFunction
  <2> QED
    BY <1>1, <2>1, <2>2, SumNat
<1>3. DOMAIN all = Sides /\ \A y \in Sides : all[y] \in Nat /\ all[y] = SumFunction(kern[y])
  BY <1>2
<1>4. SumFunction(all) < MaxRetrans
  OBVIOUS
<1> HIDE DEF all
<1>5. SumFunction(all) = SumFunctionOnSet(all, Sides)
  BY <1>3 DEF SumFunction
<1>6. SumFunctionOnSet(all, Sides) \in Nat /\ all[x] <= SumFunctionOnSet(all, Sides)
  BY <1>1, <1>3, SumNat
<1>7. kern[x][n] \in Nat /\ kern[x][n] <= all[x]
  BY <1>1, <1>2, <1>3 DEF Shape
<1>8. all[x] \in Nat
  BY <1>3
<1> QED
  BY <1>1, <1>4, <1>5, <1>6, <1>7, <1>8

\* One retransmission counted by the kernel.
LEMMA RetransmitStep ==
    ASSUME Shape, \A y \in Sides : SideInv(y), NEW x \in Sides, NEW n \in Streams,
           Retransmit(x, n)
    PROVE  Steps(x)
<1> DEFINE k == [kern[x] EXCEPT ![n] = @ + 1]
<1>1. Going(x, test[x], res[x], kern[x], out[x])
  <2>1. Active(x, test[x])
    BY DEF Retransmit, Active, Pending, Shape, TestState, States
  <2> QED
    BY <2>1, IsGoing
<1>2. kern' = [kern EXCEPT ![x] = k]
  BY DEF Retransmit, Shape
<1>3. kern[x][n] + 1 \in 0..MaxRetrans
  BY OneOfAll DEF Retransmit
<1>4. kern[x] \in [Streams -> 0..MaxRetrans] /\ MaxRetrans \in Nat
  BY ReportAssumption DEF Shape
<1>5. /\ k \in [Streams -> 0..MaxRetrans]
      /\ \A m \in Streams : kern[x][m] <= k[m] /\ kern[x][m] \in Nat /\ k[m] \in Nat
  BY <1>3, <1>4
<1> HIDE DEF k
<1>6. ASSUME NEW m \in Streams
      PROVE  GoingStream(x, test[x], res[x], k, out[x], m)
  <2>1. GoingStream(x, test[x], res[x], kern[x], out[x], m) /\ res[x][m].prev \in Nat
    BY <1>1 DEF Going, Result
  <2>2. res[x][m].prev <= k[m]
    BY <1>5, <2>1 DEF GoingStream
  <2> QED
    BY <2>1, <2>2 DEF GoingStream
<1>7. Going(x, test[x], res[x], k, out[x])
  BY <1>1, <1>5, <1>6 DEF Going
<1>8. /\ test' = [test EXCEPT ![x] = test[x]] /\ res' = [res EXCEPT ![x] = res[x]]
      /\ out' = [out EXCEPT ![x] = out[x]]
      /\ opt' = opt /\ msg' \in [Sides -> Seq(Message)] /\ ticks' \in 0..opt.ticks
  BY DEF Retransmit, Shape
<1> QED
  BY <1>2, <1>7, <1>8, GoingStep

\* What iperf_reset_stats forgets.
LEMMA Resets ==
    ASSUME Shape, NEW x \in Sides, NEW s, s = iperf_reset_stats(x)
    PROVE  /\ s \in [Streams -> Result]
           /\ \A m \in Streams :
                  /\ s[m].sent = res[x][m].sent /\ s[m].omit = res[x][m].sent /\ s[m].recv = 0
                  /\ s[m].now = 0 /\ s[m].retrans = 0 /\ s[m].last = res[x][m].last
                  /\ s[m].prev = IF test[x].has = 1 THEN kern[x][m] ELSE res[x][m].prev
<1>1. kern[x] \in [Streams -> Nat] /\ res[x] \in [Streams -> Result]
  BY ReportAssumption DEF Shape
<1>2. ASSUME NEW m \in Streams
      PROVE  /\ s[m] \in Result
             /\ s[m].sent = res[x][m].sent /\ s[m].omit = res[x][m].sent /\ s[m].recv = 0
             /\ s[m].now = 0 /\ s[m].retrans = 0 /\ s[m].last = res[x][m].last
             /\ s[m].prev = IF test[x].has = 1 THEN kern[x][m] ELSE res[x][m].prev
  <2> DEFINE z == res[x][m]
             c == IF test[x].has = 1 THEN kern[x][m] ELSE z.prev
             w == s[m]
             e == 0
             b == [z EXCEPT !.omit = z.sent, !.recv = 0, !.now = 0]
  <2>1. z \in Result /\ z.sent \in Nat /\ c \in Nat /\ e \in Int
    BY <1>1 DEF Result
  <2>2. w = [z EXCEPT !.omit = z.sent, !.recv = 0, !.now = 0, !.retrans = 0, !.prev = c]
    BY <2>1 DEF iperf_reset_stats, Result
  <2> HIDE DEF z, c, w
  <2>3. /\ b \in Result /\ b.sent = z.sent /\ b.omit = z.sent /\ b.recv = 0 /\ b.now = 0
        /\ b.last = z.last
    BY <2>1 DEF Result
  <2>4. w = [b EXCEPT !.retrans = e, !.prev = c]
    BY <2>2
  <2> HIDE DEF b, e
  <2>5. /\ w \in Result /\ w.sent = b.sent /\ w.omit = b.omit /\ w.recv = b.recv
        /\ w.now = b.now /\ w.retrans = e /\ w.prev = c /\ w.last = b.last
    BY <2>1, <2>3, <2>4 DEF Result
  <2> QED
    BY <2>3, <2>5 DEF w, z, c, e
<1>3. s = [n \in Streams |-> s[n]]
  BY DEF iperf_reset_stats
<1> QED
  BY <1>2, <1>3

\* The omit period ends: everything counted so far is forgotten.
LEMMA OmitStep ==
    ASSUME Shape, \A y \in Sides : SideInv(y), NEW x \in Sides, omit_timer_proc(x)
    PROVE  /\ Steps(x) /\ test'[x].state = test[x].state
           /\ Running(x) => out'[x].how = "none"
           /\ ~Running(x) => out'[x] = out[x]
<1> DEFINE s == iperf_reset_stats(x)
           t == [test[x] EXCEPT !.omitting = FALSE]
           o == [out[x] EXCEPT !.base = IF Running(x) THEN kern[x] ELSE @]
<1>1. /\ res' = [res EXCEPT ![x] = s] /\ out' = [out EXCEPT ![x] = o]
      /\ test' = [test EXCEPT ![x] = t] /\ s = iperf_reset_stats(x)
  BY DEF omit_timer_proc, Shape
<1>2. /\ t \in TestState /\ t.state = test[x].state /\ t.omitting = FALSE
      /\ t.has = test[x].has /\ t.other = test[x].other /\ t.due = test[x].due
  <2> DEFINE q == test[x]
  <2>1. q \in TestState /\ t = [q EXCEPT !.omitting = FALSE]
    BY DEF Shape
  <2> HIDE DEF q, t
  <2> QED
    BY <2>1 DEF TestState, q
<1>3. /\ kern[x] \in [Streams -> 0..MaxRetrans] /\ kern[x] \in [Streams -> Nat]
      /\ opt \in Tests /\ test[x].omitting /\ test[x] \in TestState
  BY ReportAssumption DEF Shape, omit_timer_proc
<1>4. /\ kern' = [kern EXCEPT ![x] = kern[x]]
      /\ opt' = opt /\ msg' \in [Sides -> Seq(Message)] /\ ticks' \in 0..opt.ticks
  BY DEF omit_timer_proc, Shape
<1> HIDE DEF s, t
<1>5. /\ s \in [Streams -> Result]
      /\ \A m \in Streams :
             /\ s[m].sent = res[x][m].sent /\ s[m].omit = res[x][m].sent /\ s[m].recv = 0
             /\ s[m].now = 0 /\ s[m].retrans = 0 /\ s[m].last = res[x][m].last
             /\ s[m].prev = IF test[x].has = 1 THEN kern[x][m] ELSE res[x][m].prev
  BY <1>1, Resets
<1>6. Uniform(test[x], res[x]) => Uniform(t, s)
  <2>1. test[x].omitting = TRUE /\ ~t.omitting
    BY <1>2, <1>3 DEF TestState
  <2>2. \A m \in Streams : s[m].last = res[x][m].last
    BY <1>5
  <2> QED
    BY <2>1, <2>2 DEF Uniform, Marked
<1>7. CASE Running(x)
  <2>1. /\ Going(x, test[x], res[x], kern[x], out[x]) /\ Active(x, test[x])
        /\ ~Unprinted(x, test[x]) /\ ~Pending(x, test[x]) /\ Alone(test[x])
    BY <1>7, RunningIs, IsGoing
  <2>2. Active(x, t) /\ ~Unprinted(x, t) /\ ~Pending(x, t) /\ Alone(t)
    BY <1>2, <2>1 DEF Active, Unprinted, Pending, Alone
  <2>3. /\ IsOut(o) /\ o.how = out[x].how /\ o.lines = out[x].lines /\ o.sum = out[x].sum
        /\ o.base = kern[x] /\ o.marks = out[x].marks /\ o.cut = out[x].cut
    <3> DEFINE q == out[x]
               k == kern[x]
    <3>1. IsOut(q) /\ k \in [Streams -> Nat] /\ o = [q EXCEPT !.base = k]
      BY <1>3, <1>7, <2>1 DEF Going
    <3> HIDE DEF q, k, o
    <3>2. /\ IsOut(o) /\ o.how = q.how /\ o.lines = q.lines /\ o.sum = q.sum
          /\ o.base = k /\ o.marks = q.marks /\ o.cut = q.cut
      BY <3>1 DEF IsOut
    <3> QED
      BY <3>2 DEF q, k
  <2> HIDE DEF o
  <2>4. ASSUME NEW m \in Streams
        PROVE  GoingStream(x, t, s, kern[x], o, m)
    <3>1. /\ GoingStream(x, test[x], res[x], kern[x], out[x], m)
          /\ res[x][m].sent \in Nat /\ kern[x][m] \in Nat
      BY <1>3, <2>1 DEF Going, Result
    <3>2. out[x].lines[m] = [bytes |-> 0, retrans |-> 0]
      BY <1>3, <3>1 DEF GoingStream
    <3>3. o.lines[m].bytes = 0 /\ o.lines[m].retrans = 0
      BY <2>3, <3>2
    <3>4. IsSender(x, m) => test[x].has = 1
      BY <1>3, <2>1, DirectionFacts DEF Going
    <3>5. IsSender(x, m) => s[m].retrans = s[m].prev - o.base[m]
      BY <1>5, <2>3, <3>1, <3>4
    <3>6. s[m].prev <= kern[x][m]
      BY <1>5, <3>1 DEF GoingStream
    <3>7. Own(x, s, m) = 0
      BY <1>5, <3>1 DEF Own
    <3>8. ~IsSender(x, m) => s[m].omit = 0 /\ s[m].sent = 0
      BY <1>5, <2>1, <3>1 DEF GoingStream
    <3>9. s[m].omit <= s[m].sent /\ s[m].retrans = 0 /\ s[m].now = 0 /\ o.cut[m] = 0
      BY <1>5, <2>3, <3>1 DEF GoingStream
    <3>10. Left(x, t, s, m) = 0 /\ LeftRetrans(x, t, s, m) = 0
      BY <2>2, <3>9 DEF Left, LeftRetrans
    <3> QED
      BY <1>2, <2>2, <3>3, <3>5, <3>6, <3>7, <3>8, <3>9, <3>10 DEF GoingStream
  <2>5. SumsMatch(x, o)
    BY <2>1, <2>3 DEF Going, SumsMatch
  <2>6. Going(x, t, s, kern[x], o)
    BY <1>2, <1>3, <1>5, <1>6, <2>1, <2>2, <2>3, <2>4, <2>5 DEF Going
  <2>7. /\ Steps(x) /\ test'[x] = t /\ out'[x] = o
    BY <1>1, <1>4, <2>6, GoingStep
  <2> QED
    BY <1>2, <1>7, <2>6, <2>7 DEF Going
<1>8. CASE ~Running(x)
  <2>1. x = "s" /\ test[x].state = "DISPLAY_RESULTS"
    BY <1>8 DEF omit_timer_proc
  <2>2. ~Active(x, test[x]) /\ ~Active(x, t)
    BY <1>2, <2>1 DEF Active, Pending
  <2>3. Over(x, test[x], res[x], kern[x], out[x])
    BY <2>2 DEF SideInv, SideOK
  <2>4. o = out[x]
    <3>1. out[x].how # "peer"
      BY <2>1, <2>3 DEF Over
    <3>2. IsOut(out[x])
      BY <2>3, <3>1 DEF Over
    <3>3. o = [out[x] EXCEPT !.base = out[x].base]
      BY <1>8
    <3> QED
      BY <3>2, <3>3 DEF IsOut
  <2> HIDE DEF o
  <2>5. \A m \in Streams : s[m].omit <= s[m].sent
    <3>1. \A m \in Streams : s[m].omit = s[m].sent /\ s[m].sent \in Nat
      BY <1>5 DEF Result
    <3> QED
      BY <3>1
  <2>6. Over(x, t, s, kern[x], o)
    BY <1>2, <1>3, <1>5, <1>6, <2>1, <2>3, <2>4, <2>5 DEF Over
  <2>7. /\ Steps(x) /\ test'[x] = t /\ out'[x] = o
    BY <1>1, <1>4, <2>2, <2>6, OverStep
  <2> QED
    BY <1>2, <1>8, <2>4, <2>7
<1> QED
  BY <1>7, <1>8

\* A running side gathers an interval, at its end or at the end of the test.
LEMMA Collects ==
    ASSUME Shape, NEW x \in Sides, Running(x), NEW short \in BOOLEAN,
           Going(x, test[x], res[x], kern[x], out[x]),
           NEW s, s = iperf_stats_callback(x, short),
           NEW t \in TestState, SameFlags(test[x], t), NEW o,
           \/ t.state = "TEST_RUNNING" /\ t.due /\ o = out[x]
           \/ /\ x = "c" /\ t.state = "TEST_END" /\ ~test[x].omitting
              /\ o = [out[x] EXCEPT !.counted = s]
    PROVE  Going(x, t, s, kern[x], o)
<1>1. ~Unprinted(x, test[x]) /\ ~Pending(x, test[x]) /\ Alone(test[x])
  BY RunningIs
<1>2. /\ Active(x, t) /\ Unprinted(x, t) /\ Alone(t) /\ (Pending(x, t) => ~t.omitting)
      /\ Pending(x, t) => o = [out[x] EXCEPT !.counted = s]
      /\ ~Pending(x, t) => o = out[x]
  BY DEF Active, Unprinted, Pending, Alone, SameFlags
<1>3. /\ opt \in Tests /\ test[x] \in TestState /\ res[x] \in [Streams -> Result]
      /\ kern[x] \in [Streams -> 0..MaxRetrans] /\ IsOut(out[x])
      /\ \A n \in Streams : res[x][n].prev <= kern[x][n]
  BY DEF Shape, Going, GoingStream
<1>4. /\ s \in [Streams -> Result] /\ Marked(test[x], s)
      /\ \A n \in Streams :
             /\ s[n].sent = res[x][n].sent /\ s[n].omit = res[x][n].omit
             /\ s[n].recv = res[x][n].recv /\ s[n].now = 0
             /\ s[n].last.bytes = res[x][n].now /\ s[n].last.retrans \in Nat
             /\ s[n].retrans = res[x][n].retrans + s[n].last.retrans
             /\ s[n].prev = res[x][n].prev + s[n].last.retrans
             /\ s[n].prev <= kern[x][n]
  BY <1>3, Gathers
<1>5. /\ IsOut(o) /\ o.how = out[x].how /\ o.lines = out[x].lines /\ o.sum = out[x].sum
      /\ o.base = out[x].base /\ o.marks = out[x].marks /\ o.cut = out[x].cut
      /\ Pending(x, t) => o.counted = s
  <2> DEFINE q == out[x]
  <2>1. IsOut(q) /\ (o = q \/ o = [q EXCEPT !.counted = s])
        /\ (Pending(x, t) => o = [q EXCEPT !.counted = s])
    BY <1>2, <1>3
  <2> HIDE DEF q
  <2>2. /\ IsOut(o) /\ o.how = q.how /\ o.lines = q.lines /\ o.sum = q.sum
        /\ o.base = q.base /\ o.marks = q.marks /\ o.cut = q.cut
        /\ Pending(x, t) => o.counted = s
    BY <1>4, <2>1 DEF IsOut
  <2> QED
    BY <2>2 DEF q
<1>6. ASSUME NEW n \in Streams
      PROVE  GoingStream(x, t, s, kern[x], o, n)
  <2>1. GoingStream(x, test[x], res[x], kern[x], out[x], n)
    BY DEF Going
  <2>2. /\ res[x][n].sent \in Nat /\ res[x][n].omit \in Nat /\ res[x][n].recv \in Nat
        /\ res[x][n].now \in Nat /\ res[x][n].retrans \in Int /\ res[x][n].prev \in Nat
        /\ out[x].base[n] \in Nat
        /\ out[x].lines[n].bytes \in Nat /\ out[x].lines[n].retrans \in Nat
    BY <1>3 DEF Result, IsOut, Line
  <2>3. Own(x, s, n) = Own(x, res[x], n) /\ Own(x, s, n) \in Int
    BY <1>4, <2>2 DEF Own
  <2>4. /\ s[n].prev <= kern[x][n] /\ o.cut[n] = 0 /\ s[n].now = 0
        /\ IsSender(x, n) => s[n].omit <= s[n].sent /\ s[n].retrans = s[n].prev - o.base[n]
        /\ ~IsSender(x, n) => s[n].omit = 0 /\ s[n].sent = 0
    BY <1>1, <1>4, <1>5, <2>1, <2>2 DEF GoingStream
  <2>5. t.omitting => o.lines[n] = [bytes |-> 0, retrans |-> 0]
    BY <1>5, <2>1 DEF GoingStream, SameFlags
  <2>6. ASSUME ~t.omitting
        PROVE  /\ o.lines[n].bytes + Left(x, t, s, n) = Own(x, s, n)
               /\ IsSender(x, n) => o.lines[n].retrans + LeftRetrans(x, t, s, n) <= s[n].retrans
    <3>1. /\ out[x].lines[n].bytes + res[x][n].now = Own(x, res[x], n)
          /\ IsSender(x, n) => out[x].lines[n].retrans + 0 <= res[x][n].retrans
      BY <1>1, <2>1, <2>6 DEF GoingStream, SameFlags, Left, LeftRetrans
    <3>2. Left(x, t, s, n) = res[x][n].now /\ LeftRetrans(x, t, s, n) = s[n].last.retrans
      BY <1>2, <1>4 DEF Left, LeftRetrans
    <3>3. s[n].retrans = res[x][n].retrans + s[n].last.retrans /\ s[n].last.retrans \in Nat
      BY <1>4
    <3> QED
      BY <1>5, <2>2, <2>3, <3>1, <3>2, <3>3
  <2>7. Pending(x, t) => Own(x, s, n) = Own(x, o.counted, n) /\ s[n].prev = o.counted[n].prev
    BY <1>5
  <2> QED
    BY <2>4, <2>5, <2>6, <2>7 DEF GoingStream
<1>7. SumsMatch(x, o)
  BY <1>5 DEF Going, SumsMatch
<1>8. Marked(t, s) /\ Uniform(t, s)
  BY <1>4 DEF Marked, SameFlags, Uniform
<1>9. t.has = test[x].has /\ t.other = test[x].other
  BY DEF SameFlags
<1> QED
  BY <1>1, <1>2, <1>3, <1>4, <1>5, <1>6, <1>7, <1>8, <1>9 DEF Going

\* The end of an interval.
LEMMA StatsStep ==
    ASSUME Shape, \A y \in Sides : SideInv(y), NEW x \in Sides, stats_timer_proc(x)
    PROVE  Steps(x)
<1>1. Running(x) /\ Going(x, test[x], res[x], kern[x], out[x])
  BY RunningIs, IsGoing DEF stats_timer_proc
<1>2. PICK short \in BOOLEAN : res' = [res EXCEPT ![x] = iperf_stats_callback(x, short)]
  BY DEF stats_timer_proc
<1> DEFINE s == iperf_stats_callback(x, short)
           t == [test[x] EXCEPT !.due = TRUE]
<1>3. /\ res' = [res EXCEPT ![x] = s] /\ s = iperf_stats_callback(x, short)
      /\ test' = [test EXCEPT ![x] = t]
  BY <1>2 DEF stats_timer_proc, Shape
<1>4. /\ t \in TestState /\ SameFlags(test[x], t) /\ t.state = "TEST_RUNNING" /\ t.due
  <2> DEFINE q == test[x]
  <2>1. q \in TestState /\ q.state = "TEST_RUNNING" /\ t = [q EXCEPT !.due = TRUE]
    BY <1>1 DEF Shape, Running
  <2> HIDE DEF q, t
  <2>2. t \in TestState /\ t.state = "TEST_RUNNING" /\ t.due
    BY <2>1 DEF TestState
  <2>3. t.omitting = q.omitting /\ t.has = q.has /\ t.other = q.other
    BY <2>1 DEF TestState
  <2> QED
    BY <2>2, <2>3 DEF SameFlags, q
<1> HIDE DEF s, t
<1>5. Going(x, t, s, kern[x], out[x])
  BY <1>1, <1>3, <1>4, Collects
<1>6. ticks' \in 0..opt.ticks
  BY ReportAssumption DEF stats_timer_proc, Shape
<1>7. /\ out' = [out EXCEPT ![x] = out[x]] /\ kern' = [kern EXCEPT ![x] = kern[x]]
      /\ opt' = opt /\ msg' \in [Sides -> Seq(Message)]
  BY DEF stats_timer_proc, Shape
<1> QED
  BY <1>3, <1>5, <1>6, <1>7, GoingStep

\* The interval that was gathered is printed.
LEMMA ReporterStep ==
    ASSUME Shape, \A y \in Sides : SideInv(y), NEW x \in Sides, reporter_timer_proc(x)
    PROVE  Steps(x) /\ out'[x].how = "none"
<1> DEFINE r == res[x]
           q == out[x]
           v == test[x]
           k == kern[x]
           t == [v EXCEPT !.due = FALSE]
           o == iperf_print_intermediate(x, v, r, q)
<1>1. /\ Active(x, v) /\ Unprinted(x, v) /\ ~Pending(x, v) /\ Alone(v)
      /\ v.state = "TEST_RUNNING" /\ v \in TestState /\ opt \in Tests
  BY DEF reporter_timer_proc, Active, Unprinted, Pending, Alone, Shape
<1>2. Going(x, v, r, k, q)
  BY <1>1, IsGoing
<1>3. out' = [out EXCEPT ![x] = o]
  <2>1. out' = [out EXCEPT ![x] = iperf_reporter_callback(x, v, r, q)]
    BY DEF reporter_timer_proc, Shape
  <2>2. iperf_reporter_callback(x, v, r, q) = o
    BY <1>1, ReporterIs
  <2> QED
    BY <2>1, <2>2
<1>4. /\ test' = [test EXCEPT ![x] = t] /\ res' = [res EXCEPT ![x] = r]
      /\ kern' = [kern EXCEPT ![x] = k] /\ opt' = opt
      /\ msg' \in [Sides -> Seq(Message)] /\ ticks' \in 0..opt.ticks
  BY DEF reporter_timer_proc, Shape
<1>5. o = iperf_print_intermediate(x, v, r, q)
  OBVIOUS
<1> HIDE DEF r, q, v, k, o
<1>6. /\ t \in TestState /\ SameFlags(v, t) /\ t.state = "TEST_RUNNING" /\ ~t.due
  BY <1>1 DEF TestState, SameFlags
<1> HIDE DEF t
<1>7. Active(x, t) /\ ~Unprinted(x, t) /\ ~Pending(x, t) /\ Alone(t)
  BY <1>6 DEF Active, Unprinted, Pending, Alone
<1>8. /\ r \in [Streams -> Result] /\ Marked(v, r) /\ IsOut(q) /\ q.marks /\ SumsMatch(x, q)
  BY <1>1, <1>2 DEF Going
<1>9. /\ IsOut(o) /\ o.how = q.how /\ o.base = q.base /\ o.marks /\ o.cut = q.cut
      /\ ~v.omitting => \A n \in Streams :
             /\ o.lines[n].bytes = q.lines[n].bytes + r[n].last.bytes
             /\ o.lines[n].retrans \in Nat
             /\ v.has = 1 /\ IsSender(x, n) =>
                    o.lines[n].retrans <= q.lines[n].retrans + r[n].last.retrans
  BY <1>1, <1>5, <1>8, PrintsIntervals
<1>10. SumsMatch(x, o)
  BY <1>1, <1>5, <1>8, PrintsSums
<1>11. v.omitting => \A n \in Streams : o.lines[n] = q.lines[n]
  BY <1>1, <1>5, <1>8, OmitsIntervals
<1>12. ASSUME NEW n \in Streams
       PROVE  GoingStream(x, t, r, k, o, n)
  <2>1. GoingStream(x, v, r, k, q, n)
    BY <1>2 DEF Going
  <2>2. /\ q.lines[n].bytes \in Nat /\ q.lines[n].retrans \in Nat /\ r[n].now \in Nat
        /\ r[n].last.bytes \in Nat /\ r[n].last.retrans \in Nat /\ r[n].retrans \in Int
    BY <1>8 DEF Result, IsOut, Line, Marked, Interval
  <2>3. IsSender(x, n) => v.has = 1
    BY <1>1, <1>2, DirectionFacts DEF Going
  <2>4. r[n].now = 0
    BY <1>1, <2>1 DEF GoingStream
  <2>5. Left(x, t, r, n) = 0 /\ LeftRetrans(x, t, r, n) = 0
    BY <1>7, <2>4 DEF Left, LeftRetrans
  <2>6. /\ Left(x, v, r, n) = r[n].last.bytes /\ LeftRetrans(x, v, r, n) = r[n].last.retrans
    BY <1>1 DEF Left, LeftRetrans
  <2>7. t.omitting => o.lines[n] = [bytes |-> 0, retrans |-> 0]
    BY <1>6, <1>11, <2>1 DEF GoingStream, SameFlags
  <2>8. ASSUME ~t.omitting
        PROVE  /\ o.lines[n].bytes + Left(x, t, r, n) = Own(x, r, n)
               /\ IsSender(x, n) => o.lines[n].retrans + LeftRetrans(x, t, r, n) <= r[n].retrans
    <3>1. /\ q.lines[n].bytes + r[n].last.bytes = Own(x, r, n)
          /\ IsSender(x, n) => q.lines[n].retrans + r[n].last.retrans <= r[n].retrans
          /\ o.lines[n].bytes = q.lines[n].bytes + r[n].last.bytes
          /\ o.lines[n].retrans \in Nat
          /\ IsSender(x, n) => o.lines[n].retrans <= q.lines[n].retrans + r[n].last.retrans
      BY <1>6, <1>9, <2>1, <2>3, <2>6, <2>8 DEF GoingStream, SameFlags
    <3> QED
      BY <2>2, <2>5, <3>1
  <2>9. /\ r[n].prev <= k[n] /\ o.cut[n] = 0
        /\ IsSender(x, n) => r[n].omit <= r[n].sent /\ r[n].retrans = r[n].prev - o.base[n]
        /\ ~IsSender(x, n) => r[n].omit = 0 /\ r[n].sent = 0
    BY <1>1, <1>9, <2>1 DEF GoingStream
  <2> QED
    BY <1>7, <2>4, <2>7, <2>8, <2>9 DEF GoingStream
<1>13. Going(x, t, r, k, o)
  <2>1. o.how = "none" /\ k \in [Streams -> 0..MaxRetrans]
    BY <1>2, <1>9 DEF Going
  <2>2. Uniform(t, r)
    BY <1>6, <1>8 DEF Uniform, Marked, SameFlags
  <2>3. /\ Sends(x) => t.has = 1
        /\ (~Sends(x) => t.has = 0) /\ t.other = 0
    BY <1>1, <1>2, <1>6 DEF Going, SameFlags
  <2> QED
    BY <1>6, <1>7, <1>8, <1>9, <1>10, <1>12, <2>1, <2>2, <2>3 DEF Going
<1>14. o.how = "none"
  BY <1>13 DEF Going
<1> QED
  BY <1>3, <1>4, <1>13, <1>14, GoingStep, ZenonT(30)

-----------------------------------------------------------------------------
(* Messages. *)

\* What the messages carry.
LEMMA MessageFacts ==
    /\ \A k \in {"TEST_END", "EXCHANGE_RESULTS", "DISPLAY_RESULTS", "TERMINATE"} :
           Control(k) \in Message
    /\ \A k : Control(k).kind = k
    /\ \A m \in Results : Carrying(m) \in Message
    /\ \A m : Carrying(m).kind = "RESULTS" /\ Carrying(m).results = m
    /\ \A m \in Message : m.kind = "RESULTS" => m.results \in Results
BY DEF Message, Control, Carrying

\* The messages of a sequence and of its first and its others.
LEMMA ItemsOf ==
    ASSUME NEW S, NEW q \in Seq(S)
    PROVE  /\ q # <<>> => Head(q) \in S /\ Head(q) \in Items(q)
                          /\ Tail(q) \in Seq(S) /\ Items(Tail(q)) \subseteq Items(q)
           /\ \A p \in Seq(S) : q \o p \in Seq(S) /\ Items(q \o p) \subseteq Items(q) \cup Items(p)
           /\ \A e \in S : Append(q, e) \in Seq(S) /\ Items(Append(q, e)) \subseteq Items(q) \cup {e}
<1>1. ASSUME q # <<>>
      PROVE  /\ Head(q) \in S /\ Head(q) \in Items(q)
             /\ Tail(q) \in Seq(S) /\ Items(Tail(q)) \subseteq Items(q)
  <2>1. Len(q) \in Nat \ {0} /\ Head(q) = q[1] /\ Head(q) \in S /\ Tail(q) \in Seq(S)
    BY <1>1, HeadTailProperties, EmptySeq
  <2>2. Len(Tail(q)) = Len(q) - 1 /\ \A i \in 1..Len(Tail(q)) : Tail(q)[i] = q[i + 1]
    BY <1>1, HeadTailProperties
  <2>3. \A i \in 1..Len(Tail(q)) : i + 1 \in 1..Len(q)
    BY <2>1, <2>2
  <2> QED
    BY <2>1, <2>2, <2>3 DEF Items
<1>2. ASSUME NEW p \in Seq(S)
      PROVE  q \o p \in Seq(S) /\ Items(q \o p) \subseteq Items(q) \cup Items(p)
  <2>1. /\ q \o p \in Seq(S) /\ Len(q \o p) = Len(q) + Len(p)
        /\ \A i \in 1..Len(q) + Len(p) :
               (q \o p)[i] = IF i <= Len(q) THEN q[i] ELSE p[i - Len(q)]
    BY ConcatProperties
  <2>2. Len(q) \in Nat /\ Len(p) \in Nat
    OBVIOUS
  <2>3. ASSUME NEW i \in 1..Len(q) + Len(p)
        PROVE  (q \o p)[i] \in Items(q) \cup Items(p)
    <3>1. CASE i <= Len(q)
      BY <2>1, <2>2, <3>1 DEF Items
    <3>2. CASE ~(i <= Len(q))
      <4>1. i - Len(q) \in 1..Len(p) /\ (q \o p)[i] = p[i - Len(q)]
        BY <2>1, <2>2, <3>2
      <4> QED
        BY <4>1 DEF Items
    <3> QED
      BY <3>1, <3>2
  <2> QED
    BY <2>1, <2>3 DEF Items
<1>3. ASSUME NEW e \in S
      PROVE  Append(q, e) \in Seq(S) /\ Items(Append(q, e)) \subseteq Items(q) \cup {e}
  <2>1. /\ Append(q, e) \in Seq(S) /\ Len(Append(q, e)) = Len(q) + 1 /\ Len(q) \in Nat
        /\ \A i \in 1..Len(q) : Append(q, e)[i] = q[i]
        /\ Append(q, e)[Len(q) + 1] = e
    BY AppendProperties
  <2>2. \A i \in 1..Len(q) + 1 : i \in 1..Len(q) \/ i = Len(q) + 1
    BY <2>1
  <2> QED
    BY <2>1, <2>2 DEF Items
<1> QED
  BY <1>1, <1>2, <1>3

\* The results that a step leaves on their way to the client were there before.
NoNewResults == \A m \in Items(msg'["c"]) : m.kind = "RESULTS" => m \in Items(msg["c"])

\* A step that sends nothing to the client and takes nothing.
LEMMA NoMessage ==
    ASSUME msg' = msg
    PROVE  NoNewResults
BY DEF NoNewResults

\* A step that sends a message.
LEMMA Sending ==
    ASSUME Shape, NEW y \in Sides,
           NEW k \in {"TEST_END", "EXCHANGE_RESULTS", "DISPLAY_RESULTS", "TERMINATE"},
           msg' = [msg EXCEPT ![y] = Append(@, Control(k))]
    PROVE  msg' \in [Sides -> Seq(Message)] /\ NoNewResults
<1> DEFINE m == Control(k)
<1>1. m \in Message /\ m.kind # "RESULTS" /\ msg' = [msg EXCEPT ![y] = Append(@, m)]
  BY MessageFacts
<1> HIDE DEF m
<1>2. \A z \in Sides : msg[z] \in Seq(Message)
  BY DEF Shape
<1>3. Append(msg[y], m) \in Seq(Message) /\ Items(Append(msg[y], m)) \subseteq Items(msg[y]) \cup {m}
  BY <1>1, <1>2, ItemsOf
<1>4. msg' \in [Sides -> Seq(Message)]
  BY <1>1, <1>3 DEF Shape
<1>5. "c" \in Sides
  BY DEF Sides
<1>6. msg'["c"] = IF y = "c" THEN Append(msg[y], m) ELSE msg["c"]
  BY <1>1, <1>5 DEF Shape
<1> QED
  BY <1>1, <1>3, <1>4, <1>6 DEF NoNewResults

\* A step that answers a message.
LEMMA Answering ==
    ASSUME Shape, NEW x \in Sides, NEW k, Reads(x, k), NEW p \in Seq(Message), Answers(x, p)
    PROVE  /\ msg' \in [Sides -> Seq(Message)]
           /\ Head(msg[x]) \in Message /\ Head(msg[x]) \in Items(msg[x]) /\ Head(msg[x]).kind = k
           /\ \A m \in Items(msg'["c"]) : m \in Items(msg["c"]) \/ (x = "s" /\ m \in Items(p))
<1>1. Sides = {"c", "s"} /\ Peer(x) \in Sides /\ (Peer(x) = "c" <=> x = "s")
  BY DEF Sides, Peer
<1>2. \A z \in Sides : msg[z] \in Seq(Message)
  BY DEF Shape
<1>3. msg[x] # <<>> /\ Head(msg[x]).kind = k
  BY DEF Reads
<1>4. /\ Head(msg[x]) \in Message /\ Head(msg[x]) \in Items(msg[x])
      /\ Tail(msg[x]) \in Seq(Message) /\ Items(Tail(msg[x])) \subseteq Items(msg[x])
  BY <1>2, <1>3, ItemsOf
<1>5. /\ msg[Peer(x)] \o p \in Seq(Message)
      /\ Items(msg[Peer(x)] \o p) \subseteq Items(msg[Peer(x)]) \cup Items(p)
  BY <1>1, <1>2, ItemsOf
<1>6. /\ msg' \in [Sides -> Seq(Message)]
      /\ msg'["c"] = IF x = "c" THEN Tail(msg["c"]) ELSE msg["c"] \o p
  BY <1>1, <1>4, <1>5 DEF Answers, Shape
<1> QED
  BY <1>1, <1>3, <1>4, <1>5, <1>6

\* The answers that are no results.
LEMMA Plain ==
    /\ <<>> \in Seq(Message) /\ Items(<<>>) = {}
    /\ \A k \in {"TEST_END", "EXCHANGE_RESULTS", "DISPLAY_RESULTS", "TERMINATE"} :
           <<Control(k)>> \in Seq(Message) /\ Items(<<Control(k)>>) = {Control(k)}
<1>1. <<>> \in Seq(Message) /\ Len(<<>>) = 0
  OBVIOUS
<1>2. ASSUME NEW e \in Message PROVE <<e>> \in Seq(Message) /\ Items(<<e>>) = {e}
  BY DEF Items
<1> QED
  BY <1>1, <1>2, MessageFacts DEF Items

\* A step that answers nothing, or no results.
LEMMA AnsweringPlain ==
    ASSUME Shape, NEW x \in Sides, NEW k, Reads(x, k), NEW p, Answers(x, p),
           \/ p = <<>>
           \/ \E j \in {"TEST_END", "EXCHANGE_RESULTS", "DISPLAY_RESULTS", "TERMINATE"} :
                  p = <<Control(j)>>
    PROVE  msg' \in [Sides -> Seq(Message)] /\ NoNewResults
<1>1. p \in Seq(Message) /\ \A m \in Items(p) : m.kind # "RESULTS"
  BY Plain, MessageFacts
<1> QED
  BY <1>1, Answering DEF NoNewResults

-----------------------------------------------------------------------------
(* Steps that end a test. *)

\* The last interval of the client.
LEMMA ClientTestEndStep ==
    ASSUME Shape, \A y \in Sides : SideInv(y), NEW x \in Sides, x = "c", ClientTestEnd
    PROVE  Steps(x) /\ NoNewResults /\ out'[x].how = "none" /\ test'[x].state = "TEST_END"
<1>1. x \in Sides /\ x = "c" /\ Running(x) /\ ~test[x].omitting
  BY DEF Sides, ClientTestEnd
<1>2. PICK short \in BOOLEAN :
          /\ res' = [res EXCEPT ![x] = iperf_stats_callback(x, short)]
          /\ out' = [out EXCEPT ![x].counted = iperf_stats_callback(x, short)]
  BY DEF ClientTestEnd
<1> DEFINE s == iperf_stats_callback(x, short)
           t == InState(test[x], "TEST_END")
           o == [out[x] EXCEPT !.counted = s]
<1>3. /\ res' = [res EXCEPT ![x] = s] /\ s = iperf_stats_callback(x, short)
      /\ out' = [out EXCEPT ![x] = o] /\ o = [out[x] EXCEPT !.counted = s]
      /\ test' = [test EXCEPT ![x] = t]
      /\ msg' = [msg EXCEPT !["s"] = Append(@, Control("TEST_END"))]
      /\ kern' = [kern EXCEPT ![x] = kern[x]] /\ opt' = opt /\ ticks' \in 0..opt.ticks
  BY <1>2 DEF ClientTestEnd, Shape, InState
<1> HIDE DEF s, o
<1>4. Going(x, test[x], res[x], kern[x], out[x])
  BY <1>1, RunningIs, IsGoing
<1>5. t \in TestState /\ SameFlags(test[x], t) /\ t.state = "TEST_END"
  BY <1>1, StateIs DEF Shape, States
<1> HIDE DEF t
<1>6. Going(x, t, s, kern[x], o)
  BY <1>1, <1>3, <1>4, <1>5, Collects
<1>7. msg' \in [Sides -> Seq(Message)] /\ NoNewResults
  BY <1>3, Sending DEF Sides
<1>8. o.how = "none"
  BY <1>6 DEF Going
<1>9. Steps(x) /\ test'[x] = t /\ out'[x] = o
  <2>1. /\ res' = [res EXCEPT ![x] = s] /\ out' = [out EXCEPT ![x] = o]
        /\ test' = [test EXCEPT ![x] = t] /\ kern' = [kern EXCEPT ![x] = kern[x]]
        /\ opt' = opt /\ ticks' \in 0..opt.ticks
    BY <1>3
  <2> QED
    BY <1>6, <1>7, <2>1, GoingStep
<1> QED
  BY <1>5, <1>7, <1>8, <1>9

\* What a side tells the other one of its streams.
LEMMA SendsResults ==
    ASSUME Shape, NEW x \in Sides, SideInv(x),
           test[x].state = "EXCHANGE_RESULTS" \/ (x = "c" /\ test[x].state = "TEST_END")
    PROVE  /\ send_results(x) \in Results
           /\ Sends(x) => send_results(x).has = 1
           /\ \A n \in Streams :
                  /\ send_results(x).streams[n].bytes = Own(x, out[x].counted, n)
                  /\ IsSender(x, n) => send_results(x).streams[n].retrans = Cnt(out[x], n)
<1> DEFINE f == [n \in Streams |->
                    [bytes |-> Own(x, res[x], n),
                     retrans |-> IF IsSender(x, n) /\ test[x].has # 0 THEN res[x][n].retrans
                                 ELSE -1]]
           h == IF Directions(x) = {FALSE} THEN -1 ELSE test[x].has
<1>1. /\ opt \in Tests /\ test[x] \in TestState /\ res[x] \in [Streams -> Result]
      /\ \A n \in Streams : IsSender(x, n) => res[x][n].omit <= res[x][n].sent
      /\ Sends(x) => test[x].has = 1
      /\ \A n \in Streams : /\ Own(x, res[x], n) = Own(x, out[x].counted, n)
                            /\ IsSender(x, n) => res[x][n].retrans = Cnt(out[x], n)
  <2>1. CASE Active(x, test[x])
    <3>1. Going(x, test[x], res[x], kern[x], out[x]) /\ Pending(x, test[x])
      BY <2>1 DEF SideInv, SideOK, Active
    <3> QED
      BY <3>1 DEF Shape, Going, GoingStream, Cnt
  <2>2. CASE ~Active(x, test[x])
    <3>1. Over(x, test[x], res[x], kern[x], out[x]) /\ test[x].state = "EXCHANGE_RESULTS"
      BY <2>2 DEF SideInv, SideOK, Active, Pending
    <3> QED
      BY <3>1 DEF Shape, Over
  <2> QED
    BY <2>1, <2>2
<1>2. send_results(x) = [has |-> h, streams |-> f]
  BY DEF send_results, Own
<1>3. h \in -1..1 /\ (Sends(x) => h = 1)
  <2>1. test[x].has \in -1..1 /\ -1 \in -1..1
    BY <1>1 DEF TestState
  <2>2. Directions(x) = {FALSE} <=> ~Sends(x)
    BY <1>1, DirectionFacts
  <2> HIDE DEF f
  <2> QED
    BY <1>1, <2>1, <2>2
<1>4. ASSUME NEW n \in Streams
      PROVE  /\ f[n] \in [bytes : Nat, retrans : Int]
             /\ f[n].bytes = Own(x, out[x].counted, n)
             /\ IsSender(x, n) => f[n].retrans = Cnt(out[x], n)
  <2>1. /\ res[x][n].sent \in Nat /\ res[x][n].omit \in Nat /\ res[x][n].recv \in Nat
        /\ res[x][n].retrans \in Int
    BY <1>1 DEF Result
  <2>2. Own(x, res[x], n) \in Nat
    BY <1>1, <2>1 DEF Own
  <2>3. IsSender(x, n) => test[x].has # 0
    <3>1. IsSender(x, n) => Sends(x)
      BY <1>1, DirectionFacts
    <3> QED
      BY <1>1, <3>1
  <2> QED
    BY <1>1, <2>1, <2>2, <2>3
<1>5. f \in [Streams -> [bytes : Nat, retrans : Int]]
  BY <1>4
<1> HIDE DEF f, h
<1> QED
  BY <1>2, <1>3, <1>4, <1>5 DEF Results

\* The client waits for the next message.
LEMMA Waits ==
    ASSUME NEW x \in Sides, NEW t \in TestState, NEW r, NEW k, NEW o, Going(x, t, r, k, o),
           Pending(x, t), NEW u \in TestState, SameFlags(t, u), Pending(x, u),
           Alone(u) => Alone(t)
    PROVE  Going(x, u, r, k, o)
<1>1. /\ Active(x, u) /\ Unprinted(x, t) /\ Unprinted(x, u)
  BY DEF Active, Unprinted
<1>2. ASSUME NEW n \in Streams PROVE GoingStream(x, u, r, k, o, n)
  BY <1>1 DEF Going, GoingStream, Left, LeftRetrans, SameFlags
<1>3. Uniform(u, r) /\ Marked(u, r)
  BY <1>1 DEF Going, Uniform, Marked, SameFlags
<1> QED
  BY <1>1, <1>2, <1>3 DEF Going, SameFlags

\* The client sends its results and waits.
LEMMA ClientExchangeStep ==
    ASSUME Shape, \A y \in Sides : SideInv(y), NEW x \in Sides, x = "c", ClientExchange
    PROVE  /\ Steps(x) /\ NoNewResults
           /\ test'[x].state = "EXCHANGE_RESULTS" /\ out'[x].how = "none"
<1> DEFINE t == InState(test[x], "EXCHANGE_RESULTS")
           p == <<Carrying(send_results(x))>>
<1>1. /\ x \in Sides /\ x = "c" /\ test[x].state = "TEST_END" /\ test' = [test EXCEPT ![x] = t]
      /\ Reads(x, "EXCHANGE_RESULTS") /\ Answers(x, p)
      /\ res' = [res EXCEPT ![x] = res[x]] /\ kern' = [kern EXCEPT ![x] = kern[x]]
      /\ out' = [out EXCEPT ![x] = out[x]] /\ opt' = opt /\ ticks' \in 0..opt.ticks
  BY DEF Sides, ClientExchange, InState, Shape
<1>2. p \in Seq(Message)
  <2> DEFINE m == Carrying(send_results(x))
  <2>1. m \in Message
    BY <1>1, SendsResults, MessageFacts
  <2> HIDE DEF m
  <2>2. <<m>> \in Seq(Message)
    BY <2>1
  <2> QED
    BY <2>2 DEF m
<1> HIDE DEF p
<1>3. t \in TestState /\ t.state = "EXCHANGE_RESULTS" /\ SameFlags(test[x], t) /\ test[x] \in TestState
  BY <1>1, StateIs DEF Shape, States
<1> HIDE DEF t
<1>4. /\ Pending(x, test[x]) /\ Pending(x, t) /\ Active(x, test[x]) /\ Alone(test[x])
  BY <1>1, <1>3 DEF Pending, Alone, Active
<1>5. Going(x, test[x], res[x], kern[x], out[x])
  BY <1>1, <1>4, IsGoing
<1>6. Going(x, t, res[x], kern[x], out[x])
  BY <1>1, <1>3, <1>4, <1>5, Waits
<1>7. msg' \in [Sides -> Seq(Message)] /\ NoNewResults
  BY <1>1, <1>2, Answering DEF NoNewResults
<1>8. Steps(x) /\ test'[x] = t /\ out'[x] = out[x]
  BY <1>1, <1>6, <1>7, GoingStep, ZenonT(30)
<1>9. out[x].how = "none"
  BY <1>5 DEF Going
<1> QED
  BY <1>1, <1>3, <1>7, <1>8, <1>9

\* The client reads DISPLAY_RESULTS.
LEMMA ClientDisplayStep ==
    ASSUME Shape, \A y \in Sides : SideInv(y), NEW x \in Sides, x = "c", ClientDisplay
    PROVE  /\ Steps(x) /\ NoNewResults /\ out'[x].how = "none"
           /\ res'[x] = res[x] /\ SameFlags(test[x], test'[x])
           /\ test[x].state = "RESULTS_READ"
<1> DEFINE t == InState(test[x], "DISPLAY_RESULTS")
<1>1. /\ x \in Sides /\ x = "c" /\ test[x].state = "RESULTS_READ" /\ test' = [test EXCEPT ![x] = t]
      /\ Reads(x, "DISPLAY_RESULTS") /\ Answers(x, <<>>)
      /\ res' = [res EXCEPT ![x] = res[x]] /\ kern' = [kern EXCEPT ![x] = kern[x]]
      /\ out' = [out EXCEPT ![x] = out[x]] /\ opt' = opt /\ ticks' \in 0..opt.ticks
  BY DEF Sides, ClientDisplay, InState, Shape
<1>3. t \in TestState /\ t.state = "DISPLAY_RESULTS" /\ SameFlags(test[x], t) /\ test[x] \in TestState
  BY <1>1, StateIs DEF Shape, States
<1> HIDE DEF t
<1>4. /\ Pending(x, test[x]) /\ Pending(x, t) /\ Active(x, test[x]) /\ ~Alone(t)
  BY <1>1, <1>3 DEF Pending, Alone, Active
<1>5. Going(x, test[x], res[x], kern[x], out[x])
  BY <1>1, <1>4, IsGoing
<1>6. Going(x, t, res[x], kern[x], out[x])
  BY <1>1, <1>3, <1>4, <1>5, Waits
<1>7. msg' \in [Sides -> Seq(Message)] /\ NoNewResults
  BY <1>1, AnsweringPlain
<1>8. Steps(x) /\ test'[x] = t /\ out'[x] = out[x] /\ res'[x] = res[x]
  BY <1>1, <1>6, <1>7, GoingStep, ZenonT(30)
<1>9. out[x].how = "none"
  BY <1>5 DEF Going
<1> QED
  BY <1>1, <1>3, <1>7, <1>8, <1>9

\* What get_results keeps: the counters of this side.
LEMMA GetsResults ==
    ASSUME Shape, NEW x \in Sides, NEW m \in Results, NEW s, s = GetStreams(x, m)
    PROVE  /\ s \in [Streams -> Result]
           /\ \A n \in Streams :
                  /\ s[n].omit = res[x][n].omit /\ s[n].prev = res[x][n].prev
                  /\ s[n].last = res[x][n].last /\ s[n].now = res[x][n].now
                  /\ IsSender(x, n) => /\ s[n].sent = res[x][n].sent
                                       /\ s[n].retrans = res[x][n].retrans
                                       /\ s[n].recv = m.streams[n].bytes
                  /\ ~IsSender(x, n) => /\ s[n].recv = res[x][n].recv
                                        /\ s[n].sent = m.streams[n].bytes
                                        /\ s[n].retrans = m.streams[n].retrans
                  /\ Own(x, s, n) = Own(x, res[x], n)
<1>1. ASSUME NEW n \in Streams
      PROVE  /\ s[n] \in Result
             /\ s[n].omit = res[x][n].omit /\ s[n].prev = res[x][n].prev
             /\ s[n].last = res[x][n].last /\ s[n].now = res[x][n].now
             /\ IsSender(x, n) => /\ s[n].sent = res[x][n].sent
                                  /\ s[n].retrans = res[x][n].retrans
                                  /\ s[n].recv = m.streams[n].bytes
             /\ ~IsSender(x, n) => /\ s[n].recv = res[x][n].recv
                                   /\ s[n].sent = m.streams[n].bytes
                                   /\ s[n].retrans = m.streams[n].retrans
  <2> DEFINE q == res[x][n]
             w == s[n]
             b == m.streams[n].bytes
             c == m.streams[n].retrans
  <2>1. q \in Result /\ b \in Nat /\ c \in Int
    BY DEF Shape, Results
  <2>2. /\ IsSender(x, n) => w = [q EXCEPT !.recv = b]
        /\ ~IsSender(x, n) => w = [q EXCEPT !.sent = b, !.retrans = c]
    BY DEF GetStreams
  <2> HIDE DEF q, w, b, c
  <2>3. CASE IsSender(x, n)
    <3>1. /\ w \in Result /\ w.omit = q.omit /\ w.prev = q.prev /\ w.last = q.last
          /\ w.now = q.now /\ w.sent = q.sent /\ w.retrans = q.retrans /\ w.recv = b
      BY <2>1, <2>2, <2>3 DEF Result
    <3> QED
      BY <2>3, <3>1 DEF q, w, b, c
  <2>4. CASE ~IsSender(x, n)
    <3>1. /\ w \in Result /\ w.omit = q.omit /\ w.prev = q.prev /\ w.last = q.last
          /\ w.now = q.now /\ w.sent = b /\ w.retrans = c /\ w.recv = q.recv
      BY <2>1, <2>2, <2>4 DEF Result
    <3> QED
      BY <2>4, <3>1 DEF q, w, b, c
  <2> QED
    BY <2>3, <2>4
<1>2. s = [n \in Streams |-> s[n]]
  BY DEF GetStreams
<1>3. \A n \in Streams : Own(x, s, n) = Own(x, res[x], n)
  BY <1>1 DEF Own
<1> QED
  BY <1>1, <1>2, <1>3

\* What get_results makes of the flags.
LEMMA GetsFlags ==
    ASSUME Shape, NEW x \in Sides, NEW m \in Results, NEW t, t = GetFlags(x, m)
    PROVE  /\ t \in TestState /\ t.state = test[x].state /\ t.omitting = test[x].omitting
           /\ Sends(x) => t.has = test[x].has
           /\ ~Sends(x) => t.has = m.has
           /\ Bidirectional => t.other = m.has
<1>1. opt \in Tests /\ test[x] \in TestState /\ m.has \in -1..1
  BY DEF Shape, Results
<1> DEFINE q == test[x]
           b == IF Directions(x) = {FALSE} THEN m.has ELSE q.has
           c == IF Directions(x) = {FALSE} THEN 0
                ELSE IF Bidirectional THEN m.has ELSE q.other
<1>2. b \in -1..1 /\ c \in -1..1
  <2>1. q.has \in -1..1 /\ q.other \in -1..1 /\ 0 \in -1..1
    BY <1>1 DEF TestState
  <2> HIDE DEF q
  <2> QED
    BY <1>1, <2>1
<1>3. (Sends(x) => b = q.has) /\ (~Sends(x) => b = m.has) /\ (Bidirectional => c = m.has)
  BY <1>1, DirectionFacts
<1>4. t = [q EXCEPT !.has = b, !.other = c] /\ q \in TestState
  BY <1>1 DEF GetFlags, TestState
<1> HIDE DEF q, b, c
<1>5. /\ t \in TestState /\ t.state = q.state /\ t.omitting = q.omitting
      /\ t.has = b /\ t.other = c
  BY <1>2, <1>4 DEF TestState
<1> QED
  BY <1>3, <1>5 DEF q

\* The client reads the server's results.
LEMMA ClientResultsStep ==
    ASSUME Shape, \A y \in Sides : SideInv(y), NEW x \in Sides, x = "c", ResultsSent, ClientResults
    PROVE  /\ Steps(x) /\ NoNewResults /\ out'[x].how = "none"
           /\ Told(test'[x])
           /\ \A n \in Streams :
                  ServerHas(test["s"], out["s"], n,
                            IF IsSender(x, n) THEN res'[x][n].recv ELSE res'[x][n].sent,
                            res'[x][n].retrans)
<1> DEFINE m == Head(msg[x]).results
           s == GetStreams(x, m)
           g == GetFlags(x, m)
           t == InState(g, "RESULTS_READ")
<1>1. /\ x \in Sides /\ x = "c" /\ test[x].state = "EXCHANGE_RESULTS"
      /\ Reads(x, "RESULTS") /\ Answers(x, <<>>)
      /\ test' = [test EXCEPT ![x] = t] /\ res' = [res EXCEPT ![x] = s]
      /\ kern' = [kern EXCEPT ![x] = kern[x]]
      /\ out' = [out EXCEPT ![x] = out[x]] /\ opt' = opt /\ ticks' \in 0..opt.ticks
  BY DEF Sides, ClientResults, InState, Shape
<1>2. /\ m \in Results
      /\ Sends("s") => m.has = 1
      /\ \A n \in Streams :
             ServerHas(test["s"], out["s"], n, m.streams[n].bytes, m.streams[n].retrans)
  <2>1. /\ Head(msg[x]) \in Message /\ Head(msg[x]) \in Items(msg[x])
        /\ Head(msg[x]).kind = "RESULTS"
    BY <1>1, Plain, Answering
  <2> QED
    BY <1>1, <2>1, MessageFacts DEF ResultsSent, SentBy
<1>3. /\ s = GetStreams(x, m) /\ g = GetFlags(x, m) /\ opt \in Tests /\ test[x] \in TestState
  BY <1>1 DEF Shape
<1> HIDE DEF m, s, g
<1>4. /\ g \in TestState /\ g.omitting = test[x].omitting
      /\ Sends(x) => g.has = test[x].has
      /\ ~Sends(x) => g.has = m.has
      /\ Bidirectional => g.other = m.has
  BY <1>1, <1>2, <1>3, GetsFlags
<1>5. t \in TestState /\ t.state = "RESULTS_READ" /\ SameFlags(g, t)
  BY <1>4, StateIs DEF States
<1> HIDE DEF t
<1>6. /\ s \in [Streams -> Result]
      /\ \A n \in Streams :
             /\ s[n].omit = res[x][n].omit /\ s[n].prev = res[x][n].prev
             /\ s[n].last = res[x][n].last /\ s[n].now = res[x][n].now
             /\ IsSender(x, n) => /\ s[n].sent = res[x][n].sent
                                  /\ s[n].retrans = res[x][n].retrans
                                  /\ s[n].recv = m.streams[n].bytes
             /\ ~IsSender(x, n) => /\ s[n].recv = res[x][n].recv
                                   /\ s[n].sent = m.streams[n].bytes
                                   /\ s[n].retrans = m.streams[n].retrans
             /\ Own(x, s, n) = Own(x, res[x], n)
  BY <1>1, <1>2, <1>3, GetsResults
<1>7. /\ Pending(x, test[x]) /\ Pending(x, t) /\ Active(x, test[x]) /\ Active(x, t) /\ ~Alone(t)
      /\ Unprinted(x, test[x]) /\ Unprinted(x, t)
  BY <1>1, <1>5 DEF Pending, Alone, Active, Unprinted
<1>8. Going(x, test[x], res[x], kern[x], out[x])
  BY <1>1, <1>7, IsGoing
<1>9. t.omitting = test[x].omitting /\ (Sends(x) => t.has = 1)
  BY <1>4, <1>5, <1>8 DEF Going, SameFlags
<1>10. ASSUME NEW n \in Streams
       PROVE  GoingStream(x, t, s, kern[x], out[x], n)
  <2>1. GoingStream(x, test[x], res[x], kern[x], out[x], n)
    BY <1>8 DEF Going
  <2>2. /\ Left(x, t, s, n) = Left(x, test[x], res[x], n)
        /\ LeftRetrans(x, t, s, n) = LeftRetrans(x, test[x], res[x], n)
    BY <1>6, <1>7 DEF Left, LeftRetrans
  <2> QED
    BY <1>6, <1>7, <1>9, <2>1, <2>2 DEF GoingStream
<1>11. Going(x, t, s, kern[x], out[x])
  <2>1. Marked(t, s)
    <3>1. Marked(test[x], res[x])
      BY <1>7, <1>8 DEF Going
    <3> QED
      BY <1>6, <1>9, <3>1 DEF Marked
  <2>2. Uniform(t, s)
    BY <2>1 DEF Uniform
  <2>3. ~t.omitting
    BY <1>7, <1>8, <1>9 DEF Going
  <2> QED
    BY <1>5, <1>6, <1>7, <1>8, <1>9, <1>10, <2>1, <2>2, <2>3 DEF Going
<1>12. msg' \in [Sides -> Seq(Message)] /\ NoNewResults
  BY <1>1, AnsweringPlain
<1>13. Steps(x) /\ test'[x] = t /\ out'[x] = out[x] /\ res'[x] = s
  BY <1>1, <1>11, <1>12, GoingStep
<1>14. out[x].how = "none"
  BY <1>8 DEF Going
<1>15. Told(t)
  <2>1. Sends("s") /\ ~Bidirectional => ~Sends(x)
    <3>1. "s" \in Sides /\ x = "c"
      BY <1>1 DEF Sides
    <3>2. ~Bidirectional => /\ IsSender(x, 1) <=> Sends(x)
                            /\ IsSender("s", 1) <=> Sends("s")
      BY <1>1, <1>3, <3>1, DirectionFacts, StreamFacts
    <3>3. IsSender("s", 1) <=> ~IsSender(x, 1)
      BY <3>1 DEF IsSender
    <3> QED
      BY <3>2, <3>3
  <2> QED
    BY <1>2, <1>4, <1>5, <2>1 DEF Told, SameFlags
<1>16. ASSUME NEW n \in Streams
       PROVE  ServerHas(test["s"], out["s"], n,
                        IF IsSender(x, n) THEN s[n].recv ELSE s[n].sent, s[n].retrans)
  <2>1. IsSender("s", n) <=> ~IsSender(x, n)
    BY <1>1 DEF IsSender
  <2> QED
    BY <1>2, <1>6, <2>1 DEF ServerHas
<1> QED
  BY <1>1, <1>12, <1>13, <1>14, <1>15, <1>16


-----------------------------------------------------------------------------
(* Reports. *)

\* Side x gathers s, reports it in state t and goes to state u.
Gathering(x, s, t, u, h) ==
    /\ \E short \in BOOLEAN : s = iperf_stats_callback(x, short)
    /\ t \in TestState /\ SameFlags(test[x], t) /\ t.state \in {"TEST_END", "DISPLAY_RESULTS"}
    /\ u \in TestState /\ SameFlags(test[x], u)
    /\ h \in {"regular", "signal", "late"}
    /\ x = "s" \/ h = "signal" => test[x].state = "TEST_RUNNING"
    /\ \/ u.state = "EXIT" /\ h # "regular"
       \/ u.state = "EXCHANGE_RESULTS" /\ x = "s" /\ h = "regular" /\ Running(x)

\* What was gathered before and will not be printed.
CutOff(x, p) == IF Running(x) THEN p.cut ELSE [n \in Streams |-> res[x][n].last.bytes]

\* The last interval, and the report with it.
LEMMA LastPrinted ==
    ASSUME Shape, NEW x \in Sides, Going(x, test[x], res[x], kern[x], out[x]),
           NEW s, NEW t, NEW u, NEW h, Gathering(x, s, t, u, h),
           NEW p, p = FinalOut(x, t, s, out[x], h)
    PROVE  /\ Marked(t, s) /\ s \in [Streams -> Result] /\ (Sends(x) => t.has = 1)
           /\ \A n \in Streams :
                  /\ s[n].sent = res[x][n].sent /\ s[n].omit = res[x][n].omit
                  /\ s[n].recv = res[x][n].recv /\ s[n].now = 0
                  /\ s[n].last.bytes = res[x][n].now /\ s[n].last.retrans \in Nat
                  /\ s[n].retrans = res[x][n].retrans + s[n].last.retrans
                  /\ s[n].prev = res[x][n].prev + s[n].last.retrans
                  /\ s[n].prev <= kern[x][n]
           /\ IsOut(p) /\ p.cut = out[x].cut
<1> DEFINE r == res[x]
           k == kern[x]
           o == out[x]
           v == test[x]
<1>1. PICK short \in BOOLEAN : s = iperf_stats_callback(x, short)
  BY DEF Gathering
<1>2. /\ opt \in Tests /\ v \in TestState /\ r \in [Streams -> Result]
      /\ k \in [Streams -> 0..MaxRetrans] /\ IsOut(o) /\ o.marks /\ SumsMatch(x, o)
      /\ (Sends(x) => v.has = 1)
      /\ \A n \in Streams : r[n].prev <= k[n]
  BY DEF Shape, Going, GoingStream
<1>3. /\ Marked(v, s) /\ s \in [Streams -> Result]
      /\ \A n \in Streams :
             /\ s[n].sent = r[n].sent /\ s[n].omit = r[n].omit
             /\ s[n].recv = r[n].recv /\ s[n].now = 0
             /\ s[n].last.bytes = r[n].now /\ s[n].last.retrans \in Nat
             /\ s[n].retrans = r[n].retrans + s[n].last.retrans
             /\ s[n].prev = r[n].prev + s[n].last.retrans
             /\ s[n].prev <= k[n]
  BY <1>1, <1>2, Gathers
<1>4. /\ t \in TestState /\ t.state \in {"TEST_END", "DISPLAY_RESULTS"}
      /\ Marked(t, s) /\ (Sends(x) => t.has = 1)
  BY <1>2, <1>3 DEF Marked, SameFlags, Gathering
<1>5. IsOut(p) /\ p.cut = o.cut
  BY <1>2, <1>3, <1>4, FinalReport
<1> QED
  BY <1>3, <1>4, <1>5

\* A side gathers once more and reports, when its own signal or the end of the
\* test makes it: an interval gathered before and not printed is cut off.
LEMMA LastGathered ==
    ASSUME Shape, NEW x \in Sides, Going(x, test[x], res[x], kern[x], out[x]),
           NEW s, NEW t, NEW u, NEW h, Gathering(x, s, t, u, h),
           NEW p, p = FinalOut(x, t, s, out[x], h), NEW w, w = Noted(p, s, CutOff(x, p))
    PROVE  /\ ~Active(x, u) /\ Over(x, u, s, kern[x], w)
           /\ w.how = h /\ w.counted = s /\ w.base = out[x].base
           /\ \A n \in Streams : w.summary[n] = StreamSummary(x, t, s, n)
           /\ \A n \in Streams : s[n].retrans >= res[x][n].retrans
<1> DEFINE c == CutOff(x, p)
           r == res[x]
           k == kern[x]
           o == out[x]
           v == test[x]
<1>1. /\ opt \in Tests /\ v \in TestState /\ r \in [Streams -> Result]
      /\ k \in [Streams -> 0..MaxRetrans] /\ IsOut(o) /\ o.marks /\ SumsMatch(x, o)
      /\ \A n \in Streams : GoingStream(x, v, r, k, o, n)
  BY DEF Shape, Going
<1>2. /\ Marked(t, s) /\ s \in [Streams -> Result] /\ (Sends(x) => t.has = 1)
      /\ \A n \in Streams :
             /\ s[n].sent = r[n].sent /\ s[n].omit = r[n].omit
             /\ s[n].recv = r[n].recv /\ s[n].now = 0
             /\ s[n].last.bytes = r[n].now /\ s[n].last.retrans \in Nat
             /\ s[n].retrans = r[n].retrans + s[n].last.retrans
             /\ s[n].prev = r[n].prev + s[n].last.retrans
             /\ s[n].prev <= k[n]
      /\ IsOut(p) /\ p.cut = o.cut
  BY LastPrinted
<1>3. /\ t \in TestState /\ SameFlags(v, t) /\ t.state \in {"TEST_END", "DISPLAY_RESULTS"}
      /\ u \in TestState /\ SameFlags(t, u)
      /\ h \in {"regular", "signal", "late"}
      /\ x = "s" \/ h = "signal" => v.state = "TEST_RUNNING"
      /\ \/ u.state = "EXIT" /\ h # "regular"
         \/ u.state = "EXCHANGE_RESULTS" /\ x = "s" /\ h = "regular" /\ Running(x)
  BY DEF Gathering, SameFlags
<1>4. c = IF Running(x) THEN p.cut ELSE [n \in Streams |-> r[n].last.bytes]
  BY DEF CutOff
<1> HIDE DEF c
<1>5. /\ Running(x) => ~Unprinted(x, v)
      /\ ~Running(x) => Unprinted(x, v)
  BY <1>1 DEF Going, Running, Unprinted, Active, Pending, TestState
<1>6. ASSUME NEW n \in Streams
      PROVE  /\ c[n] \in Nat /\ (Running(x) => c[n] = 0)
             /\ IsSender(x, n) => s[n].omit <= s[n].sent /\ s[n].retrans = s[n].prev - o.base[n]
             /\ ~t.omitting =>
                    /\ o.lines[n].bytes + s[n].last.bytes + c[n] = Own(x, s, n)
                    /\ IsSender(x, n) => o.lines[n].retrans + s[n].last.retrans <= s[n].retrans
  <2>1. GoingStream(x, v, r, k, o, n) /\ (t.omitting <=> v.omitting)
    BY <1>1, <1>3 DEF SameFlags
  <2>2. /\ r[n].sent \in Nat /\ r[n].omit \in Nat /\ r[n].recv \in Nat /\ r[n].now \in Nat
        /\ r[n].retrans \in Int /\ r[n].prev \in Nat /\ o.base[n] \in Nat
        /\ o.lines[n].bytes \in Nat /\ o.lines[n].retrans \in Nat
    BY <1>1 DEF Result, IsOut, Line
  <2>3. Own(x, s, n) = Own(x, r, n) /\ Own(x, r, n) \in Int
    BY <1>2, <2>2 DEF Own
  <2>4. IsSender(x, n) => s[n].omit <= s[n].sent /\ s[n].retrans = s[n].prev - o.base[n]
    BY <1>2, <2>1, <2>2 DEF GoingStream
  <2>5. CASE Running(x)
    <3>1. c[n] = 0
      BY <1>2, <1>4, <2>1, <2>5 DEF GoingStream
    <3>2. Left(x, v, r, n) = r[n].now /\ LeftRetrans(x, v, r, n) = 0
      BY <1>5, <2>5 DEF Left, LeftRetrans
    <3>3. ~v.omitting => /\ o.lines[n].bytes + r[n].now = Own(x, r, n)
                         /\ IsSender(x, n) => o.lines[n].retrans <= r[n].retrans
      BY <2>1, <2>2, <3>2 DEF GoingStream
    <3> QED
      BY <1>2, <2>1, <2>2, <2>3, <2>4, <3>1, <3>3
  <2>6. CASE ~Running(x)
    <3>1. Unprinted(x, v) /\ c[n] = r[n].last.bytes
      BY <1>4, <1>5, <2>6
    <3>2. r[n].last.bytes \in Nat /\ r[n].last.retrans \in Nat
      <4>1. Marked(v, r)
        BY <3>1 DEF Going
      <4> QED
        BY <1>1, <4>1 DEF Result, Interval, Marked
    <3>3. Left(x, v, r, n) = c[n] /\ LeftRetrans(x, v, r, n) = r[n].last.retrans /\ r[n].now = 0
      BY <2>1, <3>1 DEF Left, LeftRetrans, GoingStream
    <3>4. ~v.omitting =>
              /\ o.lines[n].bytes + c[n] = Own(x, r, n)
              /\ IsSender(x, n) => o.lines[n].retrans + r[n].last.retrans <= r[n].retrans
      BY <2>1, <3>3 DEF GoingStream
    <3> QED
      BY <1>2, <2>1, <2>2, <2>3, <2>4, <2>6, <3>1, <3>2, <3>3, <3>4
  <2> QED
    BY <2>5, <2>6
<1>7. c \in [Streams -> Nat]
  <2>1. c = [n \in Streams |-> c[n]]
    BY <1>2, <1>4 DEF IsOut
  <2> QED
    BY <1>6, <2>1
<1>8. Closing(x, t, u, s, k, o, s, c, h)
  <2>1. h = "regular" => \A n \in Streams : c[n] = 0
    BY <1>3, <1>6
  <2>2. x = "s" \/ h = "signal" => (~Sends(x) => t.has = 0) /\ t.other = 0
    BY <1>3 DEF Going, Alone, SameFlags
  <2> QED
    BY <1>1, <1>2, <1>3, <1>4, <1>5, <1>6, <1>7, <2>1, <2>2 DEF Closing
<1>9. \A n \in Streams : s[n].retrans >= r[n].retrans
  <2>1. \A n \in Streams : r[n].retrans \in Int
    BY <1>1 DEF Result
  <2> QED
    BY <1>2, <2>1
<1>10. w = Noted(p, s, c)
  BY DEF c
<1> HIDE DEF r, k, o, v
<1>11. p = FinalOut(x, t, s, o, h)
  BY DEF o
<1>12. /\ ~Active(x, u) /\ Over(x, u, s, k, w)
       /\ w.how = h /\ w.counted = s /\ w.base = o.base
       /\ \A n \in Streams : w.summary[n] = StreamSummary(x, t, s, n)
  BY <1>1, <1>8, <1>10, <1>11, Finish
<1> QED
  BY <1>9, <1>12 DEF r, k, o

\* The server reports when the client ends the test.
LEMMA ServerTestEndStep ==
    ASSUME Shape, \A y \in Sides : SideInv(y), NEW x \in Sides, x = "s", ServerTestEnd
    PROVE  Steps(x) /\ NoNewResults
<1> DEFINE t == InState(test[x], "TEST_END")
           u == InState(test[x], "EXCHANGE_RESULTS")
<1>1. PICK short \in BOOLEAN :
          LET s == iperf_stats_callback(x, short)
          IN  /\ res' = [res EXCEPT ![x] = s]
              /\ out' = [out EXCEPT ![x] = [FinalOut(x, t, s, out[x], "regular") EXCEPT !.counted = s]]
  BY DEF ServerTestEnd, LastReport, FinalOut, InState
<1> DEFINE s == iperf_stats_callback(x, short)
           p == FinalOut(x, t, s, out[x], "regular")
           w == [p EXCEPT !.counted = s]
<1>2. /\ res' = [res EXCEPT ![x] = s] /\ out' = [out EXCEPT ![x] = w]
      /\ s = iperf_stats_callback(x, short) /\ p = FinalOut(x, t, s, out[x], "regular")
  BY <1>1
<1> HIDE DEF s, p
<1>3. /\ Running(x) /\ test' = [test EXCEPT ![x] = u]
      /\ Reads(x, "TEST_END") /\ Answers(x, <<Control("EXCHANGE_RESULTS")>>)
      /\ kern' = [kern EXCEPT ![x] = kern[x]] /\ opt' = opt /\ ticks' \in 0..opt.ticks
  BY DEF ServerTestEnd, InState, Shape
<1>4. /\ t \in TestState /\ t.state = "TEST_END" /\ SameFlags(test[x], t)
      /\ u \in TestState /\ u.state = "EXCHANGE_RESULTS" /\ SameFlags(test[x], u)
  BY StateIs DEF Shape, States
<1> HIDE DEF t, u
<1>5. Going(x, test[x], res[x], kern[x], out[x])
  BY <1>3, RunningIs, IsGoing
<1>6. Gathering(x, s, t, u, "regular")
  BY <1>2, <1>3, <1>4 DEF Gathering, Running
<1>7. w = Noted(p, s, CutOff(x, p))
  <2>1. IsOut(p)
    BY <1>2, <1>5, <1>6, LastPrinted
  <2>2. [p EXCEPT !.counted = s] = Noted(p, s, p.cut)
    BY <2>1 DEF IsOut, Noted
  <2> QED
    BY <1>3, <2>2 DEF CutOff
<1> HIDE DEF w
<1>8. ~Active(x, u) /\ Over(x, u, s, kern[x], w)
  BY <1>2, <1>5, <1>6, <1>7, LastGathered
<1>9. msg' \in [Sides -> Seq(Message)] /\ NoNewResults
  BY <1>3, AnsweringPlain
<1>10. Steps(x)
  <2>1. /\ res' = [res EXCEPT ![x] = s] /\ out' = [out EXCEPT ![x] = w]
    BY <1>2
  <2> QED
    BY <1>3, <1>8, <1>9, <2>1, OverStep
<1> QED
  BY <1>9, <1>10

\* A side that is interrupted gathers and reports.
LEMMA SignalStep ==
    ASSUME Shape, \A y \in Sides : SideInv(y), HasResults, NEW x \in Sides, iperf_got_sigend(x)
    PROVE  /\ Steps(x) /\ NoNewResults
           /\ test'[x].state = "EXIT"
           /\ out'[x].how \in {"signal", "late"}
           /\ x = "s" => test[x].state = "TEST_RUNNING"
           /\ x = "c" /\ out'[x].how = "late" =>
                  \A n \in Streams : ~IsSender(x, n) /\ out'[x].summary[n].retrans # None =>
                      /\ test["s"].state # "TEST_RUNNING"
                      /\ out'[x].summary[n].retrans >= Cnt(out["s"], n)
<1> DEFINE h == IF test[x].state = "TEST_RUNNING" THEN "signal" ELSE "late"
           t == InState(test[x], "DISPLAY_RESULTS")
           u == InState(test[x], "EXIT")
<1>1. PICK short \in BOOLEAN :
          LET s == iperf_stats_callback(x, short)
              p == FinalOut(x, t, s, out[x], h)
          IN  /\ res' = [res EXCEPT ![x] = s]
              /\ out' = [out EXCEPT ![x] = Noted(p, s, CutOff(x, p))]
  BY DEF iperf_got_sigend, LastReport, FinalOut, InState, Noted, CutOff
<1> DEFINE s == iperf_stats_callback(x, short)
           p == FinalOut(x, t, s, out[x], h)
           w == Noted(p, s, CutOff(x, p))
<1>2. /\ res' = [res EXCEPT ![x] = s] /\ out' = [out EXCEPT ![x] = w]
      /\ s = iperf_stats_callback(x, short) /\ p = FinalOut(x, t, s, out[x], h)
      /\ w = Noted(p, s, CutOff(x, p))
  BY <1>1
<1> HIDE DEF s, p, w
<1>3. /\ h \in {"regular", "signal", "late"} /\ h # "regular"
      /\ x = "s" \/ h = "signal" => test[x].state = "TEST_RUNNING"
      /\ h = "late" => test[x].state # "TEST_RUNNING"
  BY DEF iperf_got_sigend, Sides
<1>4. /\ test' = [test EXCEPT ![x] = u]
      /\ msg' = [msg EXCEPT ![Peer(x)] = Append(@, Control("TERMINATE"))]
      /\ kern' = [kern EXCEPT ![x] = kern[x]] /\ opt' = opt /\ ticks' \in 0..opt.ticks
  BY DEF iperf_got_sigend, Exits, InState, Shape
<1> HIDE DEF h
<1>5. /\ t \in TestState /\ t.state = "DISPLAY_RESULTS" /\ SameFlags(test[x], t)
      /\ u \in TestState /\ u.state = "EXIT" /\ SameFlags(test[x], u)
  BY StateIs DEF Shape, States
<1> HIDE DEF t, u
<1>6. Going(x, test[x], res[x], kern[x], out[x])
  <2>1. Active(x, test[x])
    BY DEF iperf_got_sigend, Active, Pending, Shape, TestState, States
  <2> QED
    BY <2>1, IsGoing
<1>7. /\ ~Active(x, u) /\ Over(x, u, s, kern[x], w) /\ w.how = h
      /\ \A n \in Streams : w.summary[n] = StreamSummary(x, t, s, n)
      /\ \A n \in Streams : s[n].retrans >= res[x][n].retrans
  <2>1. Gathering(x, s, t, u, h)
    BY <1>2, <1>3, <1>5 DEF Gathering
  <2> QED
    BY <1>2, <1>6, <2>1, LastGathered
<1>8. msg' \in [Sides -> Seq(Message)] /\ NoNewResults
  BY <1>4, Sending DEF Peer, Sides
<1>9. Steps(x) /\ test'[x] = u /\ out'[x] = w
  <2>1. /\ res' = [res EXCEPT ![x] = s] /\ out' = [out EXCEPT ![x] = w]
    BY <1>2
  <2> QED
    BY <1>4, <1>7, <1>8, <2>1, OverStep
<1>10. ASSUME x = "c", h = "late", NEW n \in Streams, ~IsSender(x, n), w.summary[n].retrans # None
       PROVE  test["s"].state # "TEST_RUNNING" /\ w.summary[n].retrans >= Cnt(out["s"], n)
  <2>1. /\ w.summary[n].retrans = s[n].retrans
        /\ HasRetransmits(t, FALSE)
    <3>1. IsSender(x, n) = FALSE
      BY <1>10 DEF IsSender
    <3>2. w.summary[n].retrans = IF HasRetransmits(t, FALSE) /\ Available(x, FALSE)
                                 THEN s[n].retrans ELSE None
      <4>1. StreamSummary(x, t, s, n).retrans
                = IF HasRetransmits(t, FALSE) /\ Available(x, FALSE) THEN s[n].retrans ELSE None
        BY <3>1 DEF StreamSummary
      <4> QED
        BY <1>7, <4>1
    <3> QED
      BY <1>10, <3>2
  <2>2. ~Alone(test[x])
    <3>1. ASSUME Alone(test[x]) PROVE FALSE
      <4>1. (~Sends(x) => t.has = 0) /\ t.other = 0
        BY <1>5, <1>6, <3>1 DEF Going, SameFlags
      <4>2. ~Bidirectional => ~Sends(x)
        BY <1>10, DirectionFacts DEF Shape
      <4> QED
        BY <2>1, <4>1, <4>2 DEF HasRetransmits
    <3> QED
      BY <3>1
  <2>3. test["c"].state \in {"RESULTS_READ", "DISPLAY_RESULTS"}
    BY <1>3, <1>6, <1>10, <2>2 DEF Going, Active, Pending, Alone
  <2>4. ServerHas(test["s"], out["s"], n, res["c"][n].sent, res["c"][n].retrans)
    BY <1>10, <2>3 DEF HasResults, KnownBy
  <2>5. IsSender("s", n)
    BY <1>10 DEF IsSender
  <2>6. s[n].retrans >= res["c"][n].retrans /\ res["c"][n].retrans = Cnt(out["s"], n)
    BY <1>7, <1>10, <2>4, <2>5 DEF ServerHas
  <2> QED
    BY <2>1, <2>4, <2>6 DEF ServerHas
<1> QED
  BY <1>3, <1>5, <1>7, <1>8, <1>9, <1>10

\* The client reports.
LEMMA ClientEndStep ==
    ASSUME Shape, \A y \in Sides : SideInv(y), HasResults, NEW x \in Sides, x = "c", iperf_client_end
    PROVE  /\ Steps(x) /\ NoNewResults /\ test'[x].state = "IPERF_DONE"
           /\ \A n \in Streams :
                  /\ ServerHas(test["s"], out["s"], n,
                               IF IsSender("c", n) THEN out'[x].summary[n].recv
                                                   ELSE out'[x].summary[n].sent,
                               out'[x].summary[n].retrans)
                  /\ ~IsSender("c", n) => out'[x].summary[n].retrans \in Int
           /\ out'[x].how = "regular"
<1> DEFINE t == test[x]
           r == res[x]
           k == kern[x]
           o == out[x]
           u == InState(t, "IPERF_DONE")
           p == FinalOut(x, t, r, o, "regular")
<1>1. /\ t.state = "DISPLAY_RESULTS" /\ out' = [out EXCEPT ![x] = p]
      /\ test' = [test EXCEPT ![x] = u] /\ res' = [res EXCEPT ![x] = r]
      /\ kern' = [kern EXCEPT ![x] = k] /\ opt' = opt /\ msg' = msg
      /\ msg' \in [Sides -> Seq(Message)] /\ ticks' \in 0..opt.ticks
      /\ p = FinalOut(x, t, r, o, "regular")
  BY DEF iperf_client_end, LastReport, FinalOut, InState, Shape
<1>2. Pending(x, t) /\ Unprinted(x, t) /\ Active(x, t)
  BY <1>1 DEF Pending, Unprinted, Active
<1>3. Going(x, t, r, k, o)
  BY <1>2, IsGoing
<1>4. /\ Told(t)
      /\ \A n \in Streams : ServerHas(test["s"], out["s"], n,
                                      IF IsSender("c", n) THEN r[n].recv ELSE r[n].sent,
                                      r[n].retrans)
  BY <1>1 DEF HasResults, KnownBy
<1> HIDE DEF r, k, o, p
<1>5. t \in TestState /\ u \in TestState /\ u.state = "IPERF_DONE" /\ SameFlags(t, u)
  BY <1>3, StateIs DEF Going, States
<1> HIDE DEF t, u
<1>6. /\ r \in [Streams -> Result] /\ k \in [Streams -> 0..MaxRetrans] /\ Marked(t, r)
      /\ IsOut(o) /\ o.marks /\ SumsMatch(x, o) /\ (Sends(x) => t.has = 1)
      /\ \A n \in Streams : GoingStream(x, t, r, k, o, n)
  BY <1>2, <1>3 DEF Going
<1>7. /\ IsOut(p) /\ p.counted = o.counted /\ p.cut = o.cut
      /\ opt \in Tests /\ t.state \in {"TEST_END", "DISPLAY_RESULTS"}
  <2>1. opt \in Tests /\ t.state \in {"TEST_END", "DISPLAY_RESULTS"}
    BY <1>1 DEF Shape
  <2>2. p = FinalOut(x, t, r, o, "regular")
    BY <1>1
  <2> QED
    BY <1>5, <1>6, <2>1, <2>2, FinalReport
<1>8. Closing(x, t, u, r, k, o, o.counted, o.cut, "regular")
  <2>1. o.counted \in [Streams -> Result] /\ o.cut \in [Streams -> Nat]
    BY <1>6 DEF IsOut
  <2>2. ASSUME NEW n \in Streams
        PROVE  /\ IsSender(x, n) => r[n].omit <= r[n].sent
                                    /\ r[n].retrans = o.counted[n].prev - o.base[n]
               /\ Own(x, r, n) = Own(x, o.counted, n) /\ o.cut[n] = 0
               /\ ~t.omitting =>
                      /\ o.lines[n].bytes + r[n].last.bytes + o.cut[n] = Own(x, r, n)
                      /\ IsSender(x, n) => o.lines[n].retrans + r[n].last.retrans <= r[n].retrans
    <3>1. GoingStream(x, t, r, k, o, n)
      BY <1>6
    <3>2. o.lines[n].bytes \in Nat /\ r[n].last.bytes \in Nat
      BY <1>6 DEF IsOut, Line, Marked, Result, Interval
    <3>3. Left(x, t, r, n) = r[n].last.bytes /\ LeftRetrans(x, t, r, n) = r[n].last.retrans
      BY <1>2 DEF Left, LeftRetrans
    <3> QED
      BY <1>2, <3>1, <3>2, <3>3 DEF GoingStream
  <2> QED
    BY <1>5, <1>6, <1>7, <2>1, <2>2 DEF Closing
<1>9. p = Noted(p, o.counted, o.cut)
  BY <1>7 DEF IsOut, Noted
<1>10. /\ ~Active(x, u) /\ Over(x, u, r, k, p) /\ p.how = "regular"
       /\ \A n \in Streams : p.summary[n] = StreamSummary(x, t, r, n)
  BY <1>1, <1>7, <1>8, <1>9, Finish
<1>11. Steps(x) /\ test'[x] = u /\ out'[x] = p
  <2>1. /\ opt' = opt /\ Over(x, u, r, k, p) /\ ~Active(x, u)
        /\ test' = [test EXCEPT ![x] = u] /\ res' = [res EXCEPT ![x] = r]
        /\ kern' = [kern EXCEPT ![x] = k] /\ out' = [out EXCEPT ![x] = p]
        /\ msg' \in [Sides -> Seq(Message)] /\ ticks' \in 0..opt.ticks
    BY <1>1, <1>10
  <2> QED
    BY <2>1, OverStep
<1>12. ASSUME NEW n \in Streams
       PROVE  /\ ServerHas(test["s"], out["s"], n,
                           IF IsSender("c", n) THEN p.summary[n].recv ELSE p.summary[n].sent,
                           p.summary[n].retrans)
              /\ ~IsSender("c", n) => p.summary[n].retrans \in Int
  <2>1. ServerHas(test["s"], out["s"], n, IF IsSender("c", n) THEN r[n].recv ELSE r[n].sent,
                  r[n].retrans)
    BY <1>4
  <2>2. CASE IsSender(x, n)
    <3>1. IsSender(x, n) = TRUE /\ ~IsSender("s", n)
      BY <2>2 DEF IsSender
    <3>2. StreamSummary(x, t, r, n).recv = r[n].recv
      BY <3>1 DEF StreamSummary, Available
    <3>3. p.summary[n].recv = r[n].recv
      BY <1>10, <3>2
    <3> QED
      BY <2>1, <2>2, <3>1, <3>3 DEF ServerHas
  <2>3. CASE ~IsSender(x, n)
    <3>1. IsSender(x, n) = FALSE /\ IsSender("s", n)
      BY <2>3 DEF IsSender
    <3>2. HasRetransmits(t, FALSE)
      <4>1. "s" \in Sides
        BY DEF Sides
      <4>2. Sends("s")
        BY <1>7, <3>1, <4>1, DirectionFacts
      <4> QED
        BY <1>4, <4>2 DEF Told, HasRetransmits
    <3>3. r[n].omit = 0 /\ r[n].sent \in Nat /\ r[n].retrans \in Int
      BY <1>6, <2>3 DEF GoingStream, Result
    <3>4. /\ StreamSummary(x, t, r, n).sent = r[n].sent - r[n].omit
          /\ StreamSummary(x, t, r, n).retrans = r[n].retrans
      BY <3>1, <3>2 DEF StreamSummary, Available
    <3>5. p.summary[n].sent = r[n].sent /\ p.summary[n].retrans = r[n].retrans
      BY <1>10, <3>3, <3>4
    <3> QED
      BY <2>1, <2>3, <3>3, <3>5 DEF ServerHas
  <2> QED
    BY <2>2, <2>3
<1> QED
  BY <1>1, <1>5, <1>10, <1>11, <1>12, NoMessage

\* The server that has reported neither counts anything more nor forgets.
Frozen ==
    test["s"].state # "TEST_RUNNING" =>
        /\ test'["s"].state # "TEST_RUNNING"
        /\ out'["s"].counted = out["s"].counted /\ out'["s"].base = out["s"].base

\* A side that has reported stays as it is in another state.
LEMMA Stays ==
    ASSUME NEW x \in Sides, NEW t, NEW r, NEW k, NEW o, Over(x, t, r, k, o),
           NEW u \in TestState, SameFlags(t, u), u.state = "EXIT"
    PROVE  Over(x, u, r, k, o) /\ ~Active(x, u)
<1>1. Uniform(u, r) /\ (Stale(x, u, r) <=> Stale(x, t, r))
  BY DEF Over, Uniform, Marked, Stale, SameFlags
<1> QED
  BY <1>1 DEF Over, Active, Pending, SameFlags

\* The results of the client are added to the server's.
LEMMA ServerExchangeStep ==
    ASSUME Shape, \A y \in Sides : SideInv(y), NEW x \in Sides, x = "s", ServerExchange
    PROVE  /\ Steps(x) /\ Frozen
           /\ test'[x].state # "TEST_RUNNING" /\ test[x].state = "EXCHANGE_RESULTS"
           /\ \A m \in Items(msg'["c"]) : m.kind = "RESULTS" =>
                  m \in Items(msg["c"]) \/ m = Carrying(send_results(x))
<1> DEFINE m == Head(msg[x]).results
           s == GetStreams(x, m)
           g == GetFlags(x, m)
           t == InState(g, "DISPLAY_RESULTS")
           a == Carrying(send_results(x))
           b == Control("DISPLAY_RESULTS")
<1>1. /\ test[x].state = "EXCHANGE_RESULTS"
      /\ Reads(x, "RESULTS") /\ Answers(x, <<a, b>>)
      /\ test' = [test EXCEPT ![x] = t] /\ res' = [res EXCEPT ![x] = s]
      /\ kern' = [kern EXCEPT ![x] = kern[x]]
      /\ out' = [out EXCEPT ![x] = out[x]] /\ opt' = opt /\ ticks' \in 0..opt.ticks
  BY DEF ServerExchange, InState, Shape
<1>2. /\ a \in Message /\ b \in Message /\ b.kind # "RESULTS"
  BY <1>1, SendsResults, MessageFacts
<1>3. m \in Results /\ s = GetStreams(x, m) /\ g = GetFlags(x, m)
      /\ opt \in Tests /\ test[x] \in TestState
  <2>1. Head(msg[x]) \in Message /\ Head(msg[x]).kind = "RESULTS"
    BY <1>1, Plain, Answering DEF Reads, Shape, Message
  <2> QED
    BY <2>1, MessageFacts DEF Shape
<1> HIDE DEF m, s, g, a, b
<1>4. <<a, b>> \in Seq(Message) /\ Items(<<a, b>>) = {a, b}
  BY <1>2 DEF Items
<1>5. /\ g \in TestState /\ g.omitting = test[x].omitting
      /\ Sends(x) => g.has = test[x].has
  BY <1>3, GetsFlags
<1>6. t \in TestState /\ t.state = "DISPLAY_RESULTS" /\ SameFlags(g, t)
  BY <1>5, StateIs DEF States
<1> HIDE DEF t
<1>7. /\ s \in [Streams -> Result]
      /\ \A n \in Streams : /\ s[n].omit = res[x][n].omit /\ s[n].last = res[x][n].last
                            /\ IsSender(x, n) => s[n].sent = res[x][n].sent
  BY <1>3, GetsResults
<1>8. ~Active(x, test[x]) /\ ~Active(x, t)
  BY <1>1, <1>6 DEF Active, Pending
<1>9. Over(x, test[x], res[x], kern[x], out[x]) /\ out[x].how = "regular"
  BY <1>1, <1>8 DEF SideInv, SideOK, Over
<1>10. Over(x, t, s, kern[x], out[x])
  <2>1. t.omitting = test[x].omitting /\ (Sends(x) => t.has = 1)
    BY <1>5, <1>6, <1>9 DEF Over, SameFlags
  <2>2. Uniform(t, s)
    BY <1>7, <1>9, <2>1 DEF Over, Uniform, Marked
  <2>3. \A n \in Streams : IsSender(x, n) => s[n].omit <= s[n].sent
    BY <1>7, <1>9 DEF Over
  <2> QED
    BY <1>6, <1>7, <1>9, <2>1, <2>2, <2>3 DEF Over
<1>11. /\ msg' \in [Sides -> Seq(Message)]
       /\ \A e \in Items(msg'["c"]) : e \in Items(msg["c"]) \/ e \in {a, b}
  BY <1>1, <1>4, Answering
<1>12. Steps(x) /\ test'[x] = t /\ out'[x] = out[x]
  <2> DEFINE k == kern[x]
             o == out[x]
  <2>1. /\ opt' = opt /\ Over(x, t, s, k, o) /\ ~Active(x, t)
        /\ test' = [test EXCEPT ![x] = t] /\ res' = [res EXCEPT ![x] = s]
        /\ kern' = [kern EXCEPT ![x] = k] /\ out' = [out EXCEPT ![x] = o]
        /\ msg' \in [Sides -> Seq(Message)] /\ ticks' \in 0..opt.ticks
    BY <1>1, <1>8, <1>10, <1>11
  <2> HIDE DEF k, o
  <2>2. Steps(x) /\ test'[x] = t /\ out'[x] = o
    BY <2>1, OverStep
  <2> QED
    BY <2>2 DEF o
<1> QED
  BY <1>1, <1>2, <1>6, <1>11, <1>12 DEF Frozen, a

\* The exchange of results fails.
LEMMA ExchangeFailsStep ==
    ASSUME Shape, \A y \in Sides : SideInv(y), NEW x \in Sides, ExchangeFails(x)
    PROVE  /\ Steps(x) /\ NoNewResults /\ test'[x].state = "EXIT" /\ out'[x] = out[x]
           /\ test[x].state = "EXCHANGE_RESULTS"
<1> DEFINE t == InState(test[x], "EXIT")
<1>1. /\ test[x].state = "EXCHANGE_RESULTS"
      /\ Reads(x, "TERMINATE") /\ Answers(x, <<>>)
      /\ test' = [test EXCEPT ![x] = t] /\ res' = [res EXCEPT ![x] = res[x]]
      /\ kern' = [kern EXCEPT ![x] = kern[x]]
      /\ out' = [out EXCEPT ![x] = out[x]] /\ opt' = opt /\ ticks' \in 0..opt.ticks
  BY DEF ExchangeFails, InState, Shape
<1>2. t \in TestState /\ t.state = "EXIT" /\ SameFlags(test[x], t)
  BY StateIs DEF Shape, States
<1> HIDE DEF t
<1>3. Over(x, t, res[x], kern[x], out[x]) /\ ~Active(x, t)
  <2>1. CASE Active(x, test[x])
    <3>1. Going(x, test[x], res[x], kern[x], out[x])
      BY <2>1, IsGoing
    <3>2. ~Active(x, t)
      BY <1>2 DEF Active, Pending
    <3>3. Uniform(t, res[x])
      BY <1>2, <3>1 DEF Going, Uniform, Marked, SameFlags
    <3>4. \A n \in Streams : IsSender(x, n) => res[x][n].omit <= res[x][n].sent
      BY <3>1 DEF Going, GoingStream
    <3>5. Reported(x, out[x])
      BY <3>1 DEF Going, Reported
    <3> QED
      BY <1>2, <3>1, <3>2, <3>3, <3>4, <3>5 DEF Going, Over, SameFlags
  <2>2. CASE ~Active(x, test[x])
    <3>1. Over(x, test[x], res[x], kern[x], out[x])
      BY <2>2 DEF SideInv, SideOK
    <3> QED
      BY <1>2, <3>1, Stays
  <2> QED
    BY <2>1, <2>2
<1>4. msg' \in [Sides -> Seq(Message)] /\ NoNewResults
  BY <1>1, AnsweringPlain
<1>5. Steps(x) /\ test'[x] = t /\ out'[x] = out[x]
  BY <1>1, <1>3, <1>4, OverStep, ZenonT(30)
<1> QED
  BY <1>1, <1>2, <1>4, <1>5

\* A server that has reported is interrupted.
LEMMA ServerInterruptedStep ==
    ASSUME Shape, \A y \in Sides : SideInv(y), NEW x \in Sides, x = "s", ServerInterrupted
    PROVE  Steps(x) /\ NoNewResults /\ Frozen
<1> DEFINE t == InState(test[x], "EXIT")
<1>1. /\ test[x].state \in {"EXCHANGE_RESULTS", "DISPLAY_RESULTS"}
      /\ msg' = [msg EXCEPT ![Peer(x)] = Append(@, Control("TERMINATE"))]
      /\ test' = [test EXCEPT ![x] = t] /\ res' = [res EXCEPT ![x] = res[x]]
      /\ kern' = [kern EXCEPT ![x] = kern[x]]
      /\ out' = [out EXCEPT ![x] = out[x]] /\ opt' = opt /\ ticks' \in 0..opt.ticks
  BY DEF ServerInterrupted, Exits, InState, Shape
<1>2. t \in TestState /\ t.state = "EXIT" /\ SameFlags(test[x], t)
  BY StateIs DEF Shape, States
<1> HIDE DEF t
<1>3. ~Active(x, test[x])
  BY <1>1 DEF Active, Pending
<1>4. Over(x, t, res[x], kern[x], out[x]) /\ ~Active(x, t)
  <2>1. Over(x, test[x], res[x], kern[x], out[x])
    BY <1>3 DEF SideInv, SideOK
  <2> QED
    BY <1>2, <2>1, Stays
<1>5. msg' \in [Sides -> Seq(Message)] /\ NoNewResults
  BY <1>1, Sending DEF Peer, Sides
<1>6. Steps(x) /\ test'[x] = t /\ out'[x] = out[x]
  <2> DEFINE r == res[x]
             k == kern[x]
             o == out[x]
  <2>1. /\ opt' = opt /\ Over(x, t, r, k, o) /\ ~Active(x, t)
        /\ test' = [test EXCEPT ![x] = t] /\ res' = [res EXCEPT ![x] = r]
        /\ kern' = [kern EXCEPT ![x] = k] /\ out' = [out EXCEPT ![x] = o]
        /\ msg' \in [Sides -> Seq(Message)] /\ ticks' \in 0..opt.ticks
    BY <1>1, <1>4, <1>5
  <2> HIDE DEF r, k, o
  <2>2. Steps(x) /\ test'[x] = t /\ out'[x] = o
    BY <2>1, OverStep
  <2> QED
    BY <2>2 DEF o
<1> QED
  BY <1>2, <1>5, <1>6 DEF Frozen

\* The marks of the sum lines in a report of intervals gathered before.
LEMMA PeerMarks ==
    ASSUME opt \in Tests, NEW x \in Sides, NEW t \in TestState, NEW r \in [Streams -> Result],
           Uniform(t, r), Sends(x) => t.has = 1, IntervalOk(x, r)
    PROVE  (\A d \in Directions(x) : \A n \in StreamsOf(x, d) :
                PrintsSum(x) => SumOmits(x, t, r, d) = r[n].last.omitted)
               <=> ~Stale(x, t, r)
<1>1. 1 \in Streams /\ \A d \in BOOLEAN : StreamsOf(x, d) \subseteq Streams
  BY StreamFacts
<1>2. /\ Directions(x) \subseteq BOOLEAN
      /\ TRUE \in Directions(x) => t.has = 1
      /\ \A n \in StreamsOf(x, FALSE) : FALSE \in Directions(x)
  <2>1. ASSUME NEW n \in StreamsOf(x, FALSE) PROVE FALSE \in Directions(x)
    <3>1. n \in Streams /\ IsSender(x, n) = FALSE
      BY DEF StreamsOf
    <3>2. CASE Bidirectional
      BY <3>2 DEF Directions
    <3>3. CASE ~Bidirectional
      <4>1. IsSender(x, 1) = IsSender(x, n)
        BY <3>3 DEF IsSender
      <4> QED
        BY <3>1, <3>3, <4>1 DEF Directions
    <3> QED
      BY <3>2, <3>3
  <2> QED
    BY <2>1, DirectionFacts DEF Sends
<1>3. ~\A n \in Streams : r[n].last = None
  BY DEF IntervalOk
<1>4. CASE Marked(t, r)
  <2>1. \A d \in BOOLEAN : SumOmits(x, t, r, d) = t.omitting
    BY <1>1, <1>4 DEF SumOmits, Marked
  <2>2. \A n \in Streams : r[n].last.omitted = t.omitting
    BY <1>4 DEF Marked
  <2> QED
    BY <1>1, <1>2, <2>1, <2>2 DEF Stale
<1>5. CASE ~t.omitting /\ \A n \in Streams : r[n].last # None /\ r[n].last.omitted = TRUE
  <2>1. t.omitting = FALSE
    BY <1>5 DEF TestState
  <2>2. SumOmits(x, t, r, FALSE) = FALSE
    BY <2>1 DEF SumOmits
  <2>3. TRUE \in Directions(x) => SumOmits(x, t, r, TRUE) = TRUE
    BY <1>1, <1>2, <1>5 DEF SumOmits
  <2>4. \A n \in Streams : r[n].last.omitted = TRUE
    BY <1>5
  <2>5. Stale(x, t, r) <=> PrintsSum(x) /\ \E n \in StreamsOf(x, FALSE) : TRUE
    BY <1>1, <2>1, <2>4 DEF Stale
  <2>6. (\A d \in Directions(x) : \A n \in StreamsOf(x, d) :
             PrintsSum(x) => SumOmits(x, t, r, d) = r[n].last.omitted)
            <=> (PrintsSum(x) => \A n \in StreamsOf(x, FALSE) : FALSE)
    BY <1>1, <1>2, <2>2, <2>3, <2>4
  <2> QED
    BY <2>5, <2>6
<1> QED
  BY <1>3, <1>4, <1>5 DEF Uniform

\* What a report of intervals gathered before leaves and what it says.
LEMMA PeerReport ==
    ASSUME opt \in Tests, NEW x \in Sides, NEW t \in TestState,
           t.state \in {"TEST_END", "DISPLAY_RESULTS"}, NEW r \in [Streams -> Result],
           Uniform(t, r), Sends(x) => t.has = 1, NEW o, IsOut(o), o.marks,
           NEW p, p = FinalOut(x, t, r, o, "peer")
    PROVE  /\ p.how = "peer" /\ p.counted = o.counted /\ p.base = o.base
           /\ p.marks <=> ~Stale(x, t, r)
<1> DEFINE a == iperf_print_intermediate(x, t, r, o)
           b == iperf_print_results(x, t, r, a)
           lines == [n \in Streams |-> print_interval_results(x, t, r, o, n)]
           sum == [d \in BOOLEAN |->
                IF d \in Directions(x) /\ PrintsSum(x) /\ ~SumOmits(x, t, r, d)
                THEN o.sum[d] + SumFunctionOnSet([n \in Streams |-> r[n].last.bytes], StreamsOf(x, d))
                ELSE o.sum[d]]
           same == \A d \in Directions(x) : \A n \in StreamsOf(x, d) :
                       PrintsSum(x) => SumOmits(x, t, r, d) = r[n].last.omitted
           marks == o.marks /\ same
           summary == [n \in Streams |-> StreamSummary(x, t, r, n)]
           total == [d \in BOOLEAN |-> SumSummary(x, t, r, d)]
           omits == t.omitting
<1>1. /\ ~IntervalOk(x, r) => a = o
      /\ IntervalOk(x, r) => a = [o EXCEPT !.lines = lines, !.sum = sum, !.marks = marks]
  BY DEF iperf_print_intermediate
<1>2. b = [a EXCEPT !.summary = summary, !.total = total]
  BY DEF iperf_print_results
<1>3. p = [b EXCEPT !.how = "peer", !.omits = omits]
  BY ReporterIs DEF FinalOut
<1>4. IntervalOk(x, r) => (marks <=> ~Stale(x, t, r))
  BY PeerMarks
<1>5. ~IntervalOk(x, r) => ~Stale(x, t, r)
  BY DEF Stale
<1> HIDE DEF a, b, lines, sum, same, marks, summary, total, omits
<1>6. /\ a = [lines |-> a.lines, sum |-> a.sum, marks |-> a.marks, read |-> a.read,
              base |-> a.base, summary |-> a.summary, total |-> a.total, how |-> a.how,
              omits |-> a.omits, counted |-> a.counted, cut |-> a.cut]
      /\ a.counted = o.counted /\ a.base = o.base
      /\ a.marks <=> ~Stale(x, t, r)
  <2>1. CASE ~IntervalOk(x, r)
    BY <1>1, <1>5, <2>1 DEF IsOut
  <2>2. CASE IntervalOk(x, r)
    <3>1. /\ a = [lines |-> a.lines, sum |-> a.sum, marks |-> a.marks, read |-> a.read,
                  base |-> a.base, summary |-> a.summary, total |-> a.total, how |-> a.how,
                  omits |-> a.omits, counted |-> a.counted, cut |-> a.cut]
          /\ a.counted = o.counted /\ a.base = o.base /\ a.marks = marks
      BY <1>1, <2>2 DEF IsOut
    <3>2. marks <=> ~Stale(x, t, r)
      BY <1>4, <2>2
    <3> QED
      BY <3>1, <3>2
  <2> QED
    BY <2>1, <2>2
<1>7. /\ b = [lines |-> b.lines, sum |-> b.sum, marks |-> b.marks, read |-> b.read,
              base |-> b.base, summary |-> b.summary, total |-> b.total, how |-> b.how,
              omits |-> b.omits, counted |-> b.counted, cut |-> b.cut]
      /\ b.counted = a.counted /\ b.base = a.base /\ b.marks = a.marks
  BY <1>2, <1>6
<1>8. p.how = "peer" /\ p.counted = b.counted /\ p.base = b.base /\ p.marks = b.marks
  BY <1>3, <1>7
<1> QED
  BY <1>6, <1>7, <1>8

\* The other side is gone: a report of what was gathered last.
LEMMA PeerStep ==
    ASSUME Shape, \A y \in Sides : SideInv(y), NEW x \in Sides, PeerTerminated(x)
    PROVE  /\ Steps(x) /\ NoNewResults
           /\ test'[x].state \in {"IPERF_DONE", "EXIT"} /\ out'[x].how = "peer"
           /\ out'[x].counted = out[x].counted /\ out'[x].base = out[x].base
<1> DEFINE r == res[x]
           k == kern[x]
           o == out[x]
           v == test[x]
           t == InState(v, "DISPLAY_RESULTS")
           u == InState(v, IF x = "c" THEN "EXIT" ELSE "IPERF_DONE")
           p == FinalOut(x, t, r, o, "peer")
<1>1. /\ Running(x) \/ v.state = (IF x = "c" THEN "TEST_END" ELSE "DISPLAY_RESULTS")
      /\ Reads(x, "TERMINATE") /\ Answers(x, <<>>)
      /\ out' = [out EXCEPT ![x] = p] /\ p = FinalOut(x, t, r, o, "peer")
      /\ test' = [test EXCEPT ![x] = u] /\ res' = [res EXCEPT ![x] = r]
      /\ kern' = [kern EXCEPT ![x] = k] /\ opt' = opt /\ ticks' \in 0..opt.ticks
  BY DEF PeerTerminated, LastReport, FinalOut, InState, Shape
<1>2. /\ v \in TestState /\ opt \in Tests /\ r \in [Streams -> Result]
      /\ k \in [Streams -> 0..MaxRetrans] /\ SideOK(x, v, r, k, o)
      /\ Running(x) => v.state = "TEST_RUNNING"
      /\ x \in {"c", "s"}
  BY DEF Shape, SideInv, Running, Sides
<1> HIDE DEF r, k, o, v, p
<1>3. /\ t \in TestState /\ t.state = "DISPLAY_RESULTS" /\ SameFlags(v, t)
      /\ u \in TestState /\ u.state \in {"IPERF_DONE", "EXIT"} /\ SameFlags(v, u)
  BY <1>2, StateIs DEF States
<1> HIDE DEF t, u
<1>4. /\ IsOut(o) /\ o.marks /\ Uniform(v, r) /\ (Sends(x) => v.has = 1)
      /\ \A n \in Streams : IsSender(x, n) => r[n].omit <= r[n].sent
  <2>1. CASE Active(x, v)
    <3>1. Going(x, v, r, k, o)
      BY <1>2, <2>1 DEF SideOK
    <3> QED
      BY <3>1 DEF Going, GoingStream
  <2>2. CASE ~Active(x, v)
    <3>1. Over(x, v, r, k, o) /\ x = "s" /\ v.state = "DISPLAY_RESULTS"
      BY <1>1, <1>2, <2>2 DEF SideOK, Active, Pending
    <3> QED
      BY <3>1 DEF Over
  <2> QED
    BY <2>1, <2>2
<1>5. /\ Uniform(t, r) /\ (Sends(x) => t.has = 1)
      /\ Uniform(u, r) /\ (Sends(x) => u.has = 1) /\ (Stale(x, t, r) <=> Stale(x, u, r))
  BY <1>3, <1>4 DEF Uniform, Marked, Stale, SameFlags
<1>6. /\ p.how = "peer" /\ p.counted = o.counted /\ p.base = o.base
      /\ p.marks <=> ~Stale(x, u, r)
  BY <1>1, <1>2, <1>3, <1>4, <1>5, PeerReport
<1>7. Over(x, u, r, k, p) /\ ~Active(x, u)
  <2>1. Reported(x, p)
    BY <1>6 DEF Reported
  <2>2. ~Active(x, u)
    BY <1>3 DEF Active, Pending
  <2> QED
    BY <1>2, <1>3, <1>4, <1>5, <1>6, <2>1, <2>2 DEF Over
<1>8. msg' \in [Sides -> Seq(Message)] /\ NoNewResults
  BY <1>1, AnsweringPlain
<1>9. Steps(x) /\ test'[x] = u /\ out'[x] = p
  <2>1. /\ opt' = opt /\ Over(x, u, r, k, p) /\ ~Active(x, u)
        /\ test' = [test EXCEPT ![x] = u] /\ res' = [res EXCEPT ![x] = r]
        /\ kern' = [kern EXCEPT ![x] = k] /\ out' = [out EXCEPT ![x] = p]
        /\ msg' \in [Sides -> Seq(Message)] /\ ticks' \in 0..opt.ticks
    BY <1>1, <1>7, <1>8
  <2> QED
    BY <2>1, OverStep
<1> QED
  BY <1>3, <1>6, <1>8, <1>9 DEF o

-----------------------------------------------------------------------------
(* The invariant of both sides. *)

\* The invariant is about the values of the variables.
LEMMA Joint ==
    ASSUME NEW x \in Sides, Steps(x),
           SentBy(test'["s"], out'["s"], msg'["c"]),
           KnownBy(test'["c"], res'["c"], test'["s"], out'["s"]),
           ReportedBy(out'["c"], test'["s"], out'["s"]),
           LateBy(out'["c"], test'["s"], out'["s"])
    PROVE  ReportInv'
<1>1. opt' = opt /\ "s" \in Sides /\ "c" \in Sides
  BY DEF Steps, Sides
<1>2. \A n \in Streams : \A b, c : ServerHas(test'["s"], out'["s"], n, b, c)
                                   => ServerHas(test["s"], out["s"], n, b, c)'
  BY <1>1, SameTest DEF ServerHas, Own, Cnt
<1>3. ResultsSent'
  BY <1>1, <1>2, SameTest DEF ResultsSent, SentBy, Items
<1>4. HasResults'
  BY <1>1, <1>2, SameTest DEF HasResults, KnownBy, Told
<1>5. BothReported'
  BY <1>1, <1>2, SameTest DEF BothReported, ReportedBy
<1>6. LateReported'
  BY <1>1, SameTest DEF LateReported, LateBy, Cnt
<1> QED
  BY <1>3, <1>4, <1>5, <1>6 DEF ReportInv, Steps

\* A step of the server leaves what the client has.
LEMMA ServerKeeps ==
    ASSUME ReportInv, NEW x \in Sides, x = "s", Steps(x), Frozen, NoNewResults
    PROVE  ReportInv'
<1>1. test'["c"] = test["c"] /\ res'["c"] = res["c"] /\ out'["c"] = out["c"]
  BY DEF Steps, Sides
<1>2. \A n \in Streams : \A b, c : ServerHas(test["s"], out["s"], n, b, c)
                                   => ServerHas(test'["s"], out'["s"], n, b, c)
  BY DEF Frozen, ServerHas, Own, Cnt
<1>3. SentBy(test'["s"], out'["s"], msg'["c"])
  BY <1>2 DEF ReportInv, ResultsSent, SentBy, NoNewResults
<1>4. KnownBy(test'["c"], res'["c"], test'["s"], out'["s"])
  BY <1>1, <1>2 DEF ReportInv, HasResults, KnownBy
<1>5. ReportedBy(out'["c"], test'["s"], out'["s"])
  BY <1>1, <1>2 DEF ReportInv, BothReported, ReportedBy
<1>6. LateBy(out'["c"], test'["s"], out'["s"])
  BY <1>1 DEF ReportInv, LateReported, LateBy, Frozen, Cnt
<1> QED
  BY <1>3, <1>4, <1>5, <1>6, Joint

\* A step of the client: the server has what it had.
LEMMA ClientKeeps ==
    ASSUME ReportInv, NEW x \in Sides, x = "c", Steps(x), NoNewResults,
           KnownBy(test'["c"], res'["c"], test["s"], out["s"]),
           ReportedBy(out'["c"], test["s"], out["s"]),
           LateBy(out'["c"], test["s"], out["s"])
    PROVE  ReportInv'
<1>1. test'["s"] = test["s"] /\ out'["s"] = out["s"]
  BY DEF Steps, Sides
<1>2. SentBy(test'["s"], out'["s"], msg'["c"])
  BY <1>1 DEF ReportInv, ResultsSent, SentBy, NoNewResults
<1> QED
  BY <1>1, <1>2, Joint

\* A side whose report and whose results the other side does not use yet.
LEMMA Keeps ==
    ASSUME ReportInv, NEW x \in Sides, Steps(x), NoNewResults,
           x = "s" => Frozen,
           x = "c" => /\ \/ test'[x].state \notin {"RESULTS_READ", "DISPLAY_RESULTS"}
                         \/ SameFlags(test[x], test'[x]) /\ res'[x] = res[x]
                            /\ test[x].state \in {"RESULTS_READ", "DISPLAY_RESULTS"}
                      /\ out'[x] = out[x] \/ out'[x].how \notin {"regular", "late"}
    PROVE  ReportInv'
<1>1. CASE x = "s"
  BY <1>1, ServerKeeps
<1>2. CASE x = "c"
  <2>1. KnownBy(test'["c"], res'["c"], test["s"], out["s"])
    BY <1>2 DEF ReportInv, HasResults, KnownBy, Told, SameFlags
  <2>2. ReportedBy(out'["c"], test["s"], out["s"])
    BY <1>2 DEF ReportInv, BothReported, ReportedBy
  <2>3. LateBy(out'["c"], test["s"], out["s"])
    BY <1>2 DEF ReportInv, LateReported, LateBy
  <2> QED
    BY <1>2, <2>1, <2>2, <2>3, ClientKeeps
<1> QED
  BY <1>1, <1>2 DEF Sides

\* The invariant holds at first.
LEMMA InitReport == Init => ReportInv
<1> SUFFICES ASSUME Init PROVE ReportInv
  OBVIOUS
<1>1. opt \in Tests /\ opt.omit \in BOOLEAN /\ opt.ticks \in Nat
  BY ReportAssumption DEF Init
<1>2. NewResult \in Result
  BY DEF NewResult, Result
<1>3. ASSUME NEW x \in Sides
      PROVE  /\ test[x] \in TestState /\ test[x].state = "TEST_RUNNING" /\ test[x].due = FALSE
             /\ test[x].has = (IF Sends(x) THEN 1 ELSE 0) /\ test[x].other = 0
  <2> DEFINE h == IF Sends(x) THEN 1 ELSE 0
  <2>1. test[x] = [state |-> "TEST_RUNNING", due |-> FALSE, omitting |-> opt.omit,
                   has |-> h, other |-> 0]
    BY DEF Init, Sends
  <2>2. h \in -1..1 /\ 0 \in -1..1
    OBVIOUS
  <2> HIDE DEF h
  <2>3. /\ test[x] \in TestState /\ test[x].state = "TEST_RUNNING" /\ test[x].due = FALSE
        /\ test[x].has = h /\ test[x].other = 0
    BY <1>1, <2>1, <2>2 DEF TestState, States
  <2> QED
    BY <2>3 DEF h
<1>4. Shape
  <2>1. test \in [Sides -> TestState]
    BY <1>3 DEF Init
  <2>2. res \in [Sides -> [Streams -> Result]]
    BY <1>2 DEF Init
  <2>3. kern \in [Sides -> [Streams -> 0..MaxRetrans]]
    BY ReportAssumption DEF Init
  <2>4. msg \in [Sides -> Seq(Message)]
    BY Plain DEF Init
  <2>5. DOMAIN out = Sides /\ out = [x \in Sides |-> out[x]]
    BY DEF Init
  <2>6. ticks \in 0..opt.ticks
    BY <1>1 DEF Init
  <2> QED
    BY <1>1, <2>1, <2>2, <2>3, <2>4, <2>5, <2>6 DEF Shape
<1>5. ASSUME NEW x \in Sides
      PROVE  SideInv(x) /\ out[x].how = "none"
  <2>1. res[x] \in [Streams -> Result] /\ kern[x] \in [Streams -> 0..MaxRetrans]
    BY <1>4 DEF Shape
  <2>2. \A n \in Streams : res[x][n] = NewResult /\ kern[x][n] = 0
    BY DEF Init
  <2>3. /\ out[x].lines = [n \in Streams |-> [bytes |-> 0, retrans |-> 0]]
        /\ out[x].sum = [d \in BOOLEAN |-> 0]
        /\ out[x].read = [n \in Streams |-> 0] /\ out[x].base = [n \in Streams |-> 0]
        /\ out[x].counted = [n \in Streams |-> NewResult]
        /\ out[x].cut = [n \in Streams |-> 0]
        /\ out[x].marks /\ out[x].how = "none"
        /\ out[x] = [lines |-> out[x].lines, sum |-> out[x].sum, marks |-> out[x].marks,
                     read |-> out[x].read, base |-> out[x].base, summary |-> out[x].summary,
                     total |-> out[x].total, how |-> out[x].how, omits |-> out[x].omits,
                     counted |-> out[x].counted, cut |-> out[x].cut]
    BY DEF Init
  <2>4. IsOut(out[x])
    BY <1>2, <2>3 DEF IsOut, Line
  <2>5. SumsMatch(x, out[x])
    <3> SUFFICES ASSUME NEW d \in Directions(x)
                 PROVE  out[x].sum[d] = SumFunctionOnSet([n \in Streams |-> out[x].lines[n].bytes],
                                                         StreamsOf(x, d))
      BY DEF SumsMatch
    <3> DEFINE f == [n \in Streams |-> out[x].lines[n].bytes]
    <3>1. d \in BOOLEAN
      BY <1>1, DirectionFacts
    <3>2. StreamsOf(x, d) \subseteq Streams /\ IsFiniteSet(StreamsOf(x, d))
      BY <1>1, <3>1, StreamFacts
    <3>3. \A n \in StreamsOf(x, d) : f[n] = 0
      BY <2>3, <3>2
    <3> HIDE DEF f
    <3>4. SumFunctionOnSet(f, StreamsOf(x, d)) = 0
      BY <3>2, <3>3, SumZero
    <3> QED
      BY <2>3, <3>1, <3>4 DEF f
  <2>6. /\ Active(x, test[x]) /\ ~Unprinted(x, test[x]) /\ ~Pending(x, test[x])
        /\ Alone(test[x])
    BY <1>3 DEF Active, Unprinted, Pending, Alone
  <2>7. ASSUME NEW n \in Streams
        PROVE  GoingStream(x, test[x], res[x], kern[x], out[x], n)
    <3>1. /\ out[x].lines[n] = [bytes |-> 0, retrans |-> 0] /\ out[x].base[n] = 0
          /\ kern[x][n] = 0 /\ res[x][n] = NewResult /\ out[x].cut[n] = 0
      BY <2>2, <2>3
    <3>2. /\ Left(x, test[x], res[x], n) = 0 /\ LeftRetrans(x, test[x], res[x], n) = 0
          /\ Own(x, res[x], n) = 0
      BY <2>6, <3>1 DEF Left, LeftRetrans, Own, NewResult
    <3> QED
      BY <2>6, <3>1, <3>2 DEF GoingStream, NewResult
  <2>8. Uniform(test[x], res[x])
    BY <2>2 DEF Uniform, NewResult
  <2>9. Going(x, test[x], res[x], kern[x], out[x])
    BY <1>3, <2>1, <2>3, <2>4, <2>5, <2>6, <2>7, <2>8 DEF Going
  <2> QED
    BY <2>3, <2>6, <2>9 DEF SideInv, SideOK
<1>6. ResultsSent /\ HasResults /\ BothReported /\ LateReported
  <2>1. "c" \in Sides /\ msg["c"] = <<>>
    BY DEF Init, Sides
  <2>2. ResultsSent
    BY <2>1, Plain DEF ResultsSent, SentBy
  <2>3. test["c"].state = "TEST_RUNNING" /\ out["c"].how = "none"
    BY <1>3, <1>5, <2>1
  <2> QED
    BY <2>2, <2>3 DEF HasResults, KnownBy, BothReported, ReportedBy, LateReported, LateBy
<1> QED
  BY <1>4, <1>5, <1>6 DEF ReportInv

\* Sending, receiving and the kernel.
LEMMA KeepsData ==
    ASSUME ReportInv, NEW x \in Sides, NEW n \in Streams,
           Send(x, n) \/ Receive(x, n) \/ Retransmit(x, n)
    PROVE  ReportInv'
<1>1. Shape /\ \A y \in Sides : SideInv(y)
  BY DEF ReportInv
<1>2. msg' = msg /\ test' = test
  BY DEF Send, Receive, Retransmit
<1>3. NoNewResults
  BY <1>2, NoMessage
<1>4. CASE Send(x, n) \/ Receive(x, n)
  <2>1. Steps(x) /\ (out' = out \/ out'[x].how = "none")
    BY <1>1, <1>4, SendStep, ReceiveStep DEF Send
  <2>2. test'[x].state = "TEST_RUNNING" /\ test[x].state = "TEST_RUNNING"
    BY <1>2, <1>4 DEF Send, Receive, Running
  <2> QED
    BY <1>3, <2>1, <2>2, Keeps DEF Frozen
<1>5. CASE Retransmit(x, n)
  <2>1. Steps(x) /\ out' = out /\ res' = res
    BY <1>1, <1>5, RetransmitStep DEF Retransmit
  <2>2. Frozen
    BY <1>2, <2>1 DEF Frozen
  <2>3. SameFlags(test[x], test'[x])
    BY <1>2 DEF SameFlags
  <2> QED
    BY <1>2, <1>3, <2>1, <2>2, <2>3, Keeps
<1> QED
  BY <1>4, <1>5

\* The timers.
LEMMA KeepsTimers ==
    ASSUME ReportInv, NEW x \in Sides,
           stats_timer_proc(x) \/ reporter_timer_proc(x) \/ omit_timer_proc(x)
    PROVE  ReportInv'
<1>1. Shape /\ \A y \in Sides : SideInv(y)
  BY DEF ReportInv
<1>2. msg' = msg
  BY DEF stats_timer_proc, reporter_timer_proc, omit_timer_proc
<1>3. NoNewResults
  BY <1>2, NoMessage
<1>4. CASE stats_timer_proc(x) \/ reporter_timer_proc(x)
  <2>1. Steps(x) /\ (out' = out \/ out'[x].how = "none")
    BY <1>1, <1>4, StatsStep, ReporterStep DEF stats_timer_proc
  <2>2. test'[x].state = "TEST_RUNNING" /\ test[x].state = "TEST_RUNNING"
    BY <1>1, <1>4 DEF stats_timer_proc, reporter_timer_proc, Running, Shape, TestState
  <2> QED
    BY <1>3, <2>1, <2>2, Keeps DEF Frozen
<1>5. CASE omit_timer_proc(x)
  <2>1. /\ Steps(x) /\ test'[x].state = test[x].state
        /\ Running(x) => out'[x].how = "none"
        /\ ~Running(x) => out'[x] = out[x]
    BY <1>1, <1>5, OmitStep
  <2>2. CASE Running(x)
    BY <1>3, <2>1, <2>2, Keeps DEF Frozen, Running
  <2>3. CASE ~Running(x)
    <3>1. x = "s"
      BY <1>5, <2>3 DEF omit_timer_proc
    <3> QED
      BY <1>3, <2>1, <2>3, <3>1, Keeps DEF Frozen
  <2> QED
    BY <2>2, <2>3
<1> QED
  BY <1>4, <1>5

\* Signals, the end of the other side, and an exchange that fails.
LEMMA KeepsEnds ==
    ASSUME ReportInv, NEW x \in Sides,
           iperf_got_sigend(x) \/ PeerTerminated(x) \/ ExchangeFails(x)
    PROVE  ReportInv'
<1>1. Shape /\ (\A y \in Sides : SideInv(y)) /\ HasResults
  BY DEF ReportInv
<1>2. CASE iperf_got_sigend(x)
  <2>1. /\ Steps(x) /\ NoNewResults
        /\ test'[x].state = "EXIT"
        /\ out'[x].how \in {"signal", "late"}
        /\ x = "s" => test[x].state = "TEST_RUNNING"
        /\ x = "c" /\ out'[x].how = "late" =>
               \A n \in Streams : ~IsSender(x, n) /\ out'[x].summary[n].retrans # None =>
                   /\ test["s"].state # "TEST_RUNNING"
                   /\ out'[x].summary[n].retrans >= Cnt(out["s"], n)
    BY <1>1, <1>2, SignalStep
  <2>2. CASE x = "s"
    BY <2>1, <2>2, Keeps DEF Frozen
  <2>3. CASE x = "c"
    <3>1. KnownBy(test'["c"], res'["c"], test["s"], out["s"])
      BY <2>1, <2>3 DEF KnownBy
    <3>2. ReportedBy(out'["c"], test["s"], out["s"])
      BY <2>1, <2>3 DEF ReportedBy
    <3>3. LateBy(out'["c"], test["s"], out["s"])
      BY <2>1, <2>3 DEF LateBy
    <3> QED
      BY <2>1, <2>3, <3>1, <3>2, <3>3, ClientKeeps
  <2> QED
    BY <2>2, <2>3 DEF Sides
<1>3. CASE PeerTerminated(x)
  <2>1. /\ Steps(x) /\ NoNewResults
        /\ test'[x].state \in {"IPERF_DONE", "EXIT"} /\ out'[x].how = "peer"
        /\ out'[x].counted = out[x].counted /\ out'[x].base = out[x].base
    BY <1>1, <1>3, PeerStep
  <2> QED
    BY <2>1, Keeps DEF Frozen
<1>4. CASE ExchangeFails(x)
  <2>1. /\ Steps(x) /\ NoNewResults /\ test'[x].state = "EXIT" /\ out'[x] = out[x]
    BY <1>1, <1>4, ExchangeFailsStep
  <2> QED
    BY <2>1, Keeps DEF Frozen
<1> QED
  BY <1>2, <1>3, <1>4

\* The steps of the client that end its test.
LEMMA KeepsClient ==
    ASSUME ReportInv, NEW x \in Sides, x = "c",
           ClientTestEnd \/ ClientExchange \/ ClientResults \/ ClientDisplay \/ iperf_client_end
    PROVE  ReportInv'
<1>1. Shape /\ (\A y \in Sides : SideInv(y)) /\ HasResults /\ ResultsSent
  BY DEF ReportInv
<1>2. CASE ClientTestEnd
  <2>1. Steps(x) /\ NoNewResults /\ out'[x].how = "none" /\ test'[x].state = "TEST_END"
    BY <1>1, <1>2, ClientTestEndStep
  <2> QED
    BY <2>1, Keeps
<1>3. CASE ClientExchange
  <2>1. /\ Steps(x) /\ NoNewResults
        /\ test'[x].state = "EXCHANGE_RESULTS" /\ out'[x].how = "none"
    BY <1>1, <1>3, ClientExchangeStep
  <2> QED
    BY <2>1, Keeps
<1>4. CASE ClientResults
  <2>1. /\ Steps(x) /\ NoNewResults /\ out'[x].how = "none"
        /\ Told(test'[x])
        /\ \A n \in Streams :
               ServerHas(test["s"], out["s"], n,
                         IF IsSender(x, n) THEN res'[x][n].recv ELSE res'[x][n].sent,
                         res'[x][n].retrans)
    BY <1>1, <1>4, ClientResultsStep
  <2>2. KnownBy(test'["c"], res'["c"], test["s"], out["s"])
    BY <2>1 DEF KnownBy
  <2>3. ReportedBy(out'["c"], test["s"], out["s"]) /\ LateBy(out'["c"], test["s"], out["s"])
    BY <2>1 DEF ReportedBy, LateBy
  <2> QED
    BY <2>1, <2>2, <2>3, ClientKeeps
<1>5. CASE ClientDisplay
  <2>1. /\ Steps(x) /\ NoNewResults /\ out'[x].how = "none"
        /\ res'[x] = res[x] /\ SameFlags(test[x], test'[x])
        /\ test[x].state = "RESULTS_READ"
    BY <1>1, <1>5, ClientDisplayStep
  <2> QED
    BY <2>1, Keeps
<1>6. CASE iperf_client_end
  <2>1. /\ Steps(x) /\ NoNewResults /\ test'[x].state = "IPERF_DONE"
        /\ \A n \in Streams :
               /\ ServerHas(test["s"], out["s"], n,
                            IF IsSender("c", n) THEN out'[x].summary[n].recv
                                                ELSE out'[x].summary[n].sent,
                            out'[x].summary[n].retrans)
               /\ ~IsSender("c", n) => out'[x].summary[n].retrans \in Int
        /\ out'[x].how = "regular"
    BY <1>1, <1>6, ClientEndStep
  <2>2. KnownBy(test'["c"], res'["c"], test["s"], out["s"])
    BY <2>1 DEF KnownBy
  <2>3. ReportedBy(out'["c"], test["s"], out["s"]) /\ LateBy(out'["c"], test["s"], out["s"])
    BY <2>1 DEF ReportedBy, LateBy
  <2> QED
    BY <2>1, <2>2, <2>3, ClientKeeps
<1> QED
  BY <1>2, <1>3, <1>4, <1>5, <1>6

\* The steps of the server that end its test.
LEMMA KeepsServer ==
    ASSUME ReportInv, NEW x \in Sides, x = "s",
           ServerTestEnd \/ ServerExchange \/ ServerInterrupted
    PROVE  ReportInv'
<1>1. Shape /\ (\A y \in Sides : SideInv(y)) /\ ResultsSent
  BY DEF ReportInv
<1>2. CASE ServerTestEnd
  <2>1. Steps(x) /\ NoNewResults
    BY <1>1, <1>2, ServerTestEndStep
  <2>2. test[x].state = "TEST_RUNNING"
    BY <1>2 DEF ServerTestEnd, Running
  <2> QED
    BY <2>1, <2>2, Keeps DEF Frozen
<1>3. CASE ServerInterrupted
  BY <1>1, <1>3, ServerInterruptedStep, Keeps
<1>4. CASE ServerExchange
  <2>1. /\ Steps(x) /\ Frozen
        /\ test'[x].state # "TEST_RUNNING" /\ test[x].state = "EXCHANGE_RESULTS"
        /\ \A m \in Items(msg'["c"]) : m.kind = "RESULTS" =>
               m \in Items(msg["c"]) \/ m = Carrying(send_results(x))
    BY <1>1, <1>4, ServerExchangeStep
  <2>2. test'["c"] = test["c"] /\ res'["c"] = res["c"] /\ out'["c"] = out["c"]
    BY <2>1 DEF Steps, Sides
  <2>3. \A n \in Streams : \A b, c : ServerHas(test["s"], out["s"], n, b, c)
                                     => ServerHas(test'["s"], out'["s"], n, b, c)
    BY <2>1 DEF Frozen, ServerHas, Own, Cnt
  <2> DEFINE a == send_results(x)
  <2>4. /\ Sends("s") => a.has = 1
        /\ \A n \in Streams :
               ServerHas(test["s"], out["s"], n, a.streams[n].bytes, a.streams[n].retrans)
    <3>1. /\ Sends(x) => a.has = 1
          /\ \A n \in Streams :
                 /\ a.streams[n].bytes = Own(x, out[x].counted, n)
                 /\ IsSender(x, n) => a.streams[n].retrans = Cnt(out[x], n)
      BY <1>1, <2>1, SendsResults
    <3> HIDE DEF a
    <3> QED
      BY <2>1, <3>1 DEF ServerHas
  <2> HIDE DEF a
  <2>5. \A m \in Items(msg'["c"]) : m.kind = "RESULTS" => m \in Items(msg["c"]) \/ m = Carrying(a)
    BY <2>1 DEF a
  <2>6. SentBy(test'["s"], out'["s"], msg'["c"])
    BY <1>1, <2>3, <2>4, <2>5, MessageFacts DEF ResultsSent, SentBy
  <2>7. KnownBy(test'["c"], res'["c"], test'["s"], out'["s"])
    BY <2>2, <2>3 DEF ReportInv, HasResults, KnownBy
  <2>8. ReportedBy(out'["c"], test'["s"], out'["s"])
    BY <2>2, <2>3 DEF ReportInv, BothReported, ReportedBy
  <2>9. LateBy(out'["c"], test'["s"], out'["s"])
    BY <2>1, <2>2 DEF ReportInv, LateReported, LateBy, Frozen, Cnt
  <2> QED
    BY <2>1, <2>6, <2>7, <2>8, <2>9, Joint
<1> QED
  BY <1>2, <1>3, <1>4

\* The invariant is kept by every step.
LEMMA NextReport == ReportInv /\ [Next]_vars => ReportInv'
<1> SUFFICES ASSUME ReportInv, [Next]_vars
             PROVE  ReportInv'
  OBVIOUS
<1>1. "c" \in Sides /\ "s" \in Sides
  BY DEF Sides
<1>2. ASSUME NEW x \in Sides, NEW n \in Streams, Send(x, n) \/ Receive(x, n) \/ Retransmit(x, n)
      PROVE  ReportInv'
  BY <1>2, KeepsData
<1>3. ASSUME NEW x \in Sides,
             stats_timer_proc(x) \/ reporter_timer_proc(x) \/ omit_timer_proc(x)
      PROVE  ReportInv'
  BY <1>3, KeepsTimers
<1>4. ASSUME NEW x \in Sides, iperf_got_sigend(x) \/ PeerTerminated(x) \/ ExchangeFails(x)
      PROVE  ReportInv'
  BY <1>4, KeepsEnds
<1>5. CASE ClientTestEnd \/ ClientExchange \/ ClientResults \/ ClientDisplay \/ iperf_client_end
  BY <1>1, <1>5, KeepsClient
<1>6. CASE ServerTestEnd \/ ServerExchange \/ ServerInterrupted
  BY <1>1, <1>6, KeepsServer
<1>7. CASE UNCHANGED vars
  <2>1. /\ opt' = opt /\ test' = test /\ res' = res /\ kern' = kern /\ msg' = msg
        /\ ticks' = ticks /\ out' = out
    BY <1>7 DEF vars
  <2>2. Shape /\ \A y \in Sides : SideInv(y)
    BY DEF ReportInv
  <2>3. Shape'
    <3>1. Message' = Message
      BY <2>1, SameTest DEF Message, Results
    <3> QED
      BY <2>1, <2>2, <3>1, SameTest DEF Shape
  <2>4. ASSUME NEW y \in Sides
        PROVE  SideInv(y)'
    <3>1. SideOK(y, test[y], res[y], kern[y], out[y])
      BY <2>2 DEF SideInv
    <3>2. SideOK(y, test'[y], res'[y], kern'[y], out'[y])
      BY <2>1, <3>1
    <3> QED
      BY <2>1, <3>2, SideNext
  <2>5. \A y \in Sides : SideInv(y)'
    BY <2>4
  <2>6. Steps("c")
    BY <2>1, <2>3, <2>5 DEF Steps
  <2>7. NoNewResults
    BY <2>1, NoMessage
  <2>8. test'["s"] = test["s"] /\ out'["s"] = out["s"]
    BY <2>1
  <2>9. /\ KnownBy(test["c"], res["c"], test["s"], out["s"])
        /\ ReportedBy(out["c"], test["s"], out["s"])
        /\ LateBy(out["c"], test["s"], out["s"])
    BY DEF ReportInv, HasResults, BothReported, LateReported
  <2>10. /\ KnownBy(test'["c"], res'["c"], test["s"], out["s"])
         /\ ReportedBy(out'["c"], test["s"], out["s"])
         /\ LateBy(out'["c"], test["s"], out["s"])
    BY <2>1, <2>9
  <2> QED
    BY <1>1, <2>6, <2>7, <2>10, ClientKeeps
<1> QED
  BY <1>2, <1>3, <1>4, <1>5, <1>6, <1>7 DEF Next

\* The invariant always holds.
LEMMA ReportHolds == Spec => []ReportInv
<1>1. Init => ReportInv
  BY InitReport
<1>2. ReportInv /\ [Next]_vars => ReportInv'
  BY NextReport
<1> QED
  BY <1>1, <1>2, PTL DEF Spec

\* A side that has reported has nothing left to gather.
LEMMA ReportIs ==
    ASSUME ReportInv, NEW x \in Sides, out[x].how \in {"regular", "signal", "late"}
    PROVE  /\ IsOut(out[x]) /\ out[x].marks /\ SumsMatch(x, out[x])
           /\ \A n \in Streams : ReportedStream(x, out[x], n)
           /\ PrintsSum(x) => \A d \in Directions(x) :
                  (IF d THEN out[x].total[d].sent ELSE out[x].total[d].recv)
                      = SumFunctionOnSet([n \in Streams |-> Own(x, out[x].counted, n)],
                                         StreamsOf(x, d))
<1>1. SideOK(x, test[x], res[x], kern[x], out[x])
  BY DEF ReportInv, SideInv
<1>2. ~Active(x, test[x])
  BY <1>1 DEF SideOK, Going
<1>3. Over(x, test[x], res[x], kern[x], out[x])
  BY <1>1, <1>2 DEF SideOK
<1>4. Reported(x, out[x]) /\ IsOut(out[x]) /\ out[x].marks /\ SumsMatch(x, out[x])
  BY <1>3 DEF Over
<1> QED
  BY <1>4 DEF Reported

-----------------------------------------------------------------------------
(* Theorems. *)

\* The counters of both sides are numbers in every reachable state: no stream
\* omits more than it sent, no interval has fewer than no retransmissions, and
\* the kernels' counters keep to their bound.
THEOREM ReportTyped == Spec => []TypeOK
<1>1. ReportInv => TypeOK
  <2> SUFFICES ASSUME ReportInv PROVE TypeOK
    OBVIOUS
  <2>1. Shape
    BY DEF ReportInv
  <2>2. ASSUME NEW x \in Sides, NEW n \in Streams, IsSender(x, n)
        PROVE  res[x][n].omit <= res[x][n].sent
    <3>1. SideOK(x, test[x], res[x], kern[x], out[x])
      BY DEF ReportInv, SideInv
    <3>2. CASE Active(x, test[x])
      BY <2>2, <3>1, <3>2 DEF SideOK, Going, GoingStream
    <3>3. CASE ~Active(x, test[x])
      BY <2>2, <3>1, <3>3 DEF SideOK, Over
    <3> QED
      BY <3>2, <3>3
  <2> QED
    BY <2>1, <2>2 DEF Shape, TypeOK, TestState, States
<1> QED
  BY <1>1, ReportHolds, PTL

\* However many streams and intervals a test has, and wherever between gathering
\* and printing a signal of its own ends it, the interval lines that
\* iperf_print_intermediate printed and what the signal cut off add up to the
\* summary of iperf_print_results, of every stream and of every direction.
THEOREM IntervalsAdd == Spec => []IntervalsAddUp
<1>1. ReportInv => IntervalsAddUp
  <2> SUFFICES ASSUME ReportInv, NEW x \in Sides, Printed(x, {"regular", "signal", "late"})
               PROVE  /\ \A n \in Streams :
                             out[x].lines[n].bytes + out[x].cut[n] = OwnSummary(x, n)
                      /\ PrintsSum(x) => \A d \in Directions(x) :
                             out[x].sum[d] + SumFunctionOnSet(out[x].cut, StreamsOf(x, d))
                                 = IF d THEN out[x].total[d].sent ELSE out[x].total[d].recv
                      /\ out[x].how = "regular" => \A n \in Streams : out[x].cut[n] = 0
    BY DEF IntervalsAddUp
  <2>1. out[x].how \in {"regular", "signal", "late"} /\ ~out[x].omits
    BY DEF Printed
  <2>2. /\ IsOut(out[x]) /\ SumsMatch(x, out[x])
        /\ \A n \in Streams : ReportedStream(x, out[x], n)
        /\ PrintsSum(x) => \A d \in Directions(x) :
               (IF d THEN out[x].total[d].sent ELSE out[x].total[d].recv)
                   = SumFunctionOnSet([n \in Streams |-> Own(x, out[x].counted, n)],
                                      StreamsOf(x, d))
    BY <2>1, ReportIs
  <2>3. \A n \in Streams :
            /\ out[x].lines[n].bytes + out[x].cut[n] = Own(x, out[x].counted, n)
            /\ OwnSummary(x, n) = Own(x, out[x].counted, n)
            /\ out[x].how = "regular" => out[x].cut[n] = 0
    BY <2>1, <2>2 DEF ReportedStream, OwnSummary
  <2>4. ASSUME PrintsSum(x), NEW d \in Directions(x)
        PROVE  out[x].sum[d] + SumFunctionOnSet(out[x].cut, StreamsOf(x, d))
                   = IF d THEN out[x].total[d].sent ELSE out[x].total[d].recv
    <3> DEFINE S == StreamsOf(x, d)
               f == [n \in Streams |-> out[x].lines[n].bytes]
               g == out[x].cut
               h == [n \in Streams |-> Own(x, out[x].counted, n)]
    <3>1. S \subseteq Streams /\ IsFiniteSet(S)
      <4>1. opt \in Tests
        BY DEF ReportInv, Shape
      <4>2. d \in BOOLEAN
        BY <4>1, DirectionFacts
      <4> QED
        BY <4>1, <4>2, StreamFacts
    <3>2. \A n \in S : f[n] \in Int /\ g[n] \in Int /\ h[n] = f[n] + g[n]
      <4>1. \A n \in Streams : out[x].lines[n].bytes \in Nat /\ out[x].cut[n] \in Nat
        BY <2>2 DEF IsOut, Line
      <4> QED
        BY <2>3, <3>1, <4>1
    <3>3. out[x].sum[d] = SumFunctionOnSet(f, S)
      BY <2>2, <2>4 DEF SumsMatch
    <3>4. (IF d THEN out[x].total[d].sent ELSE out[x].total[d].recv) = SumFunctionOnSet(h, S)
      BY <2>2, <2>4
    <3> HIDE DEF S, f, g, h
    <3>5. SumFunctionOnSet(h, S) = SumFunctionOnSet(f, S) + SumFunctionOnSet(g, S)
      BY <3>1, <3>2, SumAdds
    <3> QED
      BY <3>3, <3>4, <3>5 DEF S, g
  <2> QED
    BY <2>3, <2>4
<1> QED
  BY <1>1, ReportHolds, PTL

\* The client's report after send_results and get_results has, of every stream,
\* the bytes each end counted itself, and the server's has the server's.
THEOREM SummaryIsTrue == Spec => []SummaryTruthful
<1>1. ReportInv => SummaryTruthful
  <2> SUFFICES ASSUME ReportInv PROVE SummaryTruthful
    OBVIOUS
  <2>1. "c" \in Sides /\ "s" \in Sides /\ Peer("c") = "s" /\ Peer("s") = "c"
    BY DEF Sides, Peer
  <2>2. \A x \in Sides : out[x].how = "regular" =>
            \A n \in Streams : ReportedStream(x, out[x], n)
    BY ReportIs
  <2>3. \A x \in Sides, n \in Streams : Own(x, out[x].counted, n) = OwnBytes(x, n)
    BY DEF Own, OwnBytes
  <2>4. ASSUME out["c"].how = "regular", NEW n \in Streams
        PROVE  LET snd == IF IsSender("c", n) THEN "c" ELSE "s"
               IN  /\ out["c"].summary[n].sent = OwnBytes(snd, n)
                   /\ out["c"].summary[n].recv = OwnBytes(Peer(snd), n)
    <3>1. ReportedStream("c", out["c"], n) /\ Own("c", out["c"].counted, n) = OwnBytes("c", n)
      BY <2>1, <2>2, <2>3, <2>4
    <3>2. ServerHas(test["s"], out["s"], n,
                    IF IsSender("c", n) THEN out["c"].summary[n].recv
                                        ELSE out["c"].summary[n].sent,
                    out["c"].summary[n].retrans)
      BY <2>4 DEF ReportInv, BothReported, ReportedBy
    <3>3. (IF IsSender("c", n) THEN out["c"].summary[n].recv ELSE out["c"].summary[n].sent)
              = OwnBytes("s", n)
      BY <2>1, <2>3, <3>2 DEF ServerHas
    <3>4. CASE IsSender("c", n)
      BY <2>1, <3>1, <3>3, <3>4 DEF ReportedStream
    <3>5. CASE ~IsSender("c", n)
      BY <2>1, <3>1, <3>3, <3>5 DEF ReportedStream
    <3> QED
      BY <3>4, <3>5
  <2>5. ASSUME out["s"].how = "regular", NEW n \in Streams
        PROVE  OwnSummary("s", n) = OwnBytes("s", n)
    <3>1. ReportedStream("s", out["s"], n) /\ Own("s", out["s"].counted, n) = OwnBytes("s", n)
      BY <2>1, <2>2, <2>3, <2>5
    <3> QED
      BY <3>1 DEF ReportedStream, OwnSummary
  <2> QED
    BY <2>4, <2>5 DEF SummaryTruthful
<1> QED
  BY <1>1, ReportHolds, PTL

\* A report tells the retransmissions that save_tcpinfo saw at the sending side
\* after its omit period, the client's of every stream, and the interval lines
\* of a sending stream never add up to more; only a client that a signal ends
\* when it has the server's results may tell more.
THEOREM RetransmitsAreTrue == Spec => []RetransmitsTruthful
<1>1. ReportInv => RetransmitsTruthful
  <2> SUFFICES ASSUME ReportInv, NEW x \in Sides, NEW n \in Streams,
                      Printed(x, {"regular", "signal", "late"})
               PROVE  LET snd == IF IsSender(x, n) THEN x ELSE Peer(x)
                          counted == out[snd].counted[n].prev - out[snd].base[n]
                          shown == out[x].summary[n].retrans
                      IN  /\ IsSender(x, n) =>
                                 shown = counted /\ out[x].lines[n].retrans <= shown
                          /\ x = "c" /\ out[x].how = "regular" => shown # None
                          /\ shown # None =>
                                 IF out[x].how = "late" THEN shown >= counted
                                 ELSE shown = counted
    BY DEF RetransmitsTruthful
  <2> DEFINE shown == out[x].summary[n].retrans
  <2>1. out[x].how \in {"regular", "signal", "late"} /\ ~out[x].omits
    BY DEF Printed
  <2>2. IsOut(out[x]) /\ ReportedStream(x, out[x], n) /\ None \notin Int
    BY <2>1, ReportIs, ReportAssumption
  <2>3. CASE IsSender(x, n)
    <3>1. shown = Cnt(out[x], n) /\ out[x].lines[n].retrans <= Cnt(out[x], n)
      BY <2>1, <2>2, <2>3 DEF ReportedStream
    <3>2. Cnt(out[x], n) \in Int
      BY <2>2 DEF IsOut, Cnt, Result
    <3>3. Cnt(out[x], n) = out[x].counted[n].prev - out[x].base[n]
      BY DEF Cnt
    <3> HIDE DEF shown
    <3> QED
      BY <2>2, <2>3, <3>1, <3>2, <3>3 DEF shown
  <2>4. CASE ~IsSender(x, n) /\ (x = "s" \/ out[x].how = "signal")
    <3>1. shown = None
      BY <2>2, <2>4 DEF ReportedStream
    <3> QED
      BY <2>1, <2>4, <3>1
  <2>5. CASE ~IsSender(x, n) /\ x = "c" /\ out[x].how # "signal"
    <3>1. Peer(x) = "s" /\ IsSender("s", n)
      BY <2>5 DEF Peer, IsSender
    <3>2. Cnt(out["s"], n) = out["s"].counted[n].prev - out["s"].base[n]
      BY DEF Cnt
    <3>3. CASE out[x].how = "regular"
      <4>1. /\ ServerHas(test["s"], out["s"], n, out["c"].summary[n].sent, shown)
            /\ shown \in Int
        BY <2>5, <3>3 DEF ReportInv, BothReported, ReportedBy
      <4>2. shown = Cnt(out["s"], n)
        BY <3>1, <4>1 DEF ServerHas
      <4> HIDE DEF shown
      <4> QED
        BY <2>2, <2>5, <3>1, <3>2, <3>3, <4>1, <4>2 DEF shown
    <3>4. CASE out[x].how = "late"
      <4>1. shown # None => shown >= Cnt(out["s"], n)
        BY <2>5, <3>4 DEF ReportInv, LateReported, LateBy
      <4> HIDE DEF shown
      <4> QED
        BY <2>5, <3>1, <3>2, <3>4, <4>1 DEF shown
    <3> QED
      BY <2>1, <2>5, <3>3, <3>4
  <2> QED
    BY <2>3, <2>4, <2>5 DEF Sides
<1> QED
  BY <1>1, ReportHolds, PTL

\* The sum line that iperf_print_intermediate prints has the omitted mark of the
\* lines of its streams, whatever the interleaving of gathering, printing and
\* omit timer; when TERMINATE of the other side prints the last interval again,
\* exactly then not if that was omitted and the omit period has ended since.
THEOREM SumsAreMarked == Spec => []SumMarks
<1>1. ReportInv => SumMarks
  <2> SUFFICES ASSUME ReportInv, NEW x \in Sides
               PROVE  out[x].marks <=> ~(out[x].how = "peer" /\ Stale(x, test[x], res[x]))
    BY DEF SumMarks, Stale
  <2>1. SideOK(x, test[x], res[x], kern[x], out[x])
    BY DEF ReportInv, SideInv
  <2>2. CASE Active(x, test[x])
    BY <2>1, <2>2 DEF SideOK, Going
  <2>3. CASE ~Active(x, test[x])
    BY <2>1, <2>3 DEF SideOK, Over
  <2> QED
    BY <2>2, <2>3
<1> QED
  BY <1>1, ReportHolds, PTL
=============================================================================
