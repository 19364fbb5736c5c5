---------------------------- MODULE Queues_proofs ----------------------------
(***************************************************************************)
(* What the proofs about queues rest on: what joining a queue, leaving it  *)
(* at its head and leaving it from anywhere do to its elements, their      *)
(* order and its head.  The library's induction theorems take a predicate, *)
(* which no installed prover can instantiate; Reaches does the induction   *)
(* over a set of numbers instead, from the least number that is missing.   *)
(***************************************************************************)
EXTENDS Queues, SequencesExt, FiniteSetTheorems, SequenceTheorems, WellFoundedInduction, TLAPS

\* A non-empty set of indices has a least one.
LEMMA LeastIndex ==
    ASSUME NEW n \in Nat, NEW T, T \subseteq 1..n, T # {}
    PROVE  \E m \in T : \A k \in T : m <= k
<1> DEFINE Segments == {1..m : m \in T}
<1>1. IsWellFoundedOn(StrictSubsetOrdering(1..n), SUBSET (1..n))
  <2>1. IsFiniteSet(1..n)
    BY FS_Interval
  <2>2. FiniteSubsetsOf(1..n) = SUBSET (1..n)
    BY <2>1, FS_FiniteSubsetsOfFinite
  <2> QED
    BY <2>2, FS_StrictSubsetOrderingWellFounded
<1>2. Segments \subseteq SUBSET (1..n) /\ Segments # {}
  <2>1. \A m \in T : 1..m \subseteq 1..n
    OBVIOUS
  <2> QED
    BY <2>1, Zenon
<1>3. PICK x \in Segments : \A y \in Segments : ~(<<y, x>> \in StrictSubsetOrdering(1..n))
  BY <1>1, <1>2, WFMin
<1>4. PICK m \in T : x = 1..m
  OBVIOUS
<1>5. ASSUME NEW k \in T PROVE m <= k
  <2>1. SUFFICES ASSUME k < m PROVE FALSE
    OBVIOUS
  <2>2. 1..k \subseteq 1..m /\ 1..k # 1..m
    BY <2>1
  <2>3. <<1..k, 1..m>> \in StrictSubsetOrdering(1..n)
    BY <2>2, <1>2 DEF StrictSubsetOrdering
  <2> QED
    BY <2>3, <1>3, <1>4
<1> QED
  BY <1>5

\* Induction along an interval, for a set of numbers instead of a predicate.
LEMMA Reaches ==
    ASSUME NEW n \in Nat, NEW P, 0 \in P, \A k \in 1..n : k - 1 \in P => k \in P
    PROVE  0..n \subseteq P
<1> DEFINE Missed == {k \in 1..n : k \notin P}
<1> SUFFICES ASSUME Missed # {} PROVE FALSE
  OBVIOUS
<1>1. PICK m \in Missed : \A k \in Missed : m <= k
  <2> HIDE DEF Missed
  <2>1. Missed \subseteq 1..n
    BY DEF Missed
  <2> QED
    BY <2>1, LeastIndex
<1>2. m - 1 \in 1..n => m - 1 \in P
  BY <1>1
<1>3. m - 1 \in P
  BY <1>2
<1> QED
  BY <1>3

\* f goes from a on along an interval, with the steps of F.
Folding(f, n, G, a, F) ==
    f \in [0..n -> G] /\ f[0] = a /\ \A i \in 1..n : f[i] = F[i][f[i - 1]]

\* A recursive function along an interval, whose steps stay in a set, exists.
LEMMA Folds ==
    ASSUME NEW n \in Nat, NEW G, NEW a \in G, NEW F \in [1..n -> [G -> G]]
    PROVE  \E f : Folding(f, n, G, a, F)
<1> DEFINE Good(f, k) == f \in [0..k -> G] /\ f[0] = a /\ \A i \in 1..k : f[i] = F[i][f[i - 1]]
           P == {k \in 0..n : \E f : Good(f, k)}
<1>1. 0 \in P
  <2>1. Good([i \in 0..0 |-> a], 0)
    OBVIOUS
  <2> HIDE DEF Good
  <2> QED
    BY <2>1
<1>2. ASSUME NEW k \in 1..n, k - 1 \in P PROVE k \in P
  <2>1. PICK f : Good(f, k - 1)
    BY <1>2
  <2> DEFINE g == [i \in 0..k |-> IF i = k THEN F[k][f[k - 1]] ELSE f[i]]
  <2>2. f[k - 1] \in G /\ F[k][f[k - 1]] \in G
    BY <2>1
  <2>3. g \in [0..k -> G] /\ g[0] = a
    BY <2>1, <2>2
  <2>4. ASSUME NEW i \in 1..k PROVE g[i] = F[i][g[i - 1]]
    BY <2>1
  <2>5. Good(g, k)
    <3> HIDE DEF g
    <3> QED
      BY <2>3, <2>4
  <2> HIDE DEF Good
  <2> QED
    BY <2>5
<1> HIDE DEF P
<1>3. 0..n \subseteq P
  BY <1>1, <1>2, Reaches
<1>4. PICK f : Good(f, n)
  <2>1. n \in P
    BY <1>3
  <2> HIDE DEF Good
  <2> QED
    BY <2>1 DEF P
<1> QED
  BY <1>4 DEF Folding

\* Whatever takes these steps while it is in the set stays in it.
LEMMA FoldStays ==
    ASSUME NEW n \in Nat, NEW G, NEW f, f[0] \in G,
           \A i \in 1..n : f[i - 1] \in G => f[i] \in G
    PROVE  f[n] \in G
<1> DEFINE P == {k \in 0..n : f[k] \in G}
<1>1. 0 \in P
  OBVIOUS
<1>2. ASSUME NEW k \in 1..n, k - 1 \in P PROVE k \in P
  BY <1>2
<1> HIDE DEF P
<1>3. 0..n \subseteq P
  BY <1>1, <1>2, Reaches
<1> QED
  BY <1>3 DEF P

\* What Remaining computes on the way, of the first k of a queue.
Sifting(q, S, f, k) ==
    f = [i \in 0..k |->
            IF i = 0 THEN <<>>
            ELSE IF q[i] \in S THEN f[i - 1]
            ELSE Append(f[i - 1], q[i])]

LEMMA KeptAt ==
    ASSUME NEW q, NEW S, NEW n \in Nat, NEW f, Sifting(q, S, f, n), NEW k \in 1..n
    PROVE  f[k] = IF q[k] \in S THEN f[k - 1] ELSE Append(f[k - 1], q[k])
<1> DEFINE Entry(i) == IF i = 0 THEN <<>>
                       ELSE IF q[i] \in S THEN f[i - 1]
                       ELSE Append(f[i - 1], q[i])
<1>1. f = [i \in 0..n |-> Entry(i)]
  BY DEF Sifting
<1>2. k \in 0..n /\ k # 0
  OBVIOUS
<1>3. f[k] = Entry(k)
  <2> HIDE DEF Entry
  <2> QED
    BY <1>1, <1>2
<1> QED
  BY <1>2, <1>3

LEMMA KeptExists ==
    ASSUME NEW q, NEW S, NEW n \in Nat
    PROVE  \E f : Sifting(q, S, f, n)
<1> DEFINE P == {k \in 0..n : \E f : Sifting(q, S, f, k)}
<1>1. 0 \in P
  <2>1. Sifting(q, S, [i \in 0..0 |-> <<>>], 0)
    BY DEF Sifting
  <2> QED
    BY <2>1
<1>2. ASSUME NEW k \in 1..n, k - 1 \in P PROVE k \in P
  <2>1. PICK f : Sifting(q, S, f, k - 1)
    BY <1>2
  <2> DEFINE g == [i \in 0..k |->
                      IF i < k THEN f[i]
                      ELSE IF q[k] \in S THEN f[k - 1] ELSE Append(f[k - 1], q[k])]
             h == [i \in 0..k |->
                      IF i = 0 THEN <<>>
                      ELSE IF q[i] \in S THEN g[i - 1] ELSE Append(g[i - 1], q[i])]
  <2>2. ASSUME NEW i \in 0..k PROVE g[i] = h[i]
    <3>1. CASE i = k
      BY <3>1
    <3>2. CASE i # k
      <4>1. i \in 0..k - 1 /\ g[i] = f[i]
        BY <3>2
      <4>2. i # 0 => g[i - 1] = f[i - 1]
        BY <4>1
      <4> HIDE DEF g
      <4> QED
        BY <4>1, <4>2, <2>1 DEF Sifting
    <3> QED
      BY <3>1, <3>2
  <2>3. g = h
    <3> HIDE DEF P
    <3> QED
     BY <2>2
  <2>4. Sifting(q, S, g, k)
    <3> HIDE DEF g
    <3> QED
      BY <2>3 DEF Sifting
  <2> QED
    BY <2>4
<1> QED
  <2> HIDE DEF P
  <2>1. 0..n \subseteq P
    BY <1>1, <1>2, Reaches
  <2> QED
    BY <2>1 DEF P

LEMMA KeptByRemaining ==
    ASSUME NEW q, NEW S, Len(q) \in Nat
    PROVE  \E f : Sifting(q, S, f, Len(q)) /\ Remaining(q, S) = f[Len(q)]
<1> DEFINE f == CHOOSE g : Sifting(q, S, g, Len(q))
<1>1. Sifting(q, S, f, Len(q))
  BY KeptExists
<1>2. Remaining(q, S) = f[Len(q)]
  BY DEF Remaining, Sifting
<1> QED
  BY <1>1, <1>2

\* What is kept of the first k of a queue q of elements of T: they are those
\* that do not leave, each as often and as early as before.
Sifted(q, S, T, s, k) ==
    /\ s \in Seq(T)
    /\ \A x : (\E j \in 1..Len(s) : s[j] = x) <=> x \notin S /\ \E i \in 1..k : q[i] = x
    /\ (\A i, j \in 1..k : q[i] \notin S /\ q[i] = q[j] => i = j) => \A i, j \in 1..Len(s) : s[i] = s[j] => i = j
    /\ k > 0 /\ q[1] \notin S => Len(s) > 0 /\ s[1] = q[1]
    /\ (\A i \in 1..k : q[i] \notin S) => Len(s) = k /\ \A i \in 1..k : s[i] = q[i]
    /\ \A x, y : x \notin S /\ y \notin S /\ (\E i, j \in 1..k : i < j /\ q[i] = x /\ q[j] = y)
           => \E i, j \in 1..Len(s) : i < j /\ s[i] = x /\ s[j] = y

LEMMA SiftedStep ==
    ASSUME NEW T, NEW q \in Seq(T), NEW S, NEW k \in 1..Len(q), NEW s, Sifted(q, S, T, s, k - 1)
    PROVE  Sifted(q, S, T, IF q[k] \in S THEN s ELSE Append(s, q[k]), k)
<1>1. q[k] \in T /\ k \in Nat /\ s \in Seq(T) /\ Len(s) \in Nat
  BY ElementOfSeq, LenProperties DEF Sifted
<1>2. CASE q[k] \in S
  <2>1. ASSUME NEW x
        PROVE  x \notin S /\ (\E i \in 1..k : q[i] = x) <=> x \notin S /\ \E i \in 1..k - 1 : q[i] = x
    BY <1>1, <1>2
  <2>2. \A x : (\E j \in 1..Len(s) : s[j] = x) <=> x \notin S /\ \E i \in 1..k : q[i] = x
    BY <2>1 DEF Sifted
  <2>3. (\A i, j \in 1..k : q[i] \notin S /\ q[i] = q[j] => i = j) => \A i, j \in 1..Len(s) : s[i] = s[j] => i = j
    BY <1>1 DEF Sifted
  <2>4. k > 0 /\ q[1] \notin S => Len(s) > 0 /\ s[1] = q[1]
    BY <1>1, <1>2 DEF Sifted
  <2>5. ~ \A i \in 1..k : q[i] \notin S
    BY <1>1, <1>2
  <2>6. ASSUME NEW x, NEW y, x \notin S, y \notin S,
               NEW i \in 1..k, NEW j \in 1..k, i < j, q[i] = x, q[j] = y
        PROVE  \E l, m \in 1..Len(s) : l < m /\ s[l] = x /\ s[m] = y
    <3>1. i \in 1..k - 1 /\ j \in 1..k - 1
      BY <1>1, <1>2, <2>6
    <3> QED
      BY <2>6, <3>1 DEF Sifted
  <2> QED
    BY <1>1, <1>2, <2>2, <2>3, <2>4, <2>5, <2>6 DEF Sifted
<1>3. CASE q[k] \notin S
  <2> DEFINE t == Append(s, q[k])
  <2>1. /\ t \in Seq(T) /\ Len(t) = Len(s) + 1
        /\ \A i \in 1..Len(s) : t[i] = s[i]
        /\ t[Len(s) + 1] = q[k]
    BY <1>1, AppendProperties
  <2> HIDE DEF t
  <2>2. ASSUME NEW x PROVE (\E j \in 1..Len(t) : t[j] = x) <=> x \notin S /\ \E i \in 1..k : q[i] = x
    <3>1. (\E j \in 1..Len(t) : t[j] = x) <=> (\E j \in 1..Len(s) : s[j] = x) \/ q[k] = x
      BY <1>1, <2>1
    <3>2. (\E i \in 1..k : q[i] = x) <=> (\E i \in 1..k - 1 : q[i] = x) \/ q[k] = x
      BY <1>1
    <3> QED
      BY <3>1, <3>2, <1>3 DEF Sifted
  <2>3. ASSUME \A i, j \in 1..k : q[i] \notin S /\ q[i] = q[j] => i = j,
               NEW i \in 1..Len(t), NEW j \in 1..Len(t), t[i] = t[j]
        PROVE  i = j
    <3>1. \A m, l \in 1..Len(s) : s[m] = s[l] => m = l
      BY <2>3, <1>1 DEF Sifted
    <3>2. \A m \in 1..Len(s) : s[m] # q[k]
      <4>1. \A m \in 1..Len(s) : \E l \in 1..k - 1 : q[l] = s[m]
        BY DEF Sifted
      <4> QED
        BY <4>1, <2>3, <1>1, <1>3
    <3> QED
      BY <3>1, <3>2, <2>1, <2>3, <1>1
  <2>4. k > 0 /\ q[1] \notin S => Len(t) > 0 /\ t[1] = q[1]
    <3>1. CASE k = 1
      <4>1. ~\E j \in 1..Len(s) : s[j] = s[1]
        BY <3>1 DEF Sifted
      <4>2. Len(s) = 0
        BY <4>1, <1>1
      <4> QED
        BY <4>2, <2>1, <3>1
    <3>2. CASE k > 1
      BY <3>2, <2>1, <1>1 DEF Sifted
    <3> QED
      BY <3>1, <3>2, <1>1
  <2>5. (\A i \in 1..k : q[i] \notin S) => Len(t) = k /\ \A i \in 1..k : t[i] = q[i]
    <3> SUFFICES ASSUME \A i \in 1..k : q[i] \notin S PROVE Len(t) = k /\ \A i \in 1..k : t[i] = q[i]
      OBVIOUS
    <3>1. Len(s) = k - 1 /\ \A i \in 1..k - 1 : s[i] = q[i]
      BY <1>1 DEF Sifted
    <3> QED
      BY <3>1, <2>1, <1>1
  <2>6. ASSUME NEW x, NEW y, x \notin S, y \notin S,
               NEW i \in 1..k, NEW j \in 1..k, i < j, q[i] = x, q[j] = y
        PROVE  \E l, m \in 1..Len(t) : l < m /\ t[l] = x /\ t[m] = y
    <3>1. i \in 1..k - 1
      BY <1>1, <2>6
    <3>2. CASE j = k
      <4>1. PICK l \in 1..Len(s) : s[l] = x
        BY <2>6, <3>1 DEF Sifted
      <4>2. l \in 1..Len(t) /\ Len(s) + 1 \in 1..Len(t) /\ l < Len(s) + 1 /\ t[l] = x /\ t[Len(s) + 1] = y
        BY <1>1, <2>1, <2>6, <3>2, <4>1
      <4> QED
        BY <4>2
    <3>3. CASE j # k
      <4>1. j \in 1..k - 1
        BY <1>1, <3>3
      <4>2. \A u, v : u \notin S /\ v \notin S
                /\ (\E a, b \in 1..k - 1 : a < b /\ q[a] = u /\ q[b] = v)
                => \E a, b \in 1..Len(s) : a < b /\ s[a] = u /\ s[b] = v
        BY DEF Sifted
      <4>3. \E a, b \in 1..k - 1 : a < b /\ q[a] = x /\ q[b] = y
        BY <2>6, <3>1, <4>1
      <4>4. PICK l \in 1..Len(s), m \in 1..Len(s) : l < m /\ s[l] = x /\ s[m] = y
        BY <2>6, <4>2, <4>3
      <4>5. l \in 1..Len(t) /\ m \in 1..Len(t) /\ t[l] = x /\ t[m] = y
        BY <1>1, <2>1, <4>4
      <4> QED
        BY <4>4, <4>5
    <3> QED
      BY <3>2, <3>3
  <2>7. Sifted(q, S, T, t, k)
    BY <2>1, <2>2, <2>3, <2>4, <2>5, <2>6 DEF Sifted
  <2> QED
    BY <2>7, <1>3 DEF t
<1> QED
  BY <1>2, <1>3

\* What has left is gone, who stays is there once if it was there once, and
\* the head stays the head.
LEMMA RemainingSifts ==
    ASSUME NEW T, NEW q \in Seq(T), NEW S
    PROVE  Sifted(q, S, T, Remaining(q, S), Len(q))
<1>1. Len(q) \in Nat
  BY LenProperties
<1>2. PICK f : Sifting(q, S, f, Len(q)) /\ Remaining(q, S) = f[Len(q)]
  BY <1>1, KeptByRemaining
<1> DEFINE P == {k \in 0..Len(q) : Sifted(q, S, T, f[k], k)}
<1>3. 0 \in P
  <2>1. f[0] = <<>> /\ <<>> \in Seq(T) /\ Len(<<>>) = 0
    BY <1>2, <1>1, EmptySeq DEF Sifting
  <2>2. Sifted(q, S, T, <<>>, 0)
    BY <2>1 DEF Sifted
  <2> QED
    BY <2>1, <2>2, <1>1
<1>4. ASSUME NEW k \in 1..Len(q), k - 1 \in P PROVE k \in P
  <2>1. f[k] = IF q[k] \in S THEN f[k - 1] ELSE Append(f[k - 1], q[k])
    <3> HIDE DEF P
    <3> QED
      BY <1>1, <1>2, KeptAt
  <2>2. Sifted(q, S, T, f[k - 1], k - 1)
    BY <1>4
  <2>3. Sifted(q, S, T, IF q[k] \in S THEN f[k - 1] ELSE Append(f[k - 1], q[k]), k)
    <3> HIDE DEF P
    <3> QED
      BY <2>2, SiftedStep
  <2>4. Sifted(q, S, T, f[k], k)
    BY <2>1, <2>3, Zenon
  <2> QED
    BY <2>4
<1>5. 0..Len(q) \subseteq P
  <2> HIDE DEF P
  <2> QED
    BY <1>1, <1>3, <1>4, Reaches
<1> QED
  BY <1>1, <1>2, <1>5

-----------------------------------------------------------------------------
(* The facts the other proofs cite. *)

\* An empty queue holds nobody.
LEMMA QueueEmpty ==
    /\ ToSet(<<>>) = {} /\ IsInjective(<<>>)
    /\ \A T : <<>> \in Seq(T)
  BY EmptySeq DEF ToSet, IsInjective

\* Who joins a queue is the last, and the head only of an empty one.
LEMMA QueueAppend ==
    ASSUME NEW T, NEW q \in Seq(T), NEW x \in T
    PROVE  /\ Append(q, x) \in Seq(T) /\ Append(q, x) # <<>>
           /\ ToSet(Append(q, x)) = ToSet(q) \cup {x}
           /\ IsInjective(q) /\ x \notin ToSet(q) => IsInjective(Append(q, x))
           /\ Head(Append(q, x)) = IF q = <<>> THEN x ELSE Head(q)
<1> DEFINE s == Append(q, x)
<1>1. /\ s \in Seq(T) /\ s # <<>> /\ Len(s) = Len(q) + 1 /\ Len(q) \in Nat
      /\ \A i \in 1..Len(q) : s[i] = q[i]
      /\ s[Len(q) + 1] = x
  BY AppendProperties, LenProperties
<1>2. DOMAIN s = 1..Len(q) + 1 /\ DOMAIN q = 1..Len(q)
  BY <1>1, LenProperties
<1> HIDE DEF s
<1>3. ToSet(s) = ToSet(q) \cup {x}
  BY <1>1, <1>2 DEF ToSet
<1>4. IsInjective(q) /\ x \notin ToSet(q) => IsInjective(s)
  BY <1>1, <1>2 DEF ToSet, IsInjective
<1>5. Head(s) = s[1]
  BY <1>1, HeadTailProperties
<1>6. Head(s) = IF q = <<>> THEN x ELSE Head(q)
  <2>1. CASE q = <<>>
    BY <2>1, <1>1, <1>5, EmptySeq
  <2>2. CASE q # <<>>
    <3>1. Len(q) # 0
      BY <2>2, EmptySeq
    <3> QED
      BY <2>2, <3>1, <1>1, <1>5
  <2> QED
    BY <2>1, <2>2
<1> QED
  BY <1>1, <1>3, <1>4, <1>6 DEF s

\* The head leaves and the others stay; if nobody is in it twice, it is gone.
LEMMA QueueTail ==
    ASSUME NEW T, NEW q \in Seq(T), q # <<>>
    PROVE  /\ Head(q) \in T /\ Tail(q) \in Seq(T)
           /\ ToSet(q) = {Head(q)} \cup ToSet(Tail(q))
           /\ IsInjective(q) => IsInjective(Tail(q)) /\ Head(q) \notin ToSet(Tail(q))
<1> DEFINE s == Tail(q)
<1>1. /\ Head(q) \in T /\ Head(q) = q[1]
      /\ s \in Seq(T) /\ Len(s) = Len(q) - 1 /\ Len(q) \in Nat /\ Len(q) # 0
      /\ \A i \in 1..Len(s) : s[i] = q[i + 1]
  BY HeadTailProperties, LenProperties, EmptySeq
<1>2. DOMAIN s = 1..Len(q) - 1 /\ DOMAIN q = 1..Len(q)
  BY <1>1, LenProperties
<1> HIDE DEF s
<1>3. ASSUME NEW i \in 1..Len(q) PROVE q[i] \in {Head(q)} \cup ToSet(s)
  <2>1. CASE i = 1
    BY <2>1, <1>1
  <2>2. CASE i # 1
    <3>1. i - 1 \in 1..Len(s) /\ s[i - 1] = q[i]
      BY <2>2, <1>1
    <3> QED
      BY <3>1, <1>1, <1>2 DEF ToSet
  <2> QED
    BY <2>1, <2>2
<1>4. ToSet(s) \subseteq ToSet(q) /\ Head(q) \in ToSet(q)
  BY <1>1, <1>2 DEF ToSet
<1>5. ToSet(q) = {Head(q)} \cup ToSet(s)
  BY <1>2, <1>3, <1>4 DEF ToSet
<1>6. IsInjective(q) => IsInjective(s)
  <2> SUFFICES ASSUME IsInjective(q), NEW i \in DOMAIN s, NEW j \in DOMAIN s, s[i] = s[j]
               PROVE  i = j
    BY DEF IsInjective
  <2>1. q[i + 1] = q[j + 1] /\ i + 1 \in DOMAIN q /\ j + 1 \in DOMAIN q
    BY <1>1, <1>2
  <2>2. i + 1 = j + 1
    BY <2>1 DEF IsInjective
  <2> QED
    BY <2>2, <1>2
<1>7. IsInjective(q) => Head(q) \notin ToSet(s)
  <2> SUFFICES ASSUME IsInjective(q), NEW i \in DOMAIN s, s[i] = Head(q)
               PROVE  FALSE
    BY DEF ToSet
  <2>1. q[i + 1] = q[1] /\ i + 1 \in DOMAIN q /\ 1 \in DOMAIN q
    BY <1>1, <1>2
  <2>2. i + 1 = 1
    BY <2>1 DEF IsInjective
  <2> QED
    BY <2>2, <1>2
<1> QED
  BY <1>1, <1>5, <1>6, <1>7 DEF s

\* A queue that holds nobody is empty.
LEMMA QueueOfNobody ==
    ASSUME NEW T, NEW q \in Seq(T), ToSet(q) = {}
    PROVE  q = <<>>
<1> SUFFICES ASSUME q # <<>> PROVE FALSE
  OBVIOUS
<1>1. Head(q) \in ToSet(q)
  BY QueueTail
<1> QED
  BY <1>1

\* It does not matter who else leaves that is not in the queue.
LEMMA RemainingAgrees ==
    ASSUME NEW T, NEW q \in Seq(T), NEW S
    PROVE  Remaining(q, S) = Remaining(q, S \cap ToSet(q))
<1> DEFINE R == S \cap ToSet(q)
<1>1. Len(q) \in Nat /\ DOMAIN q = 1..Len(q)
  BY LenProperties
<1>2. \A k \in 1..Len(q) : q[k] \in S <=> q[k] \in R
  BY <1>1 DEF ToSet
<1> HIDE DEF R
<1>3. PICK f : Sifting(q, S, f, Len(q)) /\ Remaining(q, S) = f[Len(q)]
  BY <1>1, KeptByRemaining
<1>4. PICK g : Sifting(q, R, g, Len(q)) /\ Remaining(q, R) = g[Len(q)]
  BY <1>1, KeptByRemaining
<1> DEFINE P == {k \in 0..Len(q) : f[k] = g[k]}
<1>5. 0 \in P
  <2>1. f[0] = <<>> /\ g[0] = <<>>
    BY <1>1, <1>3, <1>4 DEF Sifting
  <2> QED
    BY <2>1, <1>1
<1>6. ASSUME NEW k \in 1..Len(q), k - 1 \in P PROVE k \in P
  <2>1. /\ f[k] = IF q[k] \in S THEN f[k - 1] ELSE Append(f[k - 1], q[k])
        /\ g[k] = IF q[k] \in R THEN g[k - 1] ELSE Append(g[k - 1], q[k])
    <3> HIDE DEF P
    <3> QED
      BY <1>1, <1>3, <1>4, KeptAt
  <2>2. f[k - 1] = g[k - 1]
    BY <1>6
  <2>3. f[k] = g[k]
    BY <1>2, <2>1, <2>2
  <2> QED
    BY <2>3
<1>7. 0..Len(q) \subseteq P
  <2> HIDE DEF P
  <2> QED
    BY <1>1, <1>5, <1>6, Reaches
<1> QED
  BY <1>1, <1>3, <1>4, <1>7 DEF R

\* Whoever is cancelled is gone, the others are still there, and the head
\* stays the head if it is not among them.
LEMMA QueueRemaining ==
    ASSUME NEW T, NEW q \in Seq(T), NEW S
    PROVE  /\ Remaining(q, S) \in Seq(T)
           /\ ToSet(Remaining(q, S)) = ToSet(q) \ S
           /\ IsInjective(q) => IsInjective(Remaining(q, S))
           /\ q # <<>> /\ Head(q) \notin S => Remaining(q, S) # <<>> /\ Head(Remaining(q, S)) = Head(q)
           /\ ToSet(q) \cap S = {} => Remaining(q, S) = q
<1> DEFINE s == Remaining(q, S)
<1>1. Sifted(q, S, T, s, Len(q))
  BY RemainingSifts
<1> HIDE DEF s
<1>2. /\ s \in Seq(T) /\ Len(s) \in Nat /\ Len(q) \in Nat
      /\ DOMAIN s = 1..Len(s) /\ DOMAIN q = 1..Len(q)
  BY <1>1, LenProperties DEF Sifted
<1>3. ToSet(s) = ToSet(q) \ S
  <2>1. \A x : (\E j \in DOMAIN s : s[j] = x) <=> x \notin S /\ \E i \in DOMAIN q : q[i] = x
    BY <1>1, <1>2 DEF Sifted
  <2>2. \A x : x \in ToSet(s) <=> \E j \in DOMAIN s : s[j] = x
    BY Zenon DEF ToSet
  <2>3. \A x : x \in ToSet(q) <=> \E j \in DOMAIN q : q[j] = x
    BY Zenon DEF ToSet
  <2> QED
    BY <2>1, <2>2, <2>3
<1>4. IsInjective(q) => IsInjective(s)
  BY <1>1, <1>2 DEF Sifted, IsInjective
<1>5. q # <<>> /\ Head(q) \notin S => s # <<>> /\ Head(s) = Head(q)
  <2> SUFFICES ASSUME q # <<>>, Head(q) \notin S PROVE s # <<>> /\ Head(s) = Head(q)
    OBVIOUS
  <2>1. Len(q) > 0 /\ Head(q) = q[1]
    BY <1>2, EmptySeq, HeadTailProperties
  <2>2. Len(s) > 0 /\ s[1] = q[1]
    BY <2>1, <1>1 DEF Sifted
  <2>3. s # <<>>
    BY <2>2, EmptySeq
  <2> QED
    BY <1>2, <2>1, <2>2, <2>3, HeadTailProperties
<1>6. ToSet(q) \cap S = {} => s = q
  <2> SUFFICES ASSUME ToSet(q) \cap S = {} PROVE s = q
    OBVIOUS
  <2>1. \A i \in 1..Len(q) : q[i] \notin S
    BY <1>2 DEF ToSet
  <2>2. Len(s) = Len(q) /\ \A i \in 1..Len(q) : s[i] = q[i]
    BY <1>1, <2>1 DEF Sifted
  <2> QED
    BY <1>2, <2>2, SeqEqual
<1> QED
  BY <1>2, <1>3, <1>4, <1>5, <1>6 DEF s

-----------------------------------------------------------------------------
(* Who is served before whom. *)

Before(q, x, y) == \E i, j \in DOMAIN q : i < j /\ q[i] = x /\ q[j] = y

\* Who joins comes after everybody, and changes nobody else's turn.
LEMMA BeforeAppend ==
    ASSUME NEW T, NEW q \in Seq(T), NEW z \in T
    PROVE  /\ \A x \in ToSet(q) : Before(Append(q, z), x, z)
           /\ \A x, y : Before(q, x, y) => Before(Append(q, z), x, y)
<1> DEFINE s == Append(q, z)
<1>1. /\ s \in Seq(T) /\ Len(s) = Len(q) + 1 /\ Len(q) \in Nat
      /\ \A i \in 1..Len(q) : s[i] = q[i]
      /\ s[Len(q) + 1] = z
      /\ DOMAIN s = 1..Len(q) + 1 /\ DOMAIN q = 1..Len(q)
  BY AppendProperties, LenProperties
<1> HIDE DEF s
<1>2. ASSUME NEW x \in ToSet(q) PROVE Before(s, x, z)
  <2>1. PICK i \in 1..Len(q) : q[i] = x
    BY <1>1 DEF ToSet
  <2>2. i \in DOMAIN s /\ Len(q) + 1 \in DOMAIN s /\ i < Len(q) + 1
    BY <1>1
  <2> QED
    BY <1>1, <2>1, <2>2 DEF Before
<1>3. ASSUME NEW x, NEW y, Before(q, x, y) PROVE Before(s, x, y)
  BY <1>1, <1>3 DEF Before
<1> QED
  BY <1>2, <1>3 DEF s

\* When the head is served the others keep their turns.
LEMMA BeforeTail ==
    ASSUME NEW T, NEW q \in Seq(T), q # <<>>, NEW x, NEW y, Before(q, x, y), Head(q) # x
    PROVE  Before(Tail(q), x, y)
<1> DEFINE s == Tail(q)
<1>1. /\ Head(q) = q[1] /\ s \in Seq(T) /\ Len(s) = Len(q) - 1 /\ Len(q) \in Nat /\ Len(q) # 0
      /\ \A i \in 1..Len(s) : s[i] = q[i + 1]
  BY HeadTailProperties, LenProperties, EmptySeq
<1>2. DOMAIN s = 1..Len(q) - 1 /\ DOMAIN q = 1..Len(q)
  BY <1>1, LenProperties
<1> HIDE DEF s
<1>3. PICK i \in DOMAIN q, j \in DOMAIN q : i < j /\ q[i] = x /\ q[j] = y
  BY DEF Before
<1>4. i # 1
  BY <1>1, <1>3
<1>5. /\ i - 1 \in DOMAIN s /\ j - 1 \in DOMAIN s /\ i - 1 < j - 1
      /\ s[i - 1] = x /\ s[j - 1] = y
  BY <1>1, <1>2, <1>3, <1>4
<1>6. Before(s, x, y)
  BY <1>5 DEF Before
<1> QED
  BY <1>6 DEF s

\* When others leave, those who stay keep their turns.
LEMMA BeforeRemaining ==
    ASSUME NEW T, NEW q \in Seq(T), NEW S, NEW x, NEW y, Before(q, x, y), x \notin S, y \notin S
    PROVE  Before(Remaining(q, S), x, y)
<1> DEFINE s == Remaining(q, S)
<1>1. Sifted(q, S, T, s, Len(q))
  BY RemainingSifts
<1> HIDE DEF s
<1>2. DOMAIN s = 1..Len(s) /\ DOMAIN q = 1..Len(q)
  BY <1>1, LenProperties DEF Sifted
<1>3. PICK i \in 1..Len(q), j \in 1..Len(q) : i < j /\ q[i] = x /\ q[j] = y
  BY <1>2 DEF Before
<1>4. PICK l \in 1..Len(s), m \in 1..Len(s) : l < m /\ s[l] = x /\ s[m] = y
  BY <1>1, <1>3 DEF Sifted
<1>5. Before(s, x, y)
  BY <1>2, <1>4 DEF Before
<1> QED
  BY <1>5 DEF s

\* Who has somebody before him is not served next.
LEMMA BeforeHead ==
    ASSUME NEW T, NEW q \in Seq(T), q # <<>>, IsInjective(q), NEW x, NEW y, Before(q, x, y)
    PROVE  Head(q) # y /\ x \in ToSet(q) /\ y \in ToSet(q)
<1>1. Head(q) = q[1] /\ Len(q) \in Nat /\ Len(q) # 0 /\ DOMAIN q = 1..Len(q)
  BY HeadTailProperties, LenProperties, EmptySeq
<1>2. PICK i \in DOMAIN q, j \in DOMAIN q : i < j /\ q[i] = x /\ q[j] = y
  BY DEF Before
<1>3. x \in ToSet(q) /\ y \in ToSet(q)
  BY <1>2 DEF ToSet
<1>4. j # 1 /\ 1 \in DOMAIN q
  BY <1>1, <1>2
<1>5. q[1] # q[j]
  BY <1>2, <1>4 DEF IsInjective
<1> QED
  BY <1>1, <1>2, <1>3, <1>5

\* Who is picked from a sequence was in it, and is there once if it was there
\* once, whatever else was there twice.
LEMMA QueueAmong ==
    ASSUME NEW T, NEW q \in Seq(T), NEW S
    PROVE  /\ Among(q, S) \in Seq(T)
           /\ ToSet(Among(q, S)) = ToSet(q) \cap S
           /\ (\A i, j \in DOMAIN q : q[i] \in S /\ q[i] = q[j] => i = j)
                  => IsInjective(Among(q, S))
<1> DEFINE R == {q[i] : i \in DOMAIN q} \ S
           s == Remaining(q, R)
<1>1. s = Among(q, S)
  BY DEF Among
<1>2. ToSet(q) \ R = ToSet(q) \cap S
  BY DEF ToSet
<1>3. \A i \in DOMAIN q : q[i] \notin R => q[i] \in S
  OBVIOUS
<1> HIDE DEF R
<1>4. s \in Seq(T) /\ ToSet(s) = ToSet(q) \ R
  BY QueueRemaining
<1>5. Sifted(q, R, T, s, Len(q))
  BY RemainingSifts
<1> HIDE DEF s
<1>6. DOMAIN q = 1..Len(q) /\ DOMAIN s = 1..Len(s)
  BY <1>4, LenProperties
<1>7. ASSUME \A i, j \in DOMAIN q : q[i] \in S /\ q[i] = q[j] => i = j
      PROVE  IsInjective(s)
  <2>1. \A i, j \in 1..Len(q) : q[i] \notin R /\ q[i] = q[j] => i = j
    BY <1>3, <1>6, <1>7
  <2>2. \A i, j \in 1..Len(s) : s[i] = s[j] => i = j
    BY <2>1, <1>5 DEF Sifted
  <2> QED
    BY <2>2, <1>6 DEF IsInjective
<1> QED
  BY <1>1, <1>2, <1>4, <1>7

-----------------------------------------------------------------------------
(* Who leaves in two steps. *)

\* Who joins last and leaves is as if he had not come.
LEMMA RemainingAppend ==
    ASSUME NEW T, NEW q \in Seq(T), NEW x \in T, NEW S
    PROVE  Remaining(Append(q, x), S) =
               IF x \in S THEN Remaining(q, S) ELSE Append(Remaining(q, S), x)
<1> DEFINE r == Append(q, x)
           n == Len(q)
           m == Len(r)
<1>1. /\ r \in Seq(T) /\ m = n + 1 /\ n \in Nat /\ m \in Nat
      /\ \A i \in 1..n : r[i] = q[i]
      /\ r[n + 1] = x
  BY AppendProperties, LenProperties
<1> HIDE DEF r
<1>2. PICK f : Sifting(q, S, f, n) /\ Remaining(q, S) = f[n]
  BY <1>1, KeptByRemaining
<1>3. PICK g : Sifting(r, S, g, m) /\ Remaining(r, S) = g[m]
  BY <1>1, KeptByRemaining
<1> HIDE DEF n, m
<1> DEFINE P == {k \in 0..n : f[k] = g[k]}
<1>4. 0 \in P
  <2>1. f[0] = <<>> /\ g[0] = <<>>
    BY <1>1, <1>2, <1>3 DEF Sifting
  <2> QED
    BY <2>1, <1>1
<1>5. ASSUME NEW k \in 1..n, k - 1 \in P PROVE k \in P
  <2>1. k \in 1..m
    BY <1>1
  <2>2. /\ f[k] = IF q[k] \in S THEN f[k - 1] ELSE Append(f[k - 1], q[k])
        /\ g[k] = IF r[k] \in S THEN g[k - 1] ELSE Append(g[k - 1], r[k])
    <3> HIDE DEF P
    <3>1. f[k] = IF q[k] \in S THEN f[k - 1] ELSE Append(f[k - 1], q[k])
      BY <1>1, <1>2, KeptAt
    <3>2. g[k] = IF r[k] \in S THEN g[k - 1] ELSE Append(g[k - 1], r[k])
      BY <1>1, <1>3, <2>1, KeptAt
    <3> QED
      BY <3>1, <3>2
  <2>3. f[k - 1] = g[k - 1]
    BY <1>5
  <2>4. f[k] = g[k]
    BY <1>1, <2>2, <2>3
  <2> QED
    BY <2>4
<1>6. f[n] = g[n]
  <2>1. 0..n \subseteq P
    <3> HIDE DEF P
    <3> QED
      BY <1>1, <1>4, <1>5, Reaches
  <2> QED
    BY <2>1, <1>1
<1>7. g[m] = IF x \in S THEN g[n] ELSE Append(g[n], x)
  <2>1. m \in 1..m /\ m - 1 = n
    BY <1>1
  <2>2. g[m] = IF r[m] \in S THEN g[m - 1] ELSE Append(g[m - 1], r[m])
    <3>1. \A k \in 1..m : g[k] = IF r[k] \in S THEN g[k - 1] ELSE Append(g[k - 1], r[k])
      <4> HIDE DEF P
      <4> QED
        BY <1>1, <1>3, KeptAt
    <3> QED
      BY <2>1, <3>1
  <2> QED
    BY <1>1, <2>1, <2>2
<1> QED
  BY <1>2, <1>3, <1>6, <1>7 DEF r, n, m

\* Those of S leave and then those of R: together they leave.
LEMMA RemainingTwice ==
    ASSUME NEW T, NEW q \in Seq(T), NEW S, NEW R
    PROVE  Remaining(Remaining(q, S), R) = Remaining(q, S \cup R)
<1> DEFINE U == S \cup R
           n == Len(q)
<1>1. n \in Nat
  BY LenProperties
<1>2. \A k \in 1..n : q[k] \in T
  BY <1>1, ElementOfSeq
<1>3. PICK f : Sifting(q, S, f, n) /\ Remaining(q, S) = f[n]
  BY <1>1, KeptByRemaining
<1>4. PICK g : Sifting(q, U, g, n) /\ Remaining(q, U) = g[n]
  BY <1>1, KeptByRemaining
<1>5. \A k \in 1..n : q[k] \in U <=> q[k] \in S \/ q[k] \in R
  OBVIOUS
<1> HIDE DEF n, U
<1> DEFINE P == {k \in 0..n : f[k] \in Seq(T) /\ Remaining(f[k], R) = g[k]}
<1>6. 0 \in P
  <2>1. f[0] = <<>> /\ g[0] = <<>>
    BY <1>1, <1>3, <1>4 DEF Sifting
  <2>2. <<>> \in Seq(T) /\ ToSet(<<>>) \cap R = {}
    BY QueueEmpty
  <2>3. Remaining(<<>>, R) = <<>>
    BY <2>2, QueueRemaining
  <2> QED
    <3>1. f[0] \in Seq(T) /\ Remaining(f[0], R) = g[0]
      BY <2>1, <2>2, <2>3, Zenon
    <3> QED
      BY <3>1, <1>1
<1>7. ASSUME NEW k \in 1..n, k - 1 \in P PROVE k \in P
  <2>1. /\ f[k] = IF q[k] \in S THEN f[k - 1] ELSE Append(f[k - 1], q[k])
        /\ g[k] = IF q[k] \in U THEN g[k - 1] ELSE Append(g[k - 1], q[k])
    <3> HIDE DEF P
    <3> QED
      BY <1>1, <1>3, <1>4, KeptAt
  <2>2. f[k - 1] \in Seq(T) /\ Remaining(f[k - 1], R) = g[k - 1] /\ q[k] \in T
    BY <1>2, <1>7
  <2>3. f[k] \in Seq(T) /\ Remaining(f[k], R) = g[k]
    <3> HIDE DEF P
    <3> DEFINE e == f[k - 1]
               y == q[k]
    <3> HIDE DEF e, y
    <3>0. e \in Seq(T) /\ y \in T
      BY <2>2 DEF e, y
    <3>1. /\ Append(e, y) \in Seq(T)
          /\ Remaining(Append(e, y), R) =
                IF y \in R THEN Remaining(e, R) ELSE Append(Remaining(e, R), y)
      BY <3>0, RemainingAppend, AppendProperties
    <3>2. q[k] \in U <=> q[k] \in S \/ q[k] \in R
      BY <1>5
    <3>3. CASE q[k] \in S
      BY <3>2, <3>3, <2>1, <2>2
    <3>4. CASE q[k] \notin S
      BY <3>1, <3>2, <3>4, <2>1, <2>2 DEF e, y
    <3> QED
      BY <3>3, <3>4
  <2> QED
    BY <2>3
<1>8. 0..n \subseteq P
  <2> HIDE DEF P
  <2> QED
    BY <1>1, <1>6, <1>7, Reaches
<1> QED
  BY <1>1, <1>3, <1>4, <1>8 DEF U

\* Who leaves does not change what is picked of the others.
LEMMA AmongRemaining ==
    ASSUME NEW T, NEW q \in Seq(T), NEW S, NEW U, S \cap U = {}
    PROVE  Among(Remaining(q, S), U) = Among(q, U)
<1> DEFINE r == Remaining(q, S)
           R == ToSet(r) \ U
<1>1. r \in Seq(T) /\ ToSet(r) = ToSet(q) \ S
  BY QueueRemaining
<1>2. Among(r, U) = Remaining(r, R) /\ Among(q, U) = Remaining(q, ToSet(q) \ U)
  BY DEF Among, ToSet
<1>3. Remaining(r, R) = Remaining(q, S \cup R)
  BY RemainingTwice
<1>4. (S \cup R) \cap ToSet(q) = ToSet(q) \ U
  <2> HIDE DEF r
  <2> QED
    BY <1>1
<1>5. Remaining(q, S \cup R) = Remaining(q, ToSet(q) \ U)
  BY <1>4, RemainingAgrees
<1> QED
  BY <1>2, <1>3, <1>5
=============================================================================
