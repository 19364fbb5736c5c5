--------------------------- MODULE Requests_proofs ---------------------------
(***************************************************************************)
(* Proofs about requests, about the circuit breaker and the pool of keys   *)
(* that they share, and about the delivery of the responses, for any       *)
(* number of requests, readers, providers, keys and overlapping calls and  *)
(* for any thresholds.                                                     *)
(***************************************************************************)
EXTENDS Requests, Delivery, Queues_proofs, TLAPS

-----------------------------------------------------------------------------
(* The circuit breaker. *)

BreakerInv == BreakerTypeOK /\ CountsFailuresInARow

LEMMA InitBreakerInv == BreakerInit => BreakerInv
BY BreakerAssumption DEF BreakerInit, BreakerInv, BreakerTypeOK, CountsFailuresInARow

\* One step of one provider; its other fields and the other providers stay as
\* they are.
LEMMA BreakerStep ==
    ASSUME BreakerInv, NEW p \in Provider,
           \/ Recover(p) \/ Enter(p) \/ Succeed(p) \/ Fail(p) \/ Cancelled(p)
           \/ ForceOpen(p) \/ ForceClosed(p) \/ ForceHalfOpen(p)
    PROVE  BreakerInv'
<1> USE BreakerAssumption DEF BreakerInv, BreakerTypeOK, CountsFailuresInARow
<1>1. CASE Recover(p)
  BY <1>1 DEF Recover, SeemsOpen
<1>2. CASE Enter(p)
  <2>1. CASE state[p] = "OPEN"
    <3>1. Become(p, "HALF_OPEN", failures[p], 0) /\ calls' = [calls EXCEPT ![p] = @ + 1]
      BY <1>2, <2>1 DEF Enter
    <3>2. failures' = failures
      BY <3>1 DEF Become
    <3> QED
      BY <3>1, <3>2 DEF Become
  <2>2. CASE state[p] # "OPEN"
    BY <1>2, <2>2 DEF Enter
  <2> QED
    BY <2>1, <2>2
<1>3. CASE Succeed(p)
  <2>1. CASE Become(p, "CLOSED", 0, 0)
    BY <1>3, <2>1 DEF Succeed, Become
  <2>2. CASE /\ state[p] = "HALF_OPEN"
             /\ successes[p] + 1 < success_threshold
             /\ Stay(p, failures[p], successes[p] + 1)
             /\ streak' = [streak EXCEPT ![p] = 0]
    BY <1>3, <2>2 DEF Succeed, Stay
  <2>3. CASE /\ state[p] # "HALF_OPEN"
             /\ Stay(p, IF state[p] = "CLOSED" THEN 0 ELSE failures[p], successes[p])
             /\ streak' = [streak EXCEPT ![p] = 0]
    BY <1>3, <2>3 DEF Succeed, Stay
  <2> QED
    BY <1>3, <2>1, <2>2, <2>3 DEF Succeed
<1>4. CASE Fail(p)
  <2>1. CASE state[p] = "CLOSED" /\ Trips(p) /\ Become(p, "OPEN", failures[p] + 1, successes[p])
    BY <1>4, <2>1 DEF Fail, Trips, Become
  <2>2. CASE /\ state[p] = "CLOSED" /\ ~Trips(p)
             /\ Stay(p, failures[p] + 1, successes[p])
             /\ streak' = [streak EXCEPT ![p] = @ + 1]
    BY <1>4, <2>2 DEF Fail, Trips, Stay
  <2>3. CASE state[p] = "HALF_OPEN" /\ Become(p, "OPEN", failure_threshold, successes[p])
    BY <1>4, <2>3 DEF Fail, Become
  <2>4. CASE state[p] = "OPEN" /\ Stay(p, failures[p], successes[p]) /\ UNCHANGED streak
    BY <1>4, <2>4 DEF Fail, Stay
  <2> QED
    BY <1>4, <2>1, <2>2, <2>3, <2>4 DEF Fail
<1>5. CASE Cancelled(p)
  BY <1>5 DEF Cancelled
<1>6. CASE ForceOpen(p) \/ ForceClosed(p) \/ ForceHalfOpen(p)
  <2>1. CASE ForceOpen(p)
    BY <2>1 DEF ForceOpen, Become
  <2>2. CASE ForceClosed(p)
    BY <2>2 DEF ForceClosed, Become
  <2>3. CASE ForceHalfOpen(p)
    BY <2>3 DEF ForceHalfOpen, Become
  <2> QED
    BY <1>6, <2>1, <2>2, <2>3
<1> HIDE DEF BreakerInv, BreakerTypeOK, CountsFailuresInARow
<1> QED
  BY <1>1, <1>2, <1>3, <1>4, <1>5, <1>6

LEMMA NextBreakerInv == BreakerInv /\ [BreakerNext]_breakerVars => BreakerInv'
<1>1. BreakerInv /\ UNCHANGED breakerVars => BreakerInv'
  BY DEF breakerVars, BreakerInv, BreakerTypeOK, CountsFailuresInARow
<1> QED
  BY <1>1, BreakerStep DEF BreakerNext

\* A late success or failure finds the breaker open and leaves it so; only
\* somebody who enters after the timeout, or the administrator, moves it.
LEMMA NextStaysOpen ==
    ASSUME BreakerInv, BreakerNext, NEW p \in Provider, SeemsOpen(p)
    PROVE  state'[p] = "OPEN" \/ ForceClosed(p) \/ ForceHalfOpen(p)
<1> USE DEF BreakerInv, BreakerTypeOK, SeemsOpen
<1>1. PICK q \in Provider :
          \/ Recover(q)
          \/ calls[q] < CallMax /\ Enter(q)
          \/ Succeed(q) \/ Fail(q) \/ Cancelled(q)
          \/ ForceOpen(q) \/ ForceClosed(q) \/ ForceHalfOpen(q)
  BY DEF BreakerNext
<1>2. CASE q # p
  BY <1>1, <1>2 DEF Recover, Enter, Succeed, Fail, Cancelled, ForceOpen, ForceClosed,
                    ForceHalfOpen, Become, Stay
<1>3. CASE q = p
  BY <1>1, <1>3 DEF Recover, Enter, Succeed, Fail, Cancelled, ForceOpen, Become, Stay
<1> QED
  BY <1>2, <1>3

\* The failures counted are those in a row, fewer than open a closed breaker
\* (circuit_breaker.py:77-103), however many calls overlap.
THEOREM Counts == BreakerSpec => []CountsFailuresInARow
<1>1. BreakerSpec => []BreakerInv
  BY InitBreakerInv, NextBreakerInv, PTL DEF BreakerSpec
<1> QED
  BY <1>1, PTL DEF BreakerInv

\* Both halves of what the run checks: the count, and that an open breaker
\* admits nothing and is moved by nothing before its timeout
\* (circuit_breaker.py:45-103).
THEOREM Keeps == BreakerSpec => BreakerKeepsCount
<1>1. BreakerSpec => []BreakerInv
  BY InitBreakerInv, NextBreakerInv, PTL DEF BreakerSpec
<1>2. BreakerInv /\ [BreakerNext]_breakerVars =>
        [\A p \in Provider : SeemsOpen(p) => \/ state'[p] = "OPEN"
                                             \/ ForceClosed(p)
                                             \/ ForceHalfOpen(p)]_breakerVars
  BY NextStaysOpen
<1>3. BreakerSpec => OpenForTheTimeout
  BY <1>1, <1>2, PTL DEF BreakerSpec, OpenForTheTimeout
<1>4. BreakerSpec => []CountsFailuresInARow
  BY Counts
<1> QED
  BY <1>3, <1>4, PTL DEF BreakerKeepsCount

-----------------------------------------------------------------------------
(* The pool of keys. *)

\* The keys of a provider: none of them twice.
KeyLists == {s \in Seq(KeyEntry) : \A i, j \in DOMAIN s : s[i].key = s[j].key => i = j}

\* A list whose entries change and whose keys do not.
LEMMA KeyListKept ==
    ASSUME NEW s \in KeyLists, NEW t, DOMAIN t = DOMAIN s, t \in [DOMAIN s -> KeyEntry],
           \A i \in DOMAIN s : t[i].key = s[i].key
    PROVE  t \in KeyLists /\ Len(t) = Len(s)
<1>1. s \in Seq(KeyEntry) /\ DOMAIN s = 1..Len(s) /\ Len(s) \in Nat
  BY DEF KeyLists
<1>2. t \in Seq(KeyEntry) /\ Len(t) = Len(s)
  BY <1>1
<1> QED
  BY <1>2 DEF KeyLists

\* An entry, field by field.
LEMMA EntryFields ==
    ASSUME NEW e \in KeyEntry
    PROVE  /\ e.key \in Key /\ e.revoked \in BOOLEAN /\ e.quota \in Quota \cup {0}
           /\ e.uses \in 0..UseMax /\ e.cooling \in BOOLEAN
           /\ e = [key |-> e.key, revoked |-> e.revoked, quota |-> e.quota, uses |-> e.uses, cooling |-> e.cooling]
BY DEF KeyEntry

LEMMA EntryChanged ==
    ASSUME NEW e \in KeyEntry, NEW r \in BOOLEAN, NEW q \in Quota \cup {0}, NEW c \in BOOLEAN
    PROVE  /\ [e EXCEPT !.revoked = r, !.quota = q] \in KeyEntry
           /\ [e EXCEPT !.revoked = r, !.quota = q].key = e.key
           /\ [e EXCEPT !.cooling = c] \in KeyEntry
           /\ [e EXCEPT !.cooling = c].key = e.key
           /\ Used(e) \in KeyEntry /\ Used(e).key = e.key
<1>1. PICK k \in Key, re \in BOOLEAN, qu \in Quota \cup {0}, us \in 0..UseMax, co \in BOOLEAN :
          e = [key |-> k, revoked |-> re, quota |-> qu, uses |-> us, cooling |-> co]
  BY EntryFields
<1>2. [e EXCEPT !.revoked = r, !.quota = q] = [key |-> k, revoked |-> r, quota |-> q, uses |-> us, cooling |-> co]
  <2>1. [e EXCEPT !.revoked = r] = [key |-> k, revoked |-> r, quota |-> qu, uses |-> us, cooling |-> co]
    BY <1>1
  <2>2. [[key |-> k, revoked |-> r, quota |-> qu, uses |-> us, cooling |-> co] EXCEPT !.quota = q]
          = [key |-> k, revoked |-> r, quota |-> q, uses |-> us, cooling |-> co]
    OBVIOUS
  <2>3. [e EXCEPT !.revoked = r, !.quota = q] = [[e EXCEPT !.revoked = r] EXCEPT !.quota = q]
    OBVIOUS
  <2> QED
    BY ONLY <2>1, <2>2, <2>3, Zenon
<1>3. [e EXCEPT !.cooling = c] = [key |-> k, revoked |-> re, quota |-> qu, uses |-> us, cooling |-> c]
  BY <1>1
<1>4. \E u \in 0..UseMax : Used(e) = [key |-> k, revoked |-> re, quota |-> qu, uses |-> u, cooling |-> co]
  <2>1. us + 1 \in 0..UseMax \/ ~(us < UseMax)
    BY PoolAssumption
  <2> QED
    BY <1>1, <2>1 DEF Used
<1> QED
  BY <1>1, <1>2, <1>3, <1>4 DEF KeyEntry

\* x is e with the mark r.
MarkedAs(x, e, r) == x \in KeyEntry /\ x.key = e.key /\ x.revoked = r

LEMMA EntryMarked ==
    ASSUME NEW e \in KeyEntry, NEW r \in BOOLEAN, NEW q \in Quota \cup {0}
    PROVE  MarkedAs([e EXCEPT !.revoked = r, !.quota = q], e, r)
<1>1. PICK k \in Key, re \in BOOLEAN, qu \in Quota \cup {0}, us \in 0..UseMax, co \in BOOLEAN :
          e = [key |-> k, revoked |-> re, quota |-> qu, uses |-> us, cooling |-> co]
  BY EntryFields
<1> DEFINE new == [key |-> k, revoked |-> r, quota |-> q, uses |-> us, cooling |-> co]
<1>2. [e EXCEPT !.revoked = r, !.quota = q] = new
  <2>1. [e EXCEPT !.revoked = r] = [key |-> k, revoked |-> r, quota |-> qu, uses |-> us, cooling |-> co]
    BY <1>1
  <2>2. [[key |-> k, revoked |-> r, quota |-> qu, uses |-> us, cooling |-> co] EXCEPT !.quota = q] = new
    OBVIOUS
  <2>3. [e EXCEPT !.revoked = r, !.quota = q] = [[e EXCEPT !.revoked = r] EXCEPT !.quota = q]
    OBVIOUS
  <2> HIDE DEF new
  <2> QED
    BY ONLY <2>1, <2>2, <2>3, Zenon
<1>3. MarkedAs(new, e, r)
  BY <1>1 DEF MarkedAs, KeyEntry
<1> HIDE DEF new
<1> QED
  BY <1>2, <1>3

\* What the file has of a key, and a list with a key that is revoked.
SavedEntry == [key: Key, quota: Quota \cup {0}, revoked: BOOLEAN]

MarkedIn(s, k) == \E i \in DOMAIN s : s[i].key = k /\ s[i].revoked

\* Keys stay where they are, and only new ones come behind them.
Extends(s, t) == \A i \in DOMAIN s : i \in DOMAIN t /\ t[i].key = s[i].key

\* t is s with the key k, marked r.
AddedTo(t, s, k, r) ==
    /\ t \in KeyLists /\ Extends(s, t)
    /\ r => MarkedIn(t, k)
    /\ \A l : l # k /\ MarkedIn(s, l) => MarkedIn(t, l)

LEMMA AddedIs ==
    ASSUME NEW s \in KeyLists, NEW k \in Key, NEW q \in Quota \cup {0}, NEW r \in BOOLEAN
    PROVE  AddedTo(Added(s, k, q, r), s, k, r)
<1>1. s \in Seq(KeyEntry) /\ DOMAIN s = 1..Len(s) /\ Len(s) \in Nat /\ \A i \in DOMAIN s : s[i] \in KeyEntry
  BY DEF KeyLists
<1>2. CASE Position(s, k) = {}
  <2> DEFINE e == New(k, q, r)
             t == Append(s, e)
  <2>1. e \in KeyEntry /\ e.key = k /\ e.revoked = r
    BY PoolAssumption DEF New, KeyEntry
  <2> HIDE DEF e
  <2>2. /\ t \in Seq(KeyEntry) /\ Len(t) = Len(s) + 1 /\ DOMAIN t = 1..Len(t)
        /\ \A i \in 1..Len(s) : t[i] = s[i]
        /\ t[Len(s) + 1] = e
    BY <1>1, <2>1, AppendProperties
  <2>3. \A i \in DOMAIN s : s[i].key # k
    BY <1>2 DEF Position
  <2>4. \A i, j \in DOMAIN s : s[i].key = s[j].key => i = j
    BY DEF KeyLists
  <2> HIDE DEF t
  <2>5. ASSUME NEW i \in DOMAIN t, NEW j \in DOMAIN t, t[i].key = t[j].key PROVE i = j
    <3>1. CASE i = Len(s) + 1 \/ j = Len(s) + 1
      BY <3>1, <1>1, <2>1, <2>2, <2>3, <2>5
    <3>2. CASE i \in 1..Len(s) /\ j \in 1..Len(s)
      BY <3>2, <1>1, <2>2, <2>4, <2>5
    <3> QED
      BY <1>1, <2>2, <3>1, <3>2
  <2>6. t \in KeyLists
    BY <2>2, <2>5 DEF KeyLists
  <2>7. \A i \in DOMAIN s : i \in DOMAIN t /\ t[i] = s[i]
    BY <1>1, <2>2
  <2>8. Len(s) + 1 \in DOMAIN t
    BY <1>1, <2>2
  <2>9. Extends(s, t) /\ (r => MarkedIn(t, k)) /\ \A l : MarkedIn(s, l) => MarkedIn(t, l)
    BY <2>1, <2>2, <2>7, <2>8 DEF Extends, MarkedIn
  <2>10. Added(s, k, q, r) = t
    BY <1>2 DEF Added, t, e
  <2> QED
    BY <2>6, <2>9, <2>10 DEF AddedTo
<1>3. CASE Position(s, k) # {}
  <2> DEFINE e(i) == IF s[i].key # k THEN s[i]
                     ELSE [s[i] EXCEPT !.revoked = r, !.quota = IF q = 0 THEN @ ELSE q]
             t == [i \in DOMAIN s |-> e(i)]
  <2>1. ASSUME NEW i \in DOMAIN s
        PROVE  /\ e(i) \in KeyEntry /\ e(i).key = s[i].key
               /\ IF s[i].key = k THEN e(i).revoked = r ELSE e(i) = s[i]
    <3>1. CASE s[i].key # k
      BY <1>1, <3>1
    <3>2. CASE s[i].key = k
      <4> DEFINE u == IF q = 0 THEN s[i].quota ELSE q
      <4>1. u \in Quota \cup {0}
        BY <1>1, EntryFields
      <4> HIDE DEF u
      <4>2. MarkedAs([s[i] EXCEPT !.revoked = r, !.quota = u], s[i], r)
        <5>1. s[i] \in KeyEntry
          BY <1>1
        <5> QED
          BY <4>1, <5>1, EntryMarked, Zenon
      <4>3. e(i) = [s[i] EXCEPT !.revoked = r, !.quota = u]
        BY <3>2 DEF u
      <4> QED
        BY <3>2, <4>2, <4>3, Zenon DEF MarkedAs
    <3> QED
      BY <3>1, <3>2
  <2> HIDE DEF e
  <2>2. t \in [DOMAIN s -> KeyEntry] /\ \A i \in DOMAIN s : t[i] = e(i) /\ t[i].key = s[i].key
    BY <2>1
  <2>3. t \in KeyLists /\ DOMAIN t = DOMAIN s
    <3> HIDE DEF t
    <3> QED
      BY <2>2, KeyListKept
  <2>4. PICK n \in DOMAIN s : s[n].key = k
    BY <1>3 DEF Position
  <2> HIDE DEF t
  <2>5. Extends(s, t)
    BY <2>2, <2>3 DEF Extends
  <2>6. r => MarkedIn(t, k)
    BY <2>1, <2>2, <2>3, <2>4 DEF MarkedIn
  <2>7. \A l : l # k /\ MarkedIn(s, l) => MarkedIn(t, l)
    BY <2>1, <2>2, <2>3 DEF MarkedIn
  <2>8. Added(s, k, q, r) = t
    BY <1>3 DEF Added, t, e
  <2> QED
    BY <2>3, <2>5, <2>6, <2>7, <2>8 DEF AddedTo
<1> QED
  BY <1>2, <1>3

\* A key that is revoked in a list without repetitions is so afterwards.
LEMMA AddedAllIs ==
    ASSUME NEW s \in KeyLists, NEW list \in Seq(SavedEntry)
    PROVE  /\ AddedAll(s, list) \in KeyLists
           /\ (\A i, j \in DOMAIN list : list[i].key = list[j].key => i = j) =>
                  \A k : MarkedIn(list, k) => MarkedIn(AddedAll(s, list), k)
<1> DEFINE n == Len(list)
           Entry1(f, i) == IF i = 0 THEN s
                           ELSE Added(f[i - 1], list[i].key, list[i].quota, list[i].revoked)
           Computes(f) == f = [i \in 0..n |-> Entry1(f, i)]
           F == [i \in 1..n |-> [u \in KeyLists |-> Added(u, list[i].key, list[i].quota, list[i].revoked)]]
<1>1. n \in Nat /\ DOMAIN list = 1..n
  BY LenProperties
<1>2. \A i \in 1..n : list[i].key \in Key /\ list[i].quota \in Quota \cup {0} /\ list[i].revoked \in BOOLEAN
  <2>1. \A i \in 1..n : list[i] \in SavedEntry
    BY ElementOfSeq
  <2> QED
    BY <2>1 DEF SavedEntry
<1> HIDE DEF n
<1> DEFINE Next1(u, i) == Added(u, list[i].key, list[i].quota, list[i].revoked)
<1>3. \A u \in KeyLists : \A i \in 1..n : AddedTo(Next1(u, i), u, list[i].key, list[i].revoked)
  BY <1>2, AddedIs, Zenon
<1>31. \A u \in KeyLists : \A i \in 1..n : Next1(u, i) \in KeyLists
  BY <1>3 DEF AddedTo
<1>4. F \in [1..n -> [KeyLists -> KeyLists]]
  BY <1>31
<1>5. \A i \in 1..n : \A u \in KeyLists : F[i][u] = Added(u, list[i].key, list[i].quota, list[i].revoked)
  OBVIOUS
<1>6. \E f : Computes(f)
  <2> HIDE DEF F
  <2>2. PICK f : Folding(f, n, KeyLists, s, F)
    BY ONLY <1>1, s \in KeyLists, <1>4, Folds
  <2>3. f \in [0..n -> KeyLists] /\ f[0] = s /\ \A i \in 1..n : f[i] = F[i][f[i - 1]]
    BY <2>2 DEF Folding
  <2>4. ASSUME NEW i \in 0..n PROVE f[i] = Entry1(f, i)
    <3>1. CASE i = 0
      BY <2>3, <3>1
    <3>2. CASE i # 0
      <4>1. i \in 1..n /\ i - 1 \in 0..n
        BY <1>1, <3>2
      <4> QED
        BY <1>5, <2>3, <3>2, <4>1
    <3> QED
      BY <3>1, <3>2
  <2>5. f = [i \in 0..n |-> Entry1(f, i)]
    <3> HIDE DEF Entry1
    <3> QED
      BY <2>3, <2>4
  <2> QED
    BY <2>5
<1> DEFINE g == CHOOSE f : Computes(f)
<1>7. \A i \in 0..n : g[i] = Entry1(g, i)
  <2>1. Computes(g)
    <3> HIDE DEF Computes
    <3> QED
      BY <1>6
  <2> HIDE DEF g, Entry1
  <2> QED
    BY <2>1
<1>8. AddedAll(s, list) = g[n]
  BY DEF AddedAll, n
<1> HIDE DEF g
<1>9. /\ g[0] = s
      /\ \A i \in 1..n : g[i] = Added(g[i - 1], list[i].key, list[i].quota, list[i].revoked)
  <2>1. Entry1(g, 0) = s /\ \A i \in 1..n : /\ i \in 0..n
                                             /\ Entry1(g, i) = Added(g[i - 1], list[i].key, list[i].quota, list[i].revoked)
    BY <1>1
  <2>2. 0 \in 0..n
    BY <1>1
  <2> HIDE DEF Entry1
  <2> QED
    BY <1>7, <2>1, <2>2
<1>10. g[n] \in KeyLists
  <2>1. g[0] \in KeyLists
    BY <1>9
  <2>2. ASSUME NEW i \in 1..n, g[i - 1] \in KeyLists PROVE g[i] \in KeyLists
    BY <1>31, <1>9, <2>2
  <2> QED
    BY <1>1, <2>1, <2>2, FoldStays
<1>11. ASSUME \A i, j \in DOMAIN list : list[i].key = list[j].key => i = j,
              NEW j \in 1..n, list[j].revoked
       PROVE  MarkedIn(g[n], list[j].key)
  <2> DEFINE P == {i \in 0..n : g[i] \in KeyLists /\ (j <= i => MarkedIn(g[i], list[j].key))}
  <2>1. 0 \in P
    BY <1>1, <1>9
  <2>2. ASSUME NEW i \in 1..n, i - 1 \in P PROVE i \in P
    <3>1. g[i - 1] \in KeyLists /\ i \in 0..n
      BY <2>2
    <3>2. g[i] \in KeyLists
      BY <1>31, <1>9, <3>1
    <3>3. CASE i = j
      BY <1>3, <1>9, <1>11, <3>1, <3>2, <3>3 DEF AddedTo
    <3>4. CASE j < i
      <4>1. MarkedIn(g[i - 1], list[j].key)
        BY <1>1, <2>2, <3>4
      <4>2. list[j].key # list[i].key
        BY <1>1, <1>11, <3>4
      <4>3. MarkedIn(g[i], list[j].key)
        BY <1>3, <1>9, <3>1, <4>1, <4>2 DEF AddedTo
      <4> QED
        BY <3>1, <3>2, <4>3
    <3> QED
      BY <1>1, <3>1, <3>2, <3>3, <3>4
  <2> HIDE DEF P
  <2>3. 0..n \subseteq P
    BY <1>1, <2>1, <2>2, Reaches
  <2>4. n \in P
    BY <1>1, <2>3
  <2> QED
    BY <1>1, <2>4 DEF P
<1>12. ASSUME \A i, j \in DOMAIN list : list[i].key = list[j].key => i = j, NEW k, MarkedIn(list, k)
       PROVE  MarkedIn(g[n], k)
  BY <1>1, <1>11, <1>12 DEF MarkedIn
<1> QED
  BY <1>8, <1>10, <1>12

LEMMA EnvironmentIsKeyList ==
    ASSUME NEW p \in Pool
    PROVE  FromEnvironment(p) \in KeyLists
<1> DEFINE list == [i \in DOMAIN EnvKeys[p] |-> [key |-> EnvKeys[p][i], quota |-> 0, revoked |-> FALSE]]
           none == <<>>
<1>1. EnvKeys[p] \in Seq(Key)
  BY PoolAssumption
<1>2. \A i \in DOMAIN EnvKeys[p] : list[i] \in SavedEntry
  BY <1>1 DEF SavedEntry
<1>3. list \in Seq(SavedEntry)
  <2>1. list = [i \in 1..Len(EnvKeys[p]) |-> list[i]] /\ Len(EnvKeys[p]) \in Nat
    BY <1>1
  <2>2. \A i \in 1..Len(EnvKeys[p]) : list[i] \in SavedEntry
    BY <1>1, <1>2
  <2> HIDE DEF list
  <2> QED
    BY <2>1, <2>2
<1>4. none \in KeyLists
  BY DEF KeyLists
<1>5. FromEnvironment(p) = AddedAll(none, list)
  BY DEF FromEnvironment
<1> HIDE DEF none, list
<1> QED
  BY <1>3, <1>4, <1>5, AddedAllIs

\* The search that begins behind position n comes to j before i.
Sooner(n, j, i) == (n < j /\ (i <= n \/ j < i)) \/ (j < i /\ i <= n)

LEMMA PickIs ==
    ASSUME NEW s \in KeyLists, NEW i \in Nat
    PROVE  /\ Pick(s, i) \in 0..Len(s)
           /\ Pick(s, i) > 0 => Usable(s[Pick(s, i)])
           /\ Pick(s, i) > 0 /\ i < Len(s) =>
                  \A j \in DOMAIN s : Usable(s[j]) => ~Sooner(i, j, Pick(s, i))
<1> DEFINE L == Len(s)
           place(n) == ((i + n) % L) + 1
           usable == {n \in 0..L - 1 : Usable(s[place(n)])}
           later == {n + 1 : n \in usable}
<1>1. L \in Nat /\ DOMAIN s = 1..L
  BY DEF KeyLists
<1>2. CASE usable = {}
  BY <1>1, <1>2 DEF Pick
<1>3. CASE usable # {}
  <2>1. \E m \in usable : \A n \in usable : m <= n
    <3>1. later \subseteq 1..L /\ later # {}
      <4>1. usable \subseteq 0..L - 1
        OBVIOUS
      <4> HIDE DEF usable, L
      <4>2. later \subseteq 1..L
        BY <1>1, <4>1
      <4>3. PICK u : u \in usable
        BY <1>3
      <4>4. u + 1 \in later
        BY <4>3
      <4> QED
        BY <4>2, <4>4
    <3>2. PICK m \in later : \A n \in later : m <= n
      <4> HIDE DEF later, L
      <4> QED
        BY <1>1, <3>1, LeastIndex
    <3>3. PICK k \in usable : m = k + 1
      BY <3>2
    <3>4. \A n \in usable : n \in 0..L - 1 /\ k \in 0..L - 1 /\ k + 1 <= n + 1
      BY <3>2, <3>3
    <3> HIDE DEF usable, later
    <3> QED
      BY <3>3, <3>4, <1>1
  <2>2. Min(usable) \in usable /\ \A n \in usable : Min(usable) <= n
    <3> HIDE DEF usable
    <3> QED
      BY <2>1 DEF Min
  <2> DEFINE m == Min(usable)
  <2>3. L > 0 /\ m \in 0..L - 1 /\ Usable(s[place(m)])
    BY <1>1, <2>2
  <2>4. \A n \in 0..L - 1 : Usable(s[place(n)]) => m <= n
    BY <2>2
  <2>5. Pick(s, i) = place(m)
    BY <1>3 DEF Pick
  <2> HIDE DEF usable, m, L
  <2>6. place(m) \in 1..L
    BY <1>1, <2>3
  <2>7. ASSUME i < L, NEW j \in 1..L, Usable(s[j]) PROVE ~Sooner(i, j, place(m))
    <3>1. \A n \in 0..L - 1 : place(n) = IF i + n < L THEN i + n + 1 ELSE i + n - L + 1
      <4> SUFFICES ASSUME NEW n \in 0..L - 1
                   PROVE  place(n) = IF i + n < L THEN i + n + 1 ELSE i + n - L + 1
        OBVIOUS
      <4>1. CASE i + n < L
        BY <1>1, <2>7, <4>1
      <4>2. CASE ~(i + n < L)
        <5>1. i + n - L \in 0..L - 1 /\ i + n = L * 1 + (i + n - L)
          BY <1>1, <2>7, <4>2
        <5> QED
          BY <1>1, <2>7, <4>2, <5>1
      <4> QED
        BY <4>1, <4>2
    <3> DEFINE d == IF i < j THEN j - 1 - i ELSE j - 1 - i + L
    <3>2. d \in 0..L - 1 /\ (IF i + d < L THEN i + d + 1 ELSE i + d - L + 1) = j
      BY <1>1, <2>7
    <3>3. place(d) = j
      BY <3>1, <3>2
    <3> HIDE DEF d
    <3>4. m <= d
      BY <2>4, <2>7, <3>2, <3>3
    <3>5. place(m) = IF i + m < L THEN i + m + 1 ELSE i + m - L + 1
      BY <2>3, <3>1
    <3> HIDE DEF place
    <3> QED
      BY <1>1, <2>3, <2>7, <3>2, <3>4, <3>5 DEF Sooner
  <2> HIDE DEF place
  <2> QED
    BY <1>1, <2>3, <2>5, <2>6, <2>7 DEF L
<1> QED
  BY <1>2, <1>3

\* A report or the end of a cooldown.
LEMMA CoolingKept ==
    ASSUME keys \in [Pool -> KeyLists], NEW p \in Pool, NEW k, NEW c \in BOOLEAN, SetCooling(p, k, c)
    PROVE  keys' \in [Pool -> KeyLists] /\ UNCHANGED <<index, revoked>>
<1> DEFINE s == keys[p]
           e(i) == IF s[i].key = k THEN [s[i] EXCEPT !.cooling = c] ELSE s[i]
           t == [i \in DOMAIN s |-> e(i)]
<1>1. s \in KeyLists /\ \A i \in DOMAIN s : s[i] \in KeyEntry
  BY DEF KeyLists
<1>2. ASSUME NEW i \in DOMAIN s PROVE e(i) \in KeyEntry /\ e(i).key = s[i].key
  <2>1. PICK d : d = s[i]
    OBVIOUS
  <2>2. d \in KeyEntry
    BY <1>1, <2>1
  <2>3. [d EXCEPT !.cooling = c] \in KeyEntry /\ [d EXCEPT !.cooling = c].key = d.key
    <3>1. 0 \in Quota \cup {0}
      OBVIOUS
    <3> QED
      BY <2>2, <3>1, EntryChanged, Zenon
  <2>4. e(i) = IF d.key = k THEN [d EXCEPT !.cooling = c] ELSE d
    BY <2>1
  <2> HIDE DEF e, s
  <2> QED
    BY <2>1, <2>2, <2>3, <2>4, Zenon
<1> HIDE DEF e
<1>3. t \in KeyLists
  <2>1. t \in [DOMAIN s -> KeyEntry] /\ \A i \in DOMAIN s : t[i].key = s[i].key
    BY <1>2
  <2> HIDE DEF t, s
  <2> QED
    BY <1>1, <2>1, KeyListKept
<1>4. keys' = [keys EXCEPT ![p] = t] /\ UNCHANGED <<index, revoked>>
  BY DEF SetCooling, e
<1> HIDE DEF t
<1> QED
  BY <1>3, <1>4

\* A list in the file: none of its keys twice.
SavedLists == {s \in Seq(SavedEntry) : \A i, j \in DOMAIN s : s[i].key = s[j].key => i = j}

KeysShape ==
    /\ keys \in [Pool -> KeyLists]
    /\ index \in [Pool -> Nat]
    /\ file \in [Pool -> SavedLists]
    /\ revoked \in [Pool -> SUBSET Key]
    /\ waiting \in [Pool -> [Key -> SUBSET Key]]

\* l could be handed out, and the search comes to it before k.
Precedes(p, l, k) ==
    /\ index[p] < Len(keys[p])
    /\ \E i, j \in DOMAIN keys[p] : /\ keys[p][i].key = k /\ keys[p][j].key = l
                                    /\ Usable(keys[p][j]) /\ Sooner(index[p], j, i)

TurnsAreKept == \A p \in Pool : \A k \in Key : \A l \in waiting[p][k] : Precedes(p, l, k)

\* A revoked key is marked, in the file too unless the last write failed.
RevokedAreMarked ==
    \A p \in Pool : \A k \in revoked[p] : MarkedIn(keys[p], k) /\ (~unsaved => MarkedIn(file[p], k))

TurnsInv == KeysShape /\ TurnsAreKept /\ RevokedAreMarked

LEMMA KeyListIs ==
    ASSUME NEW s \in KeyLists
    PROVE  /\ s \in Seq(KeyEntry) /\ Len(s) \in Nat /\ DOMAIN s = 1..Len(s)
           /\ \A i \in DOMAIN s : s[i] \in KeyEntry
           /\ \A i, j \in DOMAIN s : s[i].key = s[j].key => i = j
BY DEF KeyLists

LEMMA UsedIs ==
    ASSUME NEW e \in KeyEntry
    PROVE  MarkedAs(Used(e), e, e.revoked)
<1>1. PICK k \in Key, re \in BOOLEAN, qu \in Quota \cup {0}, us \in 0..UseMax, co \in BOOLEAN :
          e = [key |-> k, revoked |-> re, quota |-> qu, uses |-> us, cooling |-> co]
  BY EntryFields
<1>2. PICK u \in 0..UseMax : Used(e) = [key |-> k, revoked |-> re, quota |-> qu, uses |-> u, cooling |-> co]
  <2>1. us + 1 \in 0..UseMax \/ ~(us < UseMax)
    BY PoolAssumption
  <2> QED
    BY <1>1, <2>1 DEF Used
<1> QED
  BY <1>1, <1>2 DEF MarkedAs, KeyEntry

LEMMA SavedIs ==
    ASSUME NEW s \in KeyLists
    PROVE  Saved(s) \in SavedLists /\ \A k : MarkedIn(s, k) => MarkedIn(Saved(s), k)
<1> DEFINE e(i) == [key |-> s[i].key, quota |-> s[i].quota, revoked |-> s[i].revoked]
           t == [i \in 1..Len(s) |-> e(i)]
<1>1. /\ Len(s) \in Nat /\ DOMAIN s = 1..Len(s)
      /\ \A i, j \in DOMAIN s : s[i].key = s[j].key => i = j
  BY KeyListIs
<1>2. ASSUME NEW i \in 1..Len(s) PROVE e(i) \in SavedEntry /\ e(i).key = s[i].key /\ e(i).revoked = s[i].revoked
  <2>1. s[i] \in KeyEntry
    BY KeyListIs
  <2> QED
    BY <2>1 DEF KeyEntry, SavedEntry
<1>3. Saved(s) = t
  BY <1>1 DEF Saved
<1> HIDE DEF e
<1>4. t \in Seq(SavedEntry) /\ DOMAIN t = 1..Len(s) /\ \A i \in 1..Len(s) : t[i] = e(i)
  BY <1>1, <1>2
<1> HIDE DEF t
<1>5. t \in SavedLists
  BY <1>1, <1>2, <1>4 DEF SavedLists
<1>6. \A k : MarkedIn(s, k) => MarkedIn(t, k)
  BY <1>1, <1>2, <1>4 DEF MarkedIn
<1> QED
  BY <1>3, <1>5, <1>6

\* What keeps the turns: keys stay in their places, the search would begin where
\* it did, and who waits may still be used.
LEMMA TurnsStay ==
    ASSUME TurnsInv, keys' \in [Pool -> KeyLists], NEW p \in Pool, index'[p] = index[p],
           Extends(keys[p], keys'[p]), NEW k \in Key, NEW l \in waiting[p][k],
           l \in UsableKeys(keys'[p])
    PROVE  Precedes(p, l, k)'
<1>1. /\ keys[p] \in KeyLists /\ keys'[p] \in KeyLists /\ index[p] \in Nat
  BY DEF TurnsInv, KeysShape
<1>2. /\ Len(keys[p]) \in Nat /\ Len(keys'[p]) \in Nat
      /\ DOMAIN keys[p] = 1..Len(keys[p]) /\ DOMAIN keys'[p] = 1..Len(keys'[p])
      /\ \A i, j \in DOMAIN keys'[p] : keys'[p][i].key = keys'[p][j].key => i = j
  BY <1>1, KeyListIs
<1>3. Precedes(p, l, k)
  BY DEF TurnsInv, TurnsAreKept
<1>4. PICK i \in DOMAIN keys[p], j \in DOMAIN keys[p] :
          /\ index[p] < Len(keys[p])
          /\ keys[p][i].key = k /\ keys[p][j].key = l /\ Sooner(index[p], j, i)
  BY <1>3 DEF Precedes
<1>5. PICK u \in DOMAIN keys'[p] : keys'[p][u].key = l /\ Usable(keys'[p][u])
  BY DEF UsableKeys
<1>6. /\ i \in DOMAIN keys'[p] /\ keys'[p][i].key = k
      /\ j \in DOMAIN keys'[p] /\ keys'[p][j].key = l
  BY <1>4 DEF Extends
<1>7. u = j
  BY <1>2, <1>5, <1>6
<1>8. index'[p] < Len(keys'[p])
  <2>1. Len(keys[p]) \in DOMAIN keys[p]
    BY <1>2, <1>4
  <2>2. Len(keys[p]) \in DOMAIN keys'[p]
    BY <2>1 DEF Extends
  <2> QED
    BY <1>1, <1>2, <1>4, <2>2
<1> QED
  BY <1>4, <1>5, <1>6, <1>7, <1>8 DEF Precedes

LEMMA StillTurns ==
    ASSUME TurnsInv, keys' \in [Pool -> KeyLists], UNCHANGED index, waiting' = StillWaiting,
           \A p \in Pool : Extends(keys[p], keys'[p])
    PROVE  TurnsAreKept' /\ waiting' \in [Pool -> [Key -> SUBSET Key]]
<1>1. waiting \in [Pool -> [Key -> SUBSET Key]]
  BY DEF TurnsInv, KeysShape
<1>2. \A p \in Pool : \A k \in Key : waiting'[p][k] = waiting[p][k] \cap UsableKeys(keys'[p])
  BY DEF StillWaiting
<1>3. waiting' \in [Pool -> [Key -> SUBSET Key]]
  BY <1>1 DEF StillWaiting
<1>4. ASSUME NEW p \in Pool, NEW k \in Key, NEW l \in waiting'[p][k]
      PROVE  Precedes(p, l, k)'
  <2>1. l \in waiting[p][k] /\ l \in UsableKeys(keys'[p])
    BY <1>2
  <2> QED
    BY <2>1, TurnsStay
<1> QED
  BY <1>3, <1>4 DEF TurnsAreKept

\* The key that is handed out goes behind all the others.
LEMMA HandedTurns ==
    ASSUME TurnsInv, NEW p \in Pool, NEW i \in DOMAIN keys[p], GetKey(p, i)
    PROVE  TurnsInv'
<1> DEFINE s == keys[p]
           L == Len(s)
           k == s[i].key
           t == keys'[p]
<1>1. /\ keys \in [Pool -> KeyLists] /\ index \in [Pool -> Nat] /\ waiting \in [Pool -> [Key -> SUBSET Key]]
      /\ file \in [Pool -> SavedLists] /\ revoked \in [Pool -> SUBSET Key]
  BY DEF TurnsInv, KeysShape
<1>2. s \in KeyLists /\ L \in Nat /\ DOMAIN s = 1..L /\ i \in 1..L /\ index[p] \in Nat
      /\ \A a, b \in DOMAIN s : s[a].key = s[b].key => a = b
  BY <1>1, KeyListIs
<1>3. /\ i = Pick(s, index[p]) /\ i > 0
      /\ keys' = [keys EXCEPT ![p][i] = Used(s[i])]
      /\ index' = [index EXCEPT ![p] = NextIndex(s, i)]
      /\ waiting' = [StillWaiting EXCEPT
             ![p] = [l \in Key |-> IF l = k THEN UsableKeys(t) \ {k} ELSE StillWaiting[p][l] \ {k}]]
      /\ UNCHANGED <<file, unsaved, revoked>>
  BY DEF GetKey
<1>4. MarkedAs(Used(s[i]), s[i], s[i].revoked)
  <2>1. s[i] \in KeyEntry
    BY <1>2, KeyListIs
  <2> QED
    BY <2>1, UsedIs
<1> DEFINE next == Used(s[i])
<1>5. keys' = [keys EXCEPT ![p] = [s EXCEPT ![i] = next]]
  BY <1>3
<1>6. next \in KeyEntry /\ next.key = k /\ next.revoked = s[i].revoked
  BY <1>4 DEF MarkedAs
<1> HIDE DEF next
<1>7. /\ DOMAIN t = DOMAIN s /\ t[i] = next /\ \A a \in DOMAIN s : a # i => t[a] = s[a]
      /\ \A q \in Pool : q # p => keys'[q] = keys[q]
      /\ t \in [DOMAIN s -> KeyEntry]
  BY <1>1, <1>2, <1>5, <1>6, KeyListIs
<1>8. \A a \in DOMAIN s : t[a].key = s[a].key /\ t[a].revoked = s[a].revoked
  BY <1>6, <1>7
<1>9. t \in KeyLists /\ Len(t) = L
  BY <1>2, <1>7, <1>8, KeyListKept
<1>10. keys' \in [Pool -> KeyLists]
  BY <1>1, <1>5, <1>7, <1>9
<1>11. /\ index'[p] = i % L /\ \A q \in Pool : q # p => index'[q] = index[q]
       /\ index' \in [Pool -> Nat]
  BY <1>1, <1>2, <1>3 DEF NextIndex
<1> DEFINE n == index[p]
           m == i % L
<1>12. /\ m = IF i < L THEN i ELSE 0
       /\ m \in Nat /\ m < L
  <2>1. L \in Nat /\ i \in Nat /\ 1 <= i /\ i <= L
    BY <1>2
  <2> HIDE DEF L
  <2>2. i < L => i % L = i
    BY <2>1
  <2>3. L % L = 0
    BY <2>1
  <2> QED
    BY <2>1, <2>2, <2>3
<1>13. \A q \in Pool : \A l \in Key : StillWaiting[q][l] = waiting[q][l] \cap UsableKeys(keys'[q])
  BY DEF StillWaiting
<1>14. StillWaiting \in [Pool -> [Key -> SUBSET Key]]
  BY <1>1 DEF StillWaiting
<1>15. UsableKeys(t) \subseteq Key
  BY <1>9, KeyListIs, EntryFields DEF UsableKeys
<1> DEFINE row == [l \in Key |-> IF l = k THEN UsableKeys(t) \ {k} ELSE StillWaiting[p][l] \ {k}]
<1>16. row \in [Key -> SUBSET Key]
  BY <1>14, <1>15
<1>17. waiting' = [StillWaiting EXCEPT ![p] = row]
  BY <1>3
<1>18. /\ waiting' \in [Pool -> [Key -> SUBSET Key]]
       /\ \A q \in Pool : q # p => waiting'[q] = StillWaiting[q]
       /\ \A l \in Key : waiting'[p][l] = IF l = k THEN UsableKeys(t) \ {k} ELSE StillWaiting[p][l] \ {k}
  <2>1. waiting'[p] = row
    BY <1>14, <1>17
  <2> QED
    BY <1>14, <1>16, <1>17, <2>1
<1> HIDE DEF m, row
<1>19. ASSUME NEW q \in Pool, q # p, NEW l \in Key, NEW w \in waiting'[q][l]
       PROVE  Precedes(q, w, l)'
  <2>1. w \in waiting[q][l] /\ w \in UsableKeys(keys'[q])
    BY <1>13, <1>18, <1>19
  <2>2. Extends(keys[q], keys'[q]) /\ index'[q] = index[q]
    BY <1>7, <1>11, <1>19 DEF Extends
  <2> QED
    BY <1>10, <2>1, <2>2, TurnsStay
<1>20. ASSUME NEW q, q = p, NEW l, l = k, NEW w \in UsableKeys(t), w # k
       PROVE  Precedes(q, w, l)'
  <2>1. PICK j \in DOMAIN t : t[j].key = w /\ Usable(t[j])
    BY DEF UsableKeys
  <2>2. j \in 1..L /\ j # i
    BY <1>2, <1>6, <1>7, <1>20, <2>1
  <2>3. Sooner(m, j, i)
    BY <1>2, <1>12, <2>2 DEF Sooner
  <2> QED
    BY <1>2, <1>7, <1>8, <1>9, <1>11, <1>12, <1>20, <2>1, <2>3 DEF Precedes, m
<1>21. ASSUME NEW q, q = p, NEW l \in Key, l # k, NEW w \in StillWaiting[p][l], w # k
       PROVE  Precedes(q, w, l)'
  <2>1. w \in waiting[p][l] /\ w \in UsableKeys(t)
    BY <1>13, <1>21
  <2>2. Precedes(p, w, l)
    BY <2>1 DEF TurnsInv, TurnsAreKept
  <2>3. PICK a \in DOMAIN s, b \in DOMAIN s :
            /\ n < L /\ s[a].key = l /\ s[b].key = w /\ Usable(s[b]) /\ Sooner(n, b, a)
    BY <2>2 DEF Precedes
  <2>4. a # i /\ b # i /\ a \in 1..L /\ b \in 1..L
    BY <1>2, <1>21, <2>3
  <2>5. ~Sooner(n, b, i)
    BY <1>2, <1>3, <2>3, PickIs
  <2>6. Sooner(m, b, a)
    BY <1>2, <1>12, <2>3, <2>4, <2>5 DEF Sooner
  <2>7. Usable(t[b]) /\ t[b].key = w /\ t[a].key = l
    BY <1>7, <1>8, <2>3, <2>4
  <2> QED
    BY <1>7, <1>9, <1>11, <1>12, <1>21, <2>3, <2>6, <2>7 DEF Precedes, m
<1>22. TurnsAreKept'
  <2> SUFFICES ASSUME NEW q \in Pool, NEW l \in Key, NEW w \in waiting'[q][l]
               PROVE  Precedes(q, w, l)'
    BY DEF TurnsAreKept
  <2>1. CASE q # p
    BY <1>19, <2>1
  <2>2. CASE q = p /\ l = k
    <3>1. w \in UsableKeys(t) /\ w # k
      <4>1. w \in waiting'[p][l]
        BY <2>2
      <4>2. waiting'[p][l] = UsableKeys(t) \ {k}
        BY <1>18, <2>2
      <4> HIDE DEF t, k
      <4> QED
        BY <4>1, <4>2
    <3> QED
      BY <1>20, <2>2, <3>1
  <2>3. CASE q = p /\ l # k
    <3>1. w \in StillWaiting[p][l] /\ w # k
      <4>1. w \in waiting'[p][l]
        BY <2>3
      <4>2. waiting'[p][l] = StillWaiting[p][l] \ {k}
        BY <1>18, <2>3
      <4> HIDE DEF t, k
      <4> QED
        BY <4>1, <4>2
    <3> QED
      BY <1>21, <2>3, <3>1
  <2> QED
    BY <2>1, <2>2, <2>3
<1>23. RevokedAreMarked'
  <2>1. \A q \in Pool : \A l : MarkedIn(keys[q], l) => MarkedIn(keys'[q], l)
    BY <1>7, <1>8 DEF MarkedIn
  <2> QED
    BY <1>3, <2>1 DEF TurnsInv, RevokedAreMarked
<1>24. KeysShape'
  BY <1>1, <1>3, <1>10, <1>11, <1>18 DEF KeysShape
<1> QED
  BY <1>22, <1>23, <1>24 DEF TurnsInv

\* Lists whose entries change and whose keys and marks do not.
LEMMA MarkedKept ==
    ASSUME NEW s \in KeyLists, NEW t, t = [i \in DOMAIN s |-> t[i]],
           \A i \in DOMAIN s : MarkedAs(t[i], s[i], s[i].revoked)
    PROVE  t \in KeyLists /\ Extends(s, t) /\ \A k : MarkedIn(s, k) => MarkedIn(t, k)
<1>1. \A i \in DOMAIN s : t[i] \in KeyEntry /\ t[i].key = s[i].key /\ t[i].revoked = s[i].revoked
  BY DEF MarkedAs
<1>2. DOMAIN t = DOMAIN s /\ t \in [DOMAIN s -> KeyEntry]
  BY <1>1
<1>3. t \in KeyLists
  BY <1>1, <1>2, KeyListKept
<1> QED
  BY <1>1, <1>2, <1>3 DEF Extends, MarkedIn

LEMMA EntryMoved ==
    ASSUME NEW e \in KeyEntry
    PROVE  /\ \A c \in BOOLEAN : MarkedAs([e EXCEPT !.cooling = c], e, e.revoked)
           /\ e.uses > 0 => MarkedAs([e EXCEPT !.uses = e.uses - 1], e, e.revoked)
           /\ \A q \in Quota \cup {0} : MarkedAs([e EXCEPT !.quota = q], e, e.revoked)
           /\ MarkedAs([e EXCEPT !.revoked = ~e.revoked], e, ~e.revoked)
           /\ MarkedAs(e, e, e.revoked)
<1>1. PICK k \in Key, re \in BOOLEAN, qu \in Quota \cup {0}, us \in 0..UseMax, co \in BOOLEAN :
          e = [key |-> k, revoked |-> re, quota |-> qu, uses |-> us, cooling |-> co]
  BY EntryFields
<1>2. \A c \in BOOLEAN : MarkedAs([e EXCEPT !.cooling = c], e, e.revoked)
  BY <1>1 DEF MarkedAs, KeyEntry
<1>3. e.uses > 0 => MarkedAs([e EXCEPT !.uses = e.uses - 1], e, e.revoked)
  <2>1. us > 0 => us - 1 \in 0..UseMax
    BY PoolAssumption
  <2> QED
    BY <1>1, <2>1 DEF MarkedAs, KeyEntry
<1>4. \A q \in Quota \cup {0} : MarkedAs([e EXCEPT !.quota = q], e, e.revoked)
  BY <1>1 DEF MarkedAs, KeyEntry
<1>5. MarkedAs([e EXCEPT !.revoked = ~e.revoked], e, ~e.revoked)
  BY <1>1 DEF MarkedAs, KeyEntry
<1>6. MarkedAs(e, e, e.revoked)
  BY DEF MarkedAs
<1> QED
  BY <1>2, <1>3, <1>4, <1>5, <1>6

LEMMA OneList ==
    ASSUME TurnsInv, NEW p \in Pool, NEW t \in KeyLists, keys' = [keys EXCEPT ![p] = t]
    PROVE  /\ keys' \in [Pool -> KeyLists] /\ keys'[p] = t /\ \A q \in Pool : q # p => keys'[q] = keys[q]
           /\ keys[p] \in KeyLists
BY DEF TurnsInv, KeysShape

\* What requests and clocks do to a key that is not handed out.
LEMMA QuietTurns ==
    ASSUME TurnsInv, UNCHANGED <<index, file, unsaved, revoked>>, waiting' = StillWaiting,
           NEW p \in Pool, NEW t, t = [i \in DOMAIN keys[p] |-> t[i]],
           \A i \in DOMAIN keys[p] : MarkedAs(t[i], keys[p][i], keys[p][i].revoked),
           keys' = [keys EXCEPT ![p] = t]
    PROVE  TurnsInv'
<1>1. keys[p] \in KeyLists
  BY DEF TurnsInv, KeysShape
<1>2. t \in KeyLists /\ Extends(keys[p], t) /\ \A k : MarkedIn(keys[p], k) => MarkedIn(t, k)
  BY <1>1, MarkedKept
<1>3. keys' \in [Pool -> KeyLists] /\ keys'[p] = t /\ \A q \in Pool : q # p => keys'[q] = keys[q]
  BY <1>2, OneList
<1>4. \A q \in Pool : Extends(keys[q], keys'[q])
  BY <1>2, <1>3 DEF Extends
<1>5. TurnsAreKept' /\ waiting' \in [Pool -> [Key -> SUBSET Key]]
  BY <1>3, <1>4, StillTurns
<1>6. RevokedAreMarked'
  BY <1>2, <1>3 DEF TurnsInv, RevokedAreMarked
<1> QED
  BY <1>3, <1>5, <1>6 DEF TurnsInv, KeysShape

LEMMA CoolingTurns ==
    ASSUME TurnsInv, NEW p \in Pool, NEW k, NEW c \in BOOLEAN, SetCooling(p, k, c)
    PROVE  TurnsInv'
<1> DEFINE s == keys[p]
           e(i) == IF s[i].key = k THEN [s[i] EXCEPT !.cooling = c] ELSE s[i]
           t == [i \in DOMAIN s |-> e(i)]
<1>1. s \in KeyLists /\ \A i \in DOMAIN s : s[i] \in KeyEntry
  BY KeyListIs DEF TurnsInv, KeysShape
<1>2. ASSUME NEW i \in DOMAIN s PROVE MarkedAs(e(i), s[i], s[i].revoked)
  <2>1. s[i] \in KeyEntry
    BY <1>1
  <2>2. MarkedAs([s[i] EXCEPT !.cooling = c], s[i], s[i].revoked) /\ MarkedAs(s[i], s[i], s[i].revoked)
    BY <2>1, EntryMoved, Zenon
  <2>3. CASE s[i].key = k
    BY <2>2, <2>3
  <2>4. CASE s[i].key # k
    BY <2>2, <2>4
  <2> QED
    BY <2>3, <2>4
<1>3. keys' = [keys EXCEPT ![p] = t] /\ waiting' = StillWaiting /\ UNCHANGED <<index, file, unsaved, revoked>>
  BY DEF SetCooling
<1> HIDE DEF e
<1>4. t = [i \in DOMAIN s |-> t[i]] /\ \A i \in DOMAIN s : MarkedAs(t[i], s[i], s[i].revoked)
  BY <1>2
<1> HIDE DEF t
<1> QED
  BY <1>3, <1>4, QuietTurns

\* One entry of a list changes.
LEMMA OneEntry ==
    ASSUME NEW s \in KeyLists, NEW i \in DOMAIN s, NEW x, NEW t, t = [s EXCEPT ![i] = x]
    PROVE  t = [j \in DOMAIN s |-> t[j]] /\ t[i] = x /\ \A j \in DOMAIN s : j # i => t[j] = s[j]
BY KeyListIs

LEMMA ForgetTurns ==
    ASSUME TurnsInv, NEW p \in Pool, NEW i, Forget(p, i)
    PROVE  TurnsInv'
<1> DEFINE s == keys[p]
           x == [s[i] EXCEPT !.uses = s[i].uses - 1]
           t == [s EXCEPT ![i] = x]
<1>1. s \in KeyLists /\ i \in DOMAIN s /\ \A j \in DOMAIN s : s[j] \in KeyEntry
  BY KeyListIs DEF TurnsInv, KeysShape, Forget
<1>2. MarkedAs(x, s[i], s[i].revoked)
  <2>1. s[i] \in KeyEntry /\ s[i].uses > 0
    BY <1>1 DEF Forget
  <2> QED
    BY <2>1, EntryMoved, Zenon
<1>3. keys' = [keys EXCEPT ![p] = t] /\ waiting' = StillWaiting /\ UNCHANGED <<index, file, unsaved, revoked>>
  BY DEF Forget
<1>4. \A j \in DOMAIN s : MarkedAs(s[j], s[j], s[j].revoked)
  BY <1>1, EntryMoved
<1> HIDE DEF x
<1>5. t = [j \in DOMAIN s |-> t[j]] /\ t[i] = x /\ \A j \in DOMAIN s : j # i => t[j] = s[j]
  BY <1>1, OneEntry
<1> HIDE DEF t
<1>6. \A j \in DOMAIN s : MarkedAs(t[j], s[j], s[j].revoked)
  <2> SUFFICES ASSUME NEW j \in DOMAIN s PROVE MarkedAs(t[j], s[j], s[j].revoked)
    OBVIOUS
  <2>1. CASE j = i
    BY <1>2, <1>5, <2>1
  <2>2. CASE j # i
    BY <1>4, <1>5, <2>2
  <2> QED
    BY <2>1, <2>2
<1> QED
  BY <1>3, <1>5, <1>6, QuietTurns

\* What a change in the admin interface leaves in the file.
LEMMA WrittenMarks ==
    ASSUME TurnsInv, keys' \in [Pool -> KeyLists], Written,
           \A q \in Pool : \A k \in revoked'[q] : MarkedIn(keys'[q], k)
    PROVE  file' \in [Pool -> SavedLists] /\ RevokedAreMarked'
<1>1. \A q \in Pool : /\ Saved(keys'[q]) \in SavedLists
                      /\ \A k : MarkedIn(keys'[q], k) => MarkedIn(Saved(keys'[q]), k)
  BY SavedIs
<1> DEFINE none == <<>>
<1>2. none \in SavedLists
  BY DEF SavedLists
<1>3. CASE file' = [q \in Pool |-> Saved(keys'[q])]
  BY <1>1, <1>3 DEF RevokedAreMarked
<1>4. CASE file' \in {file, [q \in Pool |-> none]} /\ unsaved' = TRUE
  <2>1. file' \in [Pool -> SavedLists]
    <3>1. file \in [Pool -> SavedLists]
      BY DEF TurnsInv, KeysShape
    <3> HIDE DEF none
    <3> QED
      BY <1>2, <1>4, <3>1
  <2> QED
    BY <1>4, <2>1 DEF RevokedAreMarked
<1> QED
  BY <1>3, <1>4 DEF Written

\* A change that leaves every key in its place.
LEMMA ChangedTurns ==
    ASSUME TurnsInv, NEW p \in Pool, NEW t \in KeyLists, Change(p, t), Extends(keys[p], t),
           UNCHANGED index, waiting' = StillWaiting,
           revoked' \in [Pool -> SUBSET Key],
           \A q \in Pool : q # p => revoked'[q] = revoked[q],
           \A k \in revoked'[p] : MarkedIn(t, k)
    PROVE  TurnsInv'
<1>1. keys' = [keys EXCEPT ![p] = t] /\ Written
  BY DEF Change
<1>2. keys' \in [Pool -> KeyLists] /\ keys'[p] = t /\ \A q \in Pool : q # p => keys'[q] = keys[q]
  BY <1>1, OneList
<1>3. \A q \in Pool : Extends(keys[q], keys'[q])
  BY <1>2 DEF Extends
<1>4. TurnsAreKept' /\ waiting' \in [Pool -> [Key -> SUBSET Key]]
  BY <1>2, <1>3, StillTurns
<1>5. \A q \in Pool : \A k \in revoked'[q] : MarkedIn(keys'[q], k)
  <2>1. \A q \in Pool : \A k \in revoked[q] : MarkedIn(keys[q], k)
    BY DEF TurnsInv, RevokedAreMarked
  <2> SUFFICES ASSUME NEW q \in Pool, NEW k \in revoked'[q] PROVE MarkedIn(keys'[q], k)
    OBVIOUS
  <2>2. CASE q = p
    BY <1>2, <2>2
  <2>3. CASE q # p
    BY <1>2, <2>1, <2>3
  <2> QED
    BY <2>2, <2>3
<1>6. file' \in [Pool -> SavedLists] /\ RevokedAreMarked'
  BY <1>1, <1>2, <1>5, WrittenMarks
<1> QED
  BY <1>2, <1>4, <1>6 DEF TurnsInv, KeysShape

LEMMA AddTurns ==
    ASSUME TurnsInv, NEW p \in Pool, NEW k \in Key, NEW q \in Quota \cup {0}, AddKey(p, k, q)
    PROVE  TurnsInv'
<1> DEFINE t == Added(keys[p], k, q, FALSE)
<1>1. keys[p] \in KeyLists /\ revoked \in [Pool -> SUBSET Key]
  BY DEF TurnsInv, KeysShape
<1>2. AddedTo(t, keys[p], k, FALSE)
  <2>1. FALSE \in BOOLEAN
    OBVIOUS
  <2> QED
    BY <1>1, <2>1, AddedIs, Zenon
<1>3. Change(p, t) /\ waiting' = StillWaiting /\ UNCHANGED index
      /\ revoked' = [revoked EXCEPT ![p] = @ \ {k}]
  BY DEF AddKey
<1> HIDE DEF t
<1>4. /\ revoked' \in [Pool -> SUBSET Key] /\ revoked'[p] = revoked[p] \ {k}
      /\ \A r \in Pool : r # p => revoked'[r] = revoked[r]
  BY <1>1, <1>3
<1>5. t \in KeyLists /\ Extends(keys[p], t) /\ \A l : l # k /\ MarkedIn(keys[p], l) => MarkedIn(t, l)
  BY <1>2 DEF AddedTo
<1>6. \A l \in revoked'[p] : MarkedIn(t, l)
  BY <1>4, <1>5 DEF TurnsInv, RevokedAreMarked
<1> QED
  BY <1>3, <1>4, <1>5, <1>6, ChangedTurns

LEMMA ToggleTurns ==
    ASSUME TurnsInv, NEW p \in Pool, NEW i \in DOMAIN keys[p], ToggleRevoke(p, i)
    PROVE  TurnsInv'
<1> DEFINE s == keys[p]
           x == [s[i] EXCEPT !.revoked = ~s[i].revoked]
           t == [s EXCEPT ![i] = x]
<1>1. /\ s \in KeyLists /\ \A j \in DOMAIN s : s[j] \in KeyEntry
      /\ \A a, b \in DOMAIN s : s[a].key = s[b].key => a = b
      /\ revoked \in [Pool -> SUBSET Key]
  BY KeyListIs DEF TurnsInv, KeysShape
<1>2. MarkedAs(x, s[i], ~s[i].revoked)
  BY <1>1, EntryMoved, Zenon
<1>3. Change(p, t) /\ waiting' = StillWaiting /\ UNCHANGED index
  BY DEF ToggleRevoke
<1>4. revoked' = [revoked EXCEPT ![p] =
          IF s[i].revoked THEN revoked[p] \ {s[i].key} ELSE revoked[p] \cup {s[i].key}]
  BY DEF ToggleRevoke
<1> HIDE DEF x
<1>5. t = [j \in DOMAIN s |-> t[j]] /\ t[i] = x /\ \A j \in DOMAIN s : j # i => t[j] = s[j]
  BY <1>1, OneEntry
<1> HIDE DEF t
<1>6. x \in KeyEntry /\ x.key = s[i].key /\ x.revoked = ~s[i].revoked
  BY <1>2 DEF MarkedAs
<1>7. DOMAIN t = DOMAIN s /\ t \in [DOMAIN s -> KeyEntry] /\ \A j \in DOMAIN s : t[j].key = s[j].key
  BY <1>1, <1>5, <1>6
<1>8. t \in KeyLists /\ Extends(s, t)
  BY <1>1, <1>7, KeyListKept DEF Extends
<1>9. /\ revoked' \in [Pool -> SUBSET Key]
      /\ revoked'[p] = IF s[i].revoked THEN revoked[p] \ {s[i].key} ELSE revoked[p] \cup {s[i].key}
      /\ \A r \in Pool : r # p => revoked'[r] = revoked[r]
  <2>1. s[i].key \in Key
    BY <1>1, EntryFields
  <2> HIDE DEF s
  <2> QED
    BY <1>1, <1>4, <2>1
<1>10. ASSUME NEW l \in revoked'[p] PROVE MarkedIn(t, l)
  <2>1. CASE l = s[i].key
    <3>1. ~s[i].revoked
      BY <1>9, <1>10, <2>1
    <3> QED
      BY <1>5, <1>6, <1>7, <2>1, <3>1 DEF MarkedIn
  <2>2. CASE l # s[i].key
    <3>1. l \in revoked[p]
      BY <1>9, <1>10, <2>2
    <3>2. MarkedIn(s, l)
      BY <3>1 DEF TurnsInv, RevokedAreMarked
    <3>3. PICK j \in DOMAIN s : s[j].key = l /\ s[j].revoked
      BY <3>2 DEF MarkedIn
    <3>4. j # i
      BY <2>2, <3>3
    <3> QED
      BY <1>5, <1>7, <3>3, <3>4 DEF MarkedIn
  <2> QED
    BY <2>1, <2>2
<1> QED
  BY <1>3, <1>8, <1>9, <1>10, ChangedTurns

LEMMA QuotaTurns ==
    ASSUME TurnsInv, NEW p \in Pool, NEW i \in DOMAIN keys[p], NEW q \in Quota \cup {0},
           UpdateMeta(p, i, q)
    PROVE  TurnsInv'
<1> DEFINE s == keys[p]
           x == [s[i] EXCEPT !.quota = q]
           t == [s EXCEPT ![i] = x]
<1>1. s \in KeyLists /\ \A j \in DOMAIN s : s[j] \in KeyEntry
  BY KeyListIs DEF TurnsInv, KeysShape
<1>2. MarkedAs(x, s[i], s[i].revoked)
  BY <1>1, EntryMoved, Zenon
<1>3. Change(p, t) /\ waiting' = StillWaiting /\ UNCHANGED <<index, revoked>>
  BY DEF UpdateMeta
<1>4. \A j \in DOMAIN s : MarkedAs(s[j], s[j], s[j].revoked)
  BY <1>1, EntryMoved
<1> HIDE DEF x
<1>5. t = [j \in DOMAIN s |-> t[j]] /\ t[i] = x /\ \A j \in DOMAIN s : j # i => t[j] = s[j]
  BY <1>1, OneEntry
<1> HIDE DEF t
<1>6. \A j \in DOMAIN s : MarkedAs(t[j], s[j], s[j].revoked)
  <2> SUFFICES ASSUME NEW j \in DOMAIN s PROVE MarkedAs(t[j], s[j], s[j].revoked)
    OBVIOUS
  <2>1. CASE j = i
    BY <1>2, <1>5, <2>1
  <2>2. CASE j # i
    BY <1>4, <1>5, <2>2
  <2> QED
    BY <2>1, <2>2
<1>7. t \in KeyLists /\ Extends(s, t) /\ \A k : MarkedIn(s, k) => MarkedIn(t, k)
  BY <1>1, <1>5, <1>6, MarkedKept
<1>8. \A k \in revoked'[p] : MarkedIn(t, k)
  BY <1>3, <1>7 DEF TurnsInv, RevokedAreMarked
<1>9. revoked' \in [Pool -> SUBSET Key]
  BY <1>3 DEF TurnsInv, KeysShape
<1> QED
  BY <1>3, <1>7, <1>8, <1>9, ChangedTurns

\* A key of a list goes; the others close up and keep their marks.
LEMMA RemovedIs ==
    ASSUME NEW s \in KeyLists, NEW i \in DOMAIN s
    PROVE  /\ RemoveAt(s, i) \in KeyLists
           /\ \A k : k # s[i].key /\ MarkedIn(s, k) => MarkedIn(RemoveAt(s, i), k)
<1> DEFINE a == SubSeq(s, 1, i - 1)
           b == SubSeq(s, i + 1, Len(s))
           t == a \o b
           L == Len(s)
           from(n) == IF n < i THEN n ELSE n + 1
<1>1. s \in Seq(KeyEntry) /\ L \in Nat /\ DOMAIN s = 1..L /\ i \in 1..L
      /\ \A m, n \in DOMAIN s : s[m].key = s[n].key => m = n
  BY KeyListIs
<1>2. /\ a \in Seq(KeyEntry) /\ Len(a) = i - 1 /\ \A n \in 1..i - 1 : a[n] = s[n]
  BY <1>1
<1>3. /\ b \in Seq(KeyEntry) /\ Len(b) = L - i /\ \A n \in 1..L - i : b[n] = s[i + n]
  BY <1>1
<1> HIDE DEF a, b, L
<1>4. /\ t \in Seq(KeyEntry) /\ Len(t) = L - 1
      /\ \A n \in 1..L - 1 : t[n] = IF n <= i - 1 THEN a[n] ELSE b[n - (i - 1)]
  <2>1. /\ t \in Seq(KeyEntry) /\ Len(t) = Len(a) + Len(b)
        /\ \A n \in 1..Len(a) + Len(b) : t[n] = IF n <= Len(a) THEN a[n] ELSE b[n - Len(a)]
    BY <1>2, <1>3, ConcatProperties
  <2>2. Len(a) + Len(b) = L - 1
    BY <1>1, <1>2, <1>3
  <2> HIDE DEF t
  <2> QED
    BY <1>2, <2>1, <2>2
<1>5. \A n \in 1..L - 1 : from(n) \in 1..L /\ t[n] = s[from(n)]
  <2> SUFFICES ASSUME NEW n \in 1..L - 1 PROVE from(n) \in 1..L /\ t[n] = s[from(n)]
    OBVIOUS
  <2>1. CASE n < i
    BY <1>1, <1>2, <1>4, <2>1
  <2>2. CASE ~(n < i)
    <3>1. n - (i - 1) \in 1..L - i /\ i + (n - (i - 1)) = n + 1
      BY <1>1, <2>2
    <3>2. t[n] = b[n - (i - 1)]
      BY <1>1, <1>4, <2>2
    <3>3. b[n - (i - 1)] = s[n + 1]
      BY <1>3, <3>1
    <3> HIDE DEF t
    <3> QED
      BY <1>1, <2>2, <3>2, <3>3
  <2> QED
    BY <2>1, <2>2
<1>6. RemoveAt(s, i) = t
  BY DEF RemoveAt, a, b, L
<1> HIDE DEF t
<1>7. DOMAIN t = 1..L - 1
  BY <1>1, <1>4
<1>8. ASSUME NEW m \in DOMAIN t, NEW n \in DOMAIN t, t[m].key = t[n].key PROVE m = n
  <2>1. from(m) = from(n)
    <3> HIDE DEF from
    <3> QED
      BY <1>1, <1>5, <1>7, <1>8
  <2> QED
    BY <1>1, <1>7, <2>1
<1>9. ASSUME NEW k, k # s[i].key, MarkedIn(s, k) PROVE MarkedIn(t, k)
  <2>1. PICK j \in DOMAIN s : s[j].key = k /\ s[j].revoked
    BY <1>9 DEF MarkedIn
  <2>2. j # i
    BY <1>9, <2>1
  <2>3. PICK n \in 1..L - 1 : from(n) = j
    <3> DEFINE n == IF j < i THEN j ELSE j - 1
    <3>1. n \in 1..L - 1 /\ from(n) = j
      BY <1>1, <2>2
    <3> QED
      BY <3>1
  <2>4. t[n] = s[j]
    BY <1>5, <2>3
  <2> QED
    BY <1>7, <2>1, <2>4 DEF MarkedIn
<1> QED
  BY <1>4, <1>6, <1>8, <1>9 DEF KeyLists

\* Nobody waits for a turn of a list whose positions have moved.
LEMMA RemoveTurns ==
    ASSUME TurnsInv, NEW p \in Pool, NEW i \in DOMAIN keys[p], RemoveKey(p, i)
    PROVE  TurnsInv'
<1> DEFINE s == keys[p]
           t == RemoveAt(s, i)
           x == s[i].key
           n == IF Len(s) = 1 THEN 0 ELSE index[p]
<1>1. /\ s \in KeyLists /\ index \in [Pool -> Nat] /\ revoked \in [Pool -> SUBSET Key]
      /\ waiting \in [Pool -> [Key -> SUBSET Key]]
  BY DEF TurnsInv, KeysShape
<1>2. t \in KeyLists /\ \A k : k # x /\ MarkedIn(s, k) => MarkedIn(t, k)
  BY <1>1, RemovedIs
<1>3. /\ keys' = [keys EXCEPT ![p] = t] /\ Written
      /\ index' = [index EXCEPT ![p] = n]
      /\ revoked' = [revoked EXCEPT ![p] = revoked[p] \ {x}]
      /\ waiting' = [waiting EXCEPT ![p] = [k \in Key |-> {}]]
  BY DEF RemoveKey, Change
<1>4. n \in Nat
  BY <1>1
<1> HIDE DEF t, n, x
<1>5. keys' \in [Pool -> KeyLists] /\ keys'[p] = t /\ \A q \in Pool : q # p => keys'[q] = keys[q]
  BY <1>2, <1>3, OneList
<1>6. index' \in [Pool -> Nat] /\ \A q \in Pool : q # p => index'[q] = index[q]
  BY <1>1, <1>3, <1>4
<1>7. /\ revoked' \in [Pool -> SUBSET Key] /\ revoked'[p] = revoked[p] \ {x}
      /\ \A q \in Pool : q # p => revoked'[q] = revoked[q]
  BY <1>1, <1>3
<1>8. /\ waiting' \in [Pool -> [Key -> SUBSET Key]] /\ \A k \in Key : waiting'[p][k] = {}
      /\ \A q \in Pool : q # p => waiting'[q] = waiting[q]
  BY <1>1, <1>3
<1>9. \A q \in Pool : \A k \in revoked'[q] : MarkedIn(keys'[q], k)
  <2>1. \A q \in Pool : \A k \in revoked[q] : MarkedIn(keys[q], k)
    BY DEF TurnsInv, RevokedAreMarked
  <2> SUFFICES ASSUME NEW q \in Pool, NEW k \in revoked'[q] PROVE MarkedIn(keys'[q], k)
    OBVIOUS
  <2>2. CASE q = p
    BY <1>2, <1>5, <1>7, <2>1, <2>2
  <2>3. CASE q # p
    BY <1>5, <1>7, <2>1, <2>3
  <2> QED
    BY <2>2, <2>3
<1>10. file' \in [Pool -> SavedLists] /\ RevokedAreMarked'
  BY <1>3, <1>5, <1>9, WrittenMarks
<1>11. TurnsAreKept'
  <2> SUFFICES ASSUME NEW q \in Pool, NEW k \in Key, NEW l \in waiting'[q][k]
               PROVE  Precedes(q, l, k)'
    BY DEF TurnsAreKept
  <2>1. q # p /\ l \in waiting[q][k]
    BY <1>8
  <2>2. Precedes(q, l, k)
    BY <2>1 DEF TurnsInv, TurnsAreKept
  <2> QED
    BY <1>5, <1>6, <2>1, <2>2 DEF Precedes
<1> QED
  BY <1>5, <1>6, <1>7, <1>8, <1>10, <1>11 DEF TurnsInv, KeysShape

\* What the file does not know of ends with the process; the rest comes back.
LEMMA StartTurns ==
    ASSUME TurnsInv, Start
    PROVE  TurnsInv'
<1>1. file \in [Pool -> SavedLists] /\ revoked \in [Pool -> SUBSET Key]
  BY DEF TurnsInv, KeysShape
<1>2. ASSUME NEW p \in Pool
      PROVE  /\ Loaded(FromEnvironment(p), file[p]) \in KeyLists
             /\ \A k : MarkedIn(file[p], k) => MarkedIn(Loaded(FromEnvironment(p), file[p]), k)
  <2>1. file[p] \in Seq(SavedEntry) /\ \A i, j \in DOMAIN file[p] : file[p][i].key = file[p][j].key => i = j
    BY <1>1 DEF SavedLists
  <2> QED
    BY <2>1, EnvironmentIsKeyList, AddedAllIs DEF Loaded
<1>3. /\ keys' = [p \in Pool |-> Loaded(FromEnvironment(p), file[p])]
      /\ index' = [p \in Pool |-> 0]
      /\ waiting' = [p \in Pool |-> [k \in Key |-> {}]]
      /\ revoked' = IF unsaved THEN [p \in Pool |-> {}] ELSE revoked
      /\ UNCHANGED <<file, unsaved>>
  BY DEF Start
<1>4. KeysShape'
  <2>1. keys' \in [Pool -> KeyLists]
    BY <1>2, <1>3
  <2>2. revoked' \in [Pool -> SUBSET Key]
    BY <1>1, <1>3
  <2> QED
    BY <1>1, <1>3, <2>1, <2>2 DEF KeysShape
<1>5. TurnsAreKept'
  BY <1>3 DEF TurnsAreKept
<1>6. RevokedAreMarked'
  <2> SUFFICES ASSUME NEW p \in Pool, NEW k \in revoked'[p]
               PROVE  MarkedIn(keys'[p], k) /\ MarkedIn(file'[p], k)
    BY DEF RevokedAreMarked
  <2>1. ~unsaved /\ k \in revoked[p]
    BY <1>3
  <2>2. MarkedIn(file[p], k)
    BY <2>1 DEF TurnsInv, RevokedAreMarked
  <2> QED
    BY <1>2, <1>3, <2>2
<1> QED
  BY <1>4, <1>5, <1>6 DEF TurnsInv

LEMMA InitTurnsInv == PoolInit => TurnsInv
<1> SUFFICES ASSUME PoolInit PROVE TurnsInv
  OBVIOUS
<1> DEFINE none == <<>>
<1>1. none \in SavedLists
  BY DEF SavedLists
<1>2. file = [p \in Pool |-> none]
  BY DEF PoolInit
<1> HIDE DEF none
<1>3. file \in [Pool -> SavedLists]
  BY <1>1, <1>2
<1>4. keys \in [Pool -> KeyLists]
  BY EnvironmentIsKeyList DEF PoolInit
<1>5. /\ index = [p \in Pool |-> 0] /\ revoked = [p \in Pool |-> {}]
      /\ waiting = [p \in Pool |-> [k \in Key |-> {}]]
  BY DEF PoolInit
<1>6. KeysShape
  BY <1>3, <1>4, <1>5 DEF KeysShape
<1> QED
  BY <1>5, <1>6 DEF TurnsInv, TurnsAreKept, RevokedAreMarked

LEMMA NextTurnsInv == TurnsInv /\ [PoolNext]_poolVars => TurnsInv'
<1>1. ASSUME TurnsInv, UNCHANGED poolVars PROVE TurnsInv'
  BY <1>1 DEF poolVars, TurnsInv, KeysShape, TurnsAreKept, Precedes, RevokedAreMarked
<1>2. ASSUME TurnsInv, PoolNext PROVE TurnsInv'
  <2>1. CASE Start
    BY <1>2, <2>1, StartTurns
  <2>2. ASSUME NEW p \in Pool, NEW i \in DOMAIN keys[p],
               \/ GetKey(p, i) \/ Forget(p, i) \/ ToggleRevoke(p, i) \/ RemoveKey(p, i)
               \/ \E q \in Quota \cup {0} : UpdateMeta(p, i, q)
        PROVE  TurnsInv'
    BY <1>2, <2>2, HandedTurns, ForgetTurns, ToggleTurns, RemoveTurns, QuotaTurns
  <2>3. ASSUME NEW p \in Pool, NEW k \in Key,
               \/ Report429(p, k) \/ ReportSuccess(p, k) \/ CoolDown(p, k)
               \/ \E q \in Quota \cup {0} : AddKey(p, k, q)
        PROVE  TurnsInv'
    BY <1>2, <2>3, CoolingTurns, AddTurns DEF Report429, ReportSuccess, CoolDown
  <2> QED
    BY <1>2, <2>1, <2>2, <2>3 DEF PoolNext
<1> QED
  BY <1>1, <1>2

\* Who waits for k comes before k, and the search takes the first that it may.
LEMMA HandedInTurn ==
    ASSUME TurnsInv, NEW p \in Pool, NEW i \in DOMAIN keys[p], GetKey(p, i)
    PROVE  waiting[p][keys[p][i].key] = {} /\ keys[p][i].key \notin revoked[p]
<1> DEFINE s == keys[p]
<1>1. /\ s \in KeyLists /\ index[p] \in Nat
      /\ \A a, b \in DOMAIN s : s[a].key = s[b].key => a = b
      /\ s[i].key \in Key
  BY KeyListIs, EntryFields DEF TurnsInv, KeysShape
<1>2. i = Pick(s, index[p]) /\ i > 0
  BY DEF GetKey
<1>3. Usable(s[i]) /\ (index[p] < Len(s) => \A j \in DOMAIN s : Usable(s[j]) => ~Sooner(index[p], j, i))
  BY <1>1, <1>2, PickIs
<1>4. ASSUME NEW l \in waiting[p][s[i].key] PROVE FALSE
  <2>1. Precedes(p, l, s[i].key)
    BY <1>1 DEF TurnsInv, TurnsAreKept
  <2>2. PICK a \in DOMAIN s, b \in DOMAIN s :
            /\ index[p] < Len(s) /\ s[a].key = s[i].key /\ Usable(s[b]) /\ Sooner(index[p], b, a)
    BY <2>1 DEF Precedes
  <2> QED
    BY <1>1, <1>3, <2>2
<1>5. ASSUME s[i].key \in revoked[p] PROVE FALSE
  <2>1. PICK a \in DOMAIN s : s[a].key = s[i].key /\ s[a].revoked
    BY <1>5 DEF TurnsInv, RevokedAreMarked, MarkedIn
  <2> QED
    BY <1>1, <1>3, <2>1 DEF Usable
<1> QED
  BY <1>4, <1>5

\* Keys are handed out in turn whatever cools down, is revoked, added, removed
\* or over quota meanwhile, and a revoked key neither by get_key nor after a
\* restart that put it together again (key_pool.py: get_key, toggle_revoke_key,
\* _load_persisted_keys), for any keys, quotas and providers.
THEOREM Turns == PoolSpec => KeysTakeTurns
<1>1. PoolSpec => []TurnsInv
  BY InitTurnsInv, NextTurnsInv, PTL DEF PoolSpec
<1>2. TurnsInv => [\A p \in Pool : \A i \in DOMAIN keys[p] :
                      GetKey(p, i) => waiting[p][keys[p][i].key] = {}]_poolVars
  BY HandedInTurn
<1>3. TurnsInv => [\A p \in Pool : \A i \in DOMAIN keys[p] :
                      GetKey(p, i) => keys[p][i].key \notin revoked[p]]_poolVars
  BY HandedInTurn
<1> QED
  BY <1>1, <1>2, <1>3, PTL DEF KeysTakeTurns, EveryKeyHasItsTurn, RevokedStaysOut

-----------------------------------------------------------------------------
(* Who may be asked. *)

Entries == [provider: Provider, key: Key \cup {NoKeyNeeded}]

Gathers == [keys: [Pool -> KeyLists], index: [Pool -> Nat], list: Seq(Entries)]

LEMMA WithKept ==
    ASSUME NEW g \in Gathers, NEW p \in Provider
    PROVE  With(g, p) \in Gathers
<1> DEFINE s == g.keys[p]
           i == Pick(s, g.index[p])
<1>1. /\ g.keys \in [Pool -> KeyLists] /\ g.index \in [Pool -> Nat] /\ g.list \in Seq(Entries)
      /\ g = [keys |-> g.keys, index |-> g.index, list |-> g.list]
  BY DEF Gathers
<1>2. s \in KeyLists /\ p \in Pool /\ i \in 0..Len(s) /\ Len(s) \in Nat
  <2>1. s \in KeyLists /\ p \in Pool /\ g.index[p] \in Nat
    BY <1>1, RequestsAssumption
  <2>2. i \in 0..Len(s)
    <3> HIDE DEF s
    <3> QED
      BY <2>1, PickIs
  <2>3. Len(s) \in Nat
    BY <2>1 DEF KeyLists
  <2> QED
    BY <2>1, <2>2, <2>3
<1>3. ASSUME NEW e \in Entries PROVE Append(g.list, e) \in Seq(Entries)
  BY <1>1, AppendProperties
<1>4. CASE With(g, p) = g
  BY <1>4
<1>5. CASE With(g, p) = [g EXCEPT !.list = Append(@, [provider |-> p, key |-> NoKeyNeeded])]
  <2> DEFINE e == [provider |-> p, key |-> NoKeyNeeded]
  <2>1. e \in Entries
    BY DEF Entries
  <2> HIDE DEF e
  <2>2. With(g, p) = [g EXCEPT !.list = Append(g.list, e)]
    BY <1>5 DEF e
  <2> HIDE DEF s, i
  <2>3. [g EXCEPT !.list = Append(g.list, e)] \in Gathers
    BY <1>3, <2>1 DEF Gathers
  <2> QED
    BY <2>2, <2>3
<1>6. CASE i # 0 /\ With(g, p) = [keys |-> [g.keys EXCEPT ![p][i] = Used(@)],
                                  index |-> [g.index EXCEPT ![p] = NextIndex(s, i)],
                                  list |-> Append(g.list, [provider |-> p, key |-> s[i].key])]
  <2> DEFINE t == [s EXCEPT ![i] = Used(s[i])]
             e == [provider |-> p, key |-> s[i].key]
  <2> HIDE DEF i
  <2>1. i \in 1..Len(s) /\ i \in DOMAIN s /\ s[i] \in KeyEntry /\ \A j \in DOMAIN s : s[j] \in KeyEntry
    BY <1>2, <1>6 DEF KeyLists
  <2>2. Used(s[i]) \in KeyEntry /\ Used(s[i]).key = s[i].key
    BY <2>1, EntryChanged
  <2>3. t \in KeyLists
    <3>1. DOMAIN t = DOMAIN s /\ t \in [DOMAIN s -> KeyEntry] /\ \A j \in DOMAIN s : t[j].key = s[j].key
      <4> HIDE DEF s
      <4> QED
        BY <2>1, <2>2
    <3> HIDE DEF s, t
    <3> QED
      BY <1>2, <3>1, KeyListKept
  <2>4. e \in Entries
    BY <2>1, EntryFields DEF Entries
  <2>5. NextIndex(s, i) \in Nat
    <3> HIDE DEF s
    <3>1. Len(s) \in Nat \ {0} /\ i \in Nat
      BY <1>2, <2>1
    <3> QED
      BY <3>1 DEF NextIndex
  <2>6. [g.keys EXCEPT ![p][i] = Used(@)] = [g.keys EXCEPT ![p] = t]
    OBVIOUS
  <2> HIDE DEF e, t, s
  <2>7. /\ [g.keys EXCEPT ![p] = t] \in [Pool -> KeyLists]
        /\ [g.index EXCEPT ![p] = NextIndex(s, i)] \in [Pool -> Nat]
        /\ Append(g.list, e) \in Seq(Entries)
    BY <1>1, <1>2, <1>3, <2>3, <2>4, <2>5
  <2>8. With(g, p) = [keys |-> [g.keys EXCEPT ![p] = t], index |-> [g.index EXCEPT ![p] = NextIndex(s, i)],
                      list |-> Append(g.list, e)]
    BY <1>6, <2>6 DEF e
  <2> QED
    BY <2>7, <2>8 DEF Gathers
<1> QED
  BY <1>4, <1>5, <1>6 DEF With

LEMMA AllKept ==
    ASSUME keys \in [Pool -> KeyLists], index \in [Pool -> Nat], NEW r \in Request, plan[r].list \in Seq(Provider)
    PROVE  All(r) \in Gathers
<1> DEFINE list == plan[r].list
           n == Len(list)
           step(g, i) == With(g, list[i])
           Entry1(f, i) == IF i = 0 THEN Gathered ELSE step(f[i - 1], i)
           Computes(f) == f = [i \in 0..n |-> Entry1(f, i)]
           F == [i \in 1..n |-> [g \in Gathers |-> step(g, i)]]
<1>1. n \in Nat /\ \A i \in 1..n : list[i] \in Provider
  OBVIOUS
<1>2. Gathered \in Gathers
  BY DEF Gathered, Gathers
<1>3. \A g \in Gathers : \A i \in 1..n : step(g, i) \in Gathers
  BY <1>1, WithKept
<1>4. All(r) = (CHOOSE f : Computes(f))[n]
  BY DEF All
<1> HIDE DEF step, n
<1>5. F \in [1..n -> [Gathers -> Gathers]]
  BY <1>3
<1>6. \A i \in 1..n : \A g \in Gathers : F[i][g] = step(g, i)
  OBVIOUS
<1>7. \E f : Computes(f)
  <2> HIDE DEF F
  <2>1. n \in Nat
    BY <1>1
  <2>2. PICK f : Folding(f, n, Gathers, Gathered, F)
    BY ONLY <2>1, <1>2, <1>5, Folds
  <2>3. f \in [0..n -> Gathers] /\ f[0] = Gathered /\ \A i \in 1..n : f[i] = F[i][f[i - 1]]
    BY <2>2 DEF Folding
  <2>4. ASSUME NEW i \in 0..n PROVE f[i] = Entry1(f, i)
    <3>1. CASE i = 0
      BY <2>3, <3>1
    <3>2. CASE i # 0
      <4>1. i \in 1..n /\ i - 1 \in 0..n
        BY <2>1, <3>2
      <4> QED
        BY <1>6, <2>3, <3>2, <4>1
    <3> QED
      BY <3>1, <3>2
  <2>5. f = [i \in 0..n |-> Entry1(f, i)]
    <3> HIDE DEF Entry1
    <3> QED
      BY <2>3, <2>4
  <2> QED
    BY <2>5
<1> DEFINE h == CHOOSE f : Computes(f)
<1>8. \A i \in 0..n : h[i] = Entry1(h, i)
  <2>1. Computes(h)
    <3> HIDE DEF Computes
    <3> QED
      BY <1>7
  <2> HIDE DEF h, Entry1
  <2> QED
    BY <2>1
<1>9. h[n] \in Gathers
  <2> HIDE DEF h
  <2>1. h[0] \in Gathers
    <3>1. 0 \in 0..n /\ Entry1(h, 0) = Gathered
      BY <1>1
    <3> HIDE DEF Entry1
    <3> QED
      BY <1>2, <1>8, <3>1
  <2>2. ASSUME NEW i \in 1..n, h[i - 1] \in Gathers PROVE h[i] \in Gathers
    <3>1. i \in 0..n /\ i # 0
      BY <1>1
    <3>2. Entry1(h, i) = step(h[i - 1], i)
      BY <3>1
    <3> HIDE DEF Entry1
    <3> QED
      BY <1>3, <1>8, <2>2, <3>1, <3>2
  <2> QED
    BY <1>1, <2>1, <2>2, FoldStays
<1> QED
  BY <1>4, <1>9

LEMMA FirstKept ==
    ASSUME keys \in [Pool -> KeyLists], index \in [Pool -> Nat], NEW r \in Request, plan[r].list \in Seq(Provider)
    PROVE  First(r) \in Gathers
<1> DEFINE list == plan[r].list
           n == Len(list)
           step(g, i) == IF g.list = <<>> THEN With(g, list[i]) ELSE g
           Entry1(f, i) == IF i = 0 THEN Gathered ELSE step(f[i - 1], i)
           Computes(f) == f = [i \in 0..n |-> Entry1(f, i)]
           F == [i \in 1..n |-> [g \in Gathers |-> step(g, i)]]
<1>1. n \in Nat /\ \A i \in 1..n : list[i] \in Provider
  OBVIOUS
<1>2. Gathered \in Gathers
  BY DEF Gathered, Gathers
<1>3. \A g \in Gathers : \A i \in 1..n : step(g, i) \in Gathers
  BY <1>1, WithKept
<1>4. First(r) = (CHOOSE f : Computes(f))[n]
  BY DEF First
<1> HIDE DEF step, n
<1>5. F \in [1..n -> [Gathers -> Gathers]]
  BY <1>3
<1>6. \A i \in 1..n : \A g \in Gathers : F[i][g] = step(g, i)
  OBVIOUS
<1>7. \E f : Computes(f)
  <2> HIDE DEF F
  <2>1. n \in Nat
    BY <1>1
  <2>2. PICK f : Folding(f, n, Gathers, Gathered, F)
    BY ONLY <2>1, <1>2, <1>5, Folds
  <2>3. f \in [0..n -> Gathers] /\ f[0] = Gathered /\ \A i \in 1..n : f[i] = F[i][f[i - 1]]
    BY <2>2 DEF Folding
  <2>4. ASSUME NEW i \in 0..n PROVE f[i] = Entry1(f, i)
    <3>1. CASE i = 0
      BY <2>3, <3>1
    <3>2. CASE i # 0
      <4>1. i \in 1..n /\ i - 1 \in 0..n
        BY <2>1, <3>2
      <4> QED
        BY <1>6, <2>3, <3>2, <4>1
    <3> QED
      BY <3>1, <3>2
  <2>5. f = [i \in 0..n |-> Entry1(f, i)]
    <3> HIDE DEF Entry1
    <3> QED
      BY <2>3, <2>4
  <2> QED
    BY <2>5
<1> DEFINE h == CHOOSE f : Computes(f)
<1>8. \A i \in 0..n : h[i] = Entry1(h, i)
  <2>1. Computes(h)
    <3> HIDE DEF Computes
    <3> QED
      BY <1>7
  <2> HIDE DEF h, Entry1
  <2> QED
    BY <2>1
<1>9. h[n] \in Gathers
  <2> HIDE DEF h
  <2>1. h[0] \in Gathers
    <3>1. 0 \in 0..n /\ Entry1(h, 0) = Gathered
      BY <1>1
    <3> HIDE DEF Entry1
    <3> QED
      BY <1>2, <1>8, <3>1
  <2>2. ASSUME NEW i \in 1..n, h[i - 1] \in Gathers PROVE h[i] \in Gathers
    <3>1. i \in 0..n /\ i # 0
      BY <1>1
    <3>2. Entry1(h, i) = step(h[i - 1], i)
      BY <3>1
    <3> HIDE DEF Entry1
    <3> QED
      BY <1>3, <1>8, <2>2, <3>1, <3>2
  <2> QED
    BY <1>1, <2>1, <2>2, FoldStays
<1> QED
  BY <1>4, <1>9

-----------------------------------------------------------------------------
(* What a request sends. *)

Phases == {"gathering", "queued", "trying", "running", "racing", "won", "burying", "done", "failed"}

Lanes == [step: Steps, attempt: 0..max_retries + 1, n: Nat]

SentChunk == [place: Nat, attempt: Nat, n: Nat]

AttemptShape ==
    /\ phase \in [Request -> Phases]
    /\ at \in [Request -> Nat]
    /\ lane \in [Request -> [1..2 -> Lanes]]
    /\ sent \in [Request -> Seq(SentChunk)]

\* Only while the race is on two generators are alive.
OneLane(r) ==
    /\ phase[r] = "running" => lane[r][2].step = "none"
    /\ phase[r] = "won" => \E l \in 1..2 : lane[r][l].step = "none"
    /\ phase[r] \notin {"running", "won", "racing"} => \A l \in 1..2 : lane[r][l].step = "none"

\* The first n chunks of one attempt.
Beginning(s, place, attempt, n) ==
    /\ n >= 1 /\ Len(s) = n
    /\ \A i \in 1..n : s[i] = [place |-> place, attempt |-> attempt, n |-> i]

\* What a request has sent last is what its stream has given so far; what it
\* was given in a race is not sent before the race is settled.
StreamIsSent(r) ==
    \A l \in 1..2 :
        /\ lane[r][l].step = "streaming" =>
              phase[r] # "racing" /\ Beginning(sent[r], Place(r, l), lane[r][l].attempt, lane[r][l].n)
        /\ lane[r][l].step = "first" => phase[r] = "racing" /\ lane[r][l].n = 1
        /\ lane[r][l].step = "backoff" => lane[r][l].attempt <= max_retries

AnswerIsWhole(r) ==
    phase[r] = "done" => \E place, attempt, n \in Nat : Beginning(sent[r], place, attempt, n)

AttemptsOf(r) == OneLane(r) /\ StreamIsSent(r) /\ AnswerIsWhole(r)

AttemptInv == AttemptShape /\ \A r \in Request : AttemptsOf(r)

LEMMA InitAttemptInv == Init => AttemptInv
<1> SUFFICES ASSUME Init PROVE AttemptInv
  OBVIOUS
<1> USE RequestsAssumption
<1>1. AttemptShape
  BY DEF Init, AttemptShape, Phases, Lanes, NoLane, Steps
<1>2. \A r \in Request : AttemptsOf(r)
  BY DEF Init, AttemptsOf, OneLane, StreamIsSent, AnswerIsWhole, NoLane
<1> QED
  BY <1>1, <1>2 DEF AttemptInv

\* A request is not disturbed by what leaves it alone.
LEMMA OthersKeep ==
    ASSUME NEW r \in Request, AttemptsOf(r), phase'[r] = phase[r], at'[r] = at[r],
           lane'[r] = lane[r], sent'[r] = sent[r]
    PROVE  AttemptsOf(r)'
<1>1. OneLane(r)'
  BY DEF AttemptsOf, OneLane
<1>2. ASSUME NEW l \in 1..2 PROVE Place(r, l)' = Place(r, l)
  BY DEF Place
<1>3. StreamIsSent(r)'
  BY <1>2 DEF AttemptsOf, StreamIsSent, Beginning
<1>4. AnswerIsWhole(r)'
  BY DEF AttemptsOf, AnswerIsWhole, Beginning
<1> QED
  BY <1>1, <1>3, <1>4 DEF AttemptsOf

LEMMA OneMoves ==
    ASSUME AttemptInv, AttemptShape', NEW r \in Request,
           \A q \in Request \ {r} : /\ phase'[q] = phase[q] /\ at'[q] = at[q]
                                    /\ lane'[q] = lane[q] /\ sent'[q] = sent[q],
           AttemptsOf(r)'
    PROVE  AttemptInv'
BY OthersKeep DEF AttemptInv

LEMMA LaneMoves ==
    ASSUME AttemptShape, NEW r \in Request, NEW l \in 1..2, NEW s \in Steps, NEW n \in Nat, Lane(r, l, s, n)
    PROVE  /\ lane' \in [Request -> [1..2 -> Lanes]]
           /\ lane'[r][l] = [step |-> s, attempt |-> lane[r][l].attempt, n |-> n]
           /\ \A m \in 1..2 : m # l => lane'[r][m] = lane[r][m]
           /\ \A q \in Request : q # r => lane'[q] = lane[q]
<1>1. lane[r] \in [1..2 -> Lanes] /\ lane[r][l] \in Lanes
  BY DEF AttemptShape
<1>3. lane' = [lane EXCEPT ![r] = [lane[r] EXCEPT ![l] = [step |-> s, attempt |-> lane[r][l].attempt, n |-> n]]]
  BY DEF Lane
<1>4. [step |-> s, attempt |-> lane[r][l].attempt, n |-> n] \in Lanes
  BY <1>1 DEF Lanes
<1> QED
  BY <1>1, <1>3, <1>4 DEF AttemptShape

LEMMA SendMoves ==
    ASSUME AttemptShape, NEW r \in Request, NEW l \in 1..2, NEW n \in Nat, Send(r, l, n), n >= 1,
           n > 1 => Beginning(sent[r], Place(r, l), lane[r][l].attempt, n - 1)
    PROVE  /\ sent' \in [Request -> Seq(SentChunk)]
           /\ Beginning(sent'[r], Place(r, l), lane[r][l].attempt, n)
           /\ \A q \in Request : q # r => sent'[q] = sent[q]
<1> DEFINE c == [place |-> Place(r, l), attempt |-> lane[r][l].attempt, n |-> n]
<1>1. Place(r, l) \in Nat /\ lane[r][l].attempt \in Nat
  BY RequestsAssumption DEF AttemptShape, Lanes, Place
<1>2. c \in SentChunk /\ sent[r] \in Seq(SentChunk)
  BY <1>1 DEF SentChunk, AttemptShape
<1>3. sent' = [sent EXCEPT ![r] = IF n = 1 THEN <<c>> ELSE Append(sent[r], c)]
  BY DEF Send
<1> HIDE DEF c
<1>4. CASE n = 1
  <2>1. <<c>> \in Seq(SentChunk) /\ Len(<<c>>) = 1 /\ <<c>>[1] = c
    BY <1>2
  <2>2. sent'[r] = <<c>>
    BY <1>3, <1>4 DEF AttemptShape
  <2>3. Beginning(<<c>>, Place(r, l), lane[r][l].attempt, n)
    BY <2>1, <1>4 DEF Beginning, c
  <2> QED
    BY <1>3, <1>4, <2>1, <2>2, <2>3 DEF AttemptShape
<1>5. CASE n > 1
  <2> DEFINE t == Append(sent[r], c)
  <2>1. /\ t \in Seq(SentChunk) /\ Len(t) = Len(sent[r]) + 1
        /\ \A i \in 1..Len(sent[r]) : t[i] = sent[r][i]
        /\ t[Len(sent[r]) + 1] = c
    BY <1>2, AppendProperties
  <2> HIDE DEF t
  <2>2. sent'[r] = t /\ \A q \in Request : q # r => sent'[q] = sent[q]
    BY <1>3, <1>5 DEF AttemptShape, t
  <2>3. Beginning(t, Place(r, l), lane[r][l].attempt, n)
    BY <1>5, <2>1 DEF Beginning, c
  <2>4. sent' \in [Request -> Seq(SentChunk)]
    BY <1>3, <1>5, <2>1 DEF AttemptShape, t
  <2> QED
    BY <2>2, <2>3, <2>4
<1> QED
  BY <1>4, <1>5

\* What leaves the generators and what was sent alone, and ends or begins nothing.
LEMMA MovesOn ==
    ASSUME AttemptInv, NEW r \in Request, NEW to \in Phases \ {"running", "racing", "won", "done"},
           phase[r] \notin {"running", "racing", "won"}, Goes(r, to),
           UNCHANGED <<at, lane, sent>>
    PROVE  AttemptInv'
<1>1. AttemptShape'
  BY DEF AttemptInv, AttemptShape, Goes
<1>2. phase'[r] = to /\ \A q \in Request : q # r => phase'[q] = phase[q]
  BY DEF AttemptInv, AttemptShape, Goes
<1>3. AttemptsOf(r)'
  <2>1. \A l \in 1..2 : lane[r][l].step = "none"
    BY DEF AttemptInv, AttemptsOf, OneLane
  <2> QED
    BY <2>1, <1>2 DEF AttemptsOf, OneLane, StreamIsSent, AnswerIsWhole
<1> QED
  BY <1>1, <1>2, <1>3, OneMoves

\* Both generators are gone.
LEMMA LanesEnd ==
    ASSUME AttemptInv, NEW r \in Request, NEW to \in Phases \ {"running", "racing", "won", "done"},
           Goes(r, to), lane' = [lane EXCEPT ![r] = NoLanes], UNCHANGED sent,
           at' \in [Request -> Nat], \A q \in Request : q # r => at'[q] = at[q]
    PROVE  AttemptInv'
<1>1. /\ lane' \in [Request -> [1..2 -> Lanes]]
      /\ \A l \in 1..2 : lane'[r][l].step = "none"
      /\ \A q \in Request : q # r => lane'[q] = lane[q]
  <2>1. NoLane \in Lanes /\ NoLane.step = "none"
    BY RequestsAssumption DEF NoLane, Lanes, Steps
  <2>2. NoLanes \in [1..2 -> Lanes] /\ \A l \in 1..2 : NoLanes[l].step = "none"
    BY <2>1 DEF NoLanes
  <2> QED
    BY <2>2 DEF AttemptInv, AttemptShape
<1>2. AttemptShape'
  BY <1>1 DEF AttemptInv, AttemptShape, Goes
<1>3. phase'[r] = to /\ \A q \in Request : q # r => phase'[q] = phase[q]
  BY DEF AttemptInv, AttemptShape, Goes
<1>4. AttemptsOf(r)'
  BY <1>1, <1>3 DEF AttemptsOf, OneLane, StreamIsSent, AnswerIsWhole
<1> QED
  BY <1>1, <1>2, <1>3, <1>4, OneMoves

\* A generator goes on without sending anything.
LEMMA LaneWaits ==
    ASSUME AttemptInv, NEW r \in Request, NEW l \in 1..2, lane[r][l].step # "none",
           UNCHANGED <<phase, at, sent>>,
           lane' \in [Request -> [1..2 -> Lanes]],
           \A m \in 1..2 : m # l => lane'[r][m] = lane[r][m],
           \A q \in Request : q # r => lane'[q] = lane[q],
           lane'[r][l].step \in {"asking", "backoff", "given up"}
               \/ (lane'[r][l].step = "first" /\ lane'[r][l].n = 1 /\ phase[r] = "racing"),
           lane'[r][l].step = "backoff" => lane'[r][l].attempt <= max_retries
    PROVE  AttemptInv'
<1>1. AttemptShape'
  BY DEF AttemptInv, AttemptShape
<1>2. OneLane(r)'
  <2>1. OneLane(r)
    BY DEF AttemptInv, AttemptsOf
  <2>2. \A m \in 1..2 : lane[r][m].step = "none" => lane'[r][m].step = "none"
    OBVIOUS
  <2>3. phase' = phase
    OBVIOUS
  <2>5. 2 \in 1..2
    BY ONLY TRUE
  <2>4. phase[r] = "won" => \E m \in 1..2 : lane'[r][m].step = "none"
    BY <2>1, <2>2 DEF OneLane
  <2> QED
    BY <2>1, <2>2, <2>3, <2>4, <2>5 DEF OneLane
<1>3. ASSUME NEW m \in 1..2 PROVE Place(r, m)' = Place(r, m)
  BY DEF Place
<1>4. StreamIsSent(r) /\ AnswerIsWhole(r)
  BY DEF AttemptInv, AttemptsOf
<1>5. StreamIsSent(r)'
  <2> SUFFICES ASSUME NEW m \in 1..2
               PROVE  /\ lane'[r][m].step = "streaming" =>
                            phase'[r] # "racing"
                            /\ Beginning(sent'[r], Place(r, m)', lane'[r][m].attempt, lane'[r][m].n)
                      /\ lane'[r][m].step = "first" => phase'[r] = "racing" /\ lane'[r][m].n = 1
                      /\ lane'[r][m].step = "backoff" => lane'[r][m].attempt <= max_retries
    BY DEF StreamIsSent
  <2>1. CASE m = l
    BY <2>1
  <2>2. CASE m # l
    <3>1. lane'[r][m] = lane[r][m] /\ Place(r, m)' = Place(r, m) /\ sent' = sent /\ phase' = phase
      BY <2>2, <1>3
    <3> QED
      BY <3>1, <1>4 DEF StreamIsSent
  <2> QED
    BY <2>1, <2>2
<1>6. AnswerIsWhole(r)'
  BY <1>4 DEF AnswerIsWhole, Beginning
<1>7. AttemptsOf(r)'
  BY <1>2, <1>5, <1>6 DEF AttemptsOf
<1> QED
  BY <1>1, <1>7, OneMoves

\* A generator, the only one, has given a chunk that was sent.
LEMMA LaneSends ==
    ASSUME AttemptInv, NEW r \in Request, NEW l \in 1..2, NEW n \in Nat \ {0},
           NEW to \in {"running", "won"}, phase' = [phase EXCEPT ![r] = to], UNCHANGED at,
           phase[r] \in {"running", "won"} => to = phase[r],
           phase[r] \in {"running", "won", "racing"}, phase[r] = "racing" => to = "won",
           lane' \in [Request -> [1..2 -> Lanes]],
           lane'[r][l] = [step |-> "streaming", attempt |-> lane[r][l].attempt, n |-> n],
           \A m \in 1..2 : m # l => lane'[r][m].step = "none",
           \A q \in Request : q # r => lane'[q] = lane[q],
           to = "running" => l = 1,
           sent' \in [Request -> Seq(SentChunk)],
           Beginning(sent'[r], Place(r, l), lane[r][l].attempt, n),
           \A q \in Request : q # r => sent'[q] = sent[q]
    PROVE  AttemptInv'
<1>1. AttemptShape'
  BY DEF AttemptInv, AttemptShape, Phases
<1>2. phase'[r] = to /\ \A q \in Request : q # r => phase'[q] = phase[q]
  BY DEF AttemptInv, AttemptShape
<1>3. Place(r, l)' = Place(r, l)
  BY <1>2 DEF Place
<1>4. OneLane(r)'
  BY <1>2 DEF OneLane
<1>5. StreamIsSent(r)'
  <2>1. lane'[r][l].step = "streaming" /\ lane'[r][l].attempt = lane[r][l].attempt /\ lane'[r][l].n = n
    OBVIOUS
  <2>2. \A m \in 1..2 : m # l => lane'[r][m].step = "none"
    OBVIOUS
  <2>3. Beginning(sent'[r], Place(r, l)', lane'[r][l].attempt, lane'[r][l].n) /\ phase'[r] # "racing"
    BY <2>1, <1>2, <1>3
  <2> QED
    BY <2>1, <2>2, <2>3 DEF StreamIsSent
<1>6. AnswerIsWhole(r)'
  BY <1>2 DEF AnswerIsWhole
<1>7. AttemptsOf(r)'
  BY <1>4, <1>5, <1>6 DEF AttemptsOf
<1> QED
  BY <1>1, <1>2, <1>7, OneMoves

\* The race or the trying begins.
LEMMA StartsWith ==
    ASSUME AttemptInv, NEW r \in Request, phase[r] \in {"gathering", "queued"}, NEW g, StartWith(r, g),
           UNCHANGED <<at, sent>>
    PROVE  AttemptInv'
<1>1. CASE Goes(r, "racing") /\ lane' = [lane EXCEPT ![r] = [l \in 1..2 |-> NewLane]]
  <2>1. NewLane \in Lanes /\ NewLane.step = "asking"
    BY RequestsAssumption DEF NewLane, Lanes, Steps
  <2>2. /\ lane' \in [Request -> [1..2 -> Lanes]]
        /\ \A l \in 1..2 : lane'[r][l].step = "asking"
        /\ \A q \in Request : q # r => lane'[q] = lane[q]
    BY <1>1, <2>1 DEF AttemptInv, AttemptShape
  <2>3. phase'[r] = "racing" /\ \A q \in Request : q # r => phase'[q] = phase[q]
    BY <1>1 DEF AttemptInv, AttemptShape, Goes
  <2>4. AttemptShape'
    BY <1>1, <2>2 DEF AttemptInv, AttemptShape, Goes, Phases
  <2>5. AttemptsOf(r)'
    BY <2>2, <2>3 DEF AttemptsOf, OneLane, StreamIsSent, AnswerIsWhole
  <2> QED
    BY <2>2, <2>3, <2>4, <2>5, OneMoves
<1>2. CASE Goes(r, "trying") /\ UNCHANGED lane
  BY <1>2, MovesOn DEF Phases
<1> QED
  BY <1>1, <1>2 DEF StartWith

LEMMA TryAttemptInv ==
    ASSUME AttemptInv, NEW r \in Request, Try(r)
    PROVE  AttemptInv'
<1>1. phase[r] = "trying" /\ UNCHANGED sent /\ \A l \in 1..2 : lane[r][l].step = "none"
  BY DEF Try, AttemptInv, AttemptsOf, OneLane
<1>2. CASE at' = [at EXCEPT ![r] = @ + 1] /\ UNCHANGED <<phase, lane>>
  <2>1. AttemptShape' /\ \A q \in Request : q # r => at'[q] = at[q]
    BY <1>1, <1>2 DEF AttemptInv, AttemptShape
  <2>2. AttemptsOf(r)'
    BY <1>1, <1>2 DEF AttemptsOf, OneLane, StreamIsSent, AnswerIsWhole
  <2> QED
    BY <1>1, <1>2, <2>1, <2>2, OneMoves
<1>3. CASE Goes(r, "running") /\ lane' = [lane EXCEPT ![r][1] = NewLane] /\ UNCHANGED at
  <2>1. NewLane \in Lanes /\ NewLane.step = "asking"
    BY RequestsAssumption DEF NewLane, Lanes, Steps
  <2>2. /\ lane' \in [Request -> [1..2 -> Lanes]]
        /\ lane'[r][1].step = "asking" /\ lane'[r][2].step = "none"
        /\ \A q \in Request : q # r => lane'[q] = lane[q]
    BY <1>1, <1>3, <2>1 DEF AttemptInv, AttemptShape
  <2>3. phase'[r] = "running" /\ \A q \in Request : q # r => phase'[q] = phase[q]
    BY <1>3 DEF AttemptInv, AttemptShape, Goes
  <2>4. AttemptShape'
    BY <1>1, <1>3, <2>2 DEF AttemptInv, AttemptShape, Goes, Phases
  <2>5. \A l \in 1..2 : lane'[r][l].step \in {"asking", "none"}
    BY <2>2
  <2>6. AttemptsOf(r)'
    BY <2>2, <2>3, <2>5 DEF AttemptsOf, OneLane, StreamIsSent, AnswerIsWhole
  <2> QED
    BY <1>1, <1>3, <2>2, <2>3, <2>4, <2>6, OneMoves
<1> QED
  BY <1>2, <1>3 DEF Try

LEMMA SettleAttemptInv ==
    ASSUME AttemptInv, NEW r \in Request, Settle(r)
    PROVE  AttemptInv'
<1>1. PICK l \in 1..2 :
        /\ lane[r][l].step = "first"
        /\ lane' = [lane EXCEPT ![r] = [m \in 1..2 |->
              IF m = l THEN [step |-> "streaming", attempt |-> lane[r][m].attempt, n |-> lane[r][m].n] ELSE NoLane]]
        /\ Send(r, l, 1)
  BY DEF Settle
<1> DEFINE c == [step |-> "streaming", attempt |-> lane[r][l].attempt, n |-> 1]
<1>2. phase[r] = "racing" /\ lane[r][l].n = 1 /\ lane[r][l] \in Lanes
  BY <1>1 DEF Settle, AttemptInv, AttemptsOf, StreamIsSent, AttemptShape
<1>3. c \in Lanes
  BY <1>2 DEF Lanes, Steps
<1>4. NoLane \in Lanes /\ NoLane.step = "none"
  BY RequestsAssumption DEF NoLane, Lanes, Steps
<1> HIDE DEF c
<1>5. /\ lane' \in [Request -> [1..2 -> Lanes]]
      /\ lane'[r][l] = c
      /\ \A m \in 1..2 : m # l => lane'[r][m].step = "none"
      /\ \A q \in Request : q # r => lane'[q] = lane[q]
  <2> DEFINE new == [m \in 1..2 |-> IF m = l THEN c ELSE NoLane]
  <2>1. [m \in 1..2 |-> IF m = l THEN [step |-> "streaming", attempt |-> lane[r][m].attempt, n |-> lane[r][m].n]
                        ELSE NoLane] = new
    BY <1>2 DEF c
  <2>2. new \in [1..2 -> Lanes] /\ new[l] = c /\ \A m \in 1..2 : m # l => new[m] = NoLane
    BY <1>3, <1>4
  <2>3. lane' = [lane EXCEPT ![r] = new]
    BY <1>1, <2>1
  <2> HIDE DEF new
  <2> QED
    BY <1>4, <2>2, <2>3 DEF AttemptInv, AttemptShape
<1>6. /\ sent' \in [Request -> Seq(SentChunk)]
      /\ Beginning(sent'[r], Place(r, l), lane[r][l].attempt, 1)
      /\ \A q \in Request : q # r => sent'[q] = sent[q]
  BY <1>1, SendMoves DEF AttemptInv
<1>7. phase' = [phase EXCEPT ![r] = "won"] /\ UNCHANGED at
  BY DEF Settle, Goes
<1>8. lane'[r][l] = [step |-> "streaming", attempt |-> lane[r][l].attempt, n |-> 1]
  BY <1>5 DEF c
<1>9. /\ phase[r] \in {"running", "won", "racing"} /\ (phase[r] \in {"running", "won"} => "won" = phase[r])
      /\ (phase[r] = "racing" => "won" = "won") /\ ("won" = "running" => l = 1)
      /\ 1 \in Nat \ {0} /\ "won" \in {"running", "won"}
  BY <1>2
<1> QED
  BY <1>5, <1>6, <1>7, <1>8, <1>9, LaneSends, Zenon

LEMMA ChunkAttemptInv ==
    ASSUME AttemptInv, NEW r \in Request, NEW l \in 1..2, FirstChunk(r, l) \/ NextChunk(r, l)
    PROVE  AttemptInv'
<1> DEFINE n == IF FirstChunk(r, l) THEN 1 ELSE lane[r][l].n + 1
<1>1. AttemptShape /\ OneLane(r) /\ StreamIsSent(r) /\ phase \in [Request -> Phases] /\ lane[r][l].n \in Nat
  BY DEF AttemptInv, AttemptsOf, AttemptShape, Lanes
<1>2. lane[r][l].step \in {"asking", "streaming"} /\ UNCHANGED <<phase, at>>
  BY DEF FirstChunk, NextChunk
<1>3. phase[r] \in {"running", "won", "racing"}
  BY <1>1, <1>2 DEF OneLane
<1>4. CASE phase[r] = "racing" /\ Lane(r, l, "first", 1) /\ UNCHANGED sent
  <2>1. /\ lane' \in [Request -> [1..2 -> Lanes]]
        /\ lane'[r][l] = [step |-> "first", attempt |-> lane[r][l].attempt, n |-> 1]
        /\ \A m \in 1..2 : m # l => lane'[r][m] = lane[r][m]
        /\ \A q \in Request : q # r => lane'[q] = lane[q]
    BY <1>1, <1>4, LaneMoves DEF Steps
  <2>2. lane'[r][l].step = "first" /\ lane'[r][l].n = 1 /\ lane[r][l].step # "none"
    BY <2>1, <1>2
  <2> QED
    BY <1>2, <1>4, <2>1, <2>2, LaneWaits
<1>5. CASE phase[r] # "racing" /\ Lane(r, l, "streaming", n) /\ Send(r, l, n)
  <2>1. n \in Nat \ {0} /\ n \in Nat /\ n >= 1
    BY <1>1
  <2>2. n > 1 => Beginning(sent[r], Place(r, l), lane[r][l].attempt, n - 1)
    <3>1. n > 1 => lane[r][l].step = "streaming" /\ n - 1 = lane[r][l].n
      BY <1>1 DEF NextChunk
    <3> QED
      BY <3>1, <1>1 DEF StreamIsSent
  <2> HIDE DEF n
  <2>3. /\ lane' \in [Request -> [1..2 -> Lanes]]
        /\ lane'[r][l] = [step |-> "streaming", attempt |-> lane[r][l].attempt, n |-> n]
        /\ \A m \in 1..2 : m # l => lane'[r][m] = lane[r][m]
        /\ \A q \in Request : q # r => lane'[q] = lane[q]
    BY <1>1, <1>5, <2>1, LaneMoves DEF Steps
  <2>4. /\ sent' \in [Request -> Seq(SentChunk)]
        /\ Beginning(sent'[r], Place(r, l), lane[r][l].attempt, n)
        /\ \A q \in Request : q # r => sent'[q] = sent[q]
    BY <1>1, <1>5, <2>1, <2>2, SendMoves
  <2>5. phase[r] = "running" => l = 1
    BY <1>1, <1>2 DEF OneLane
  <2>6. \A m \in 1..2 : m # l => lane'[r][m].step = "none"
    <3>1. \A m \in 1..2 : m # l => lane[r][m].step = "none"
      BY <1>1, <1>2, <1>3, <1>5 DEF OneLane
    <3> QED
      BY <3>1, <2>3
  <2>7. phase' = [phase EXCEPT ![r] = phase[r]]
    BY <1>1, <1>2
  <2>8. /\ phase[r] \in {"running", "won"} /\ (phase[r] = "racing" => phase[r] = "won")
        /\ phase[r] \in {"running", "won"} => phase[r] = phase[r]
    BY <1>3, <1>5
  <2>9. UNCHANGED at
    BY <1>2
  <2> QED
    BY <1>3, <2>1, <2>3, <2>4, <2>5, <2>6, <2>7, <2>8, <2>9, LaneSends, Zenon
<1>6. NextChunk(r, l) => phase[r] # "racing"
  BY <1>1 DEF NextChunk, StreamIsSent
<1>7. CASE FirstChunk(r, l)
  BY <1>4, <1>5, <1>7 DEF FirstChunk
<1>8. CASE ~FirstChunk(r, l)
  BY <1>5, <1>6, <1>8 DEF NextChunk
<1> QED
  BY <1>7, <1>8

LEMMA EndAttemptInv ==
    ASSUME AttemptInv, NEW r \in Request, NEW l \in 1..2, EndOfStream(r, l)
    PROVE  AttemptInv'
<1>1. AttemptShape /\ StreamIsSent(r)
  BY DEF AttemptInv, AttemptsOf
<1>2. /\ lane[r][l].step = "streaming" /\ Goes(r, "done")
      /\ lane' = [lane EXCEPT ![r] = NoLanes] /\ UNCHANGED <<at, sent>>
  BY DEF EndOfStream
<1>3. Beginning(sent[r], Place(r, l), lane[r][l].attempt, lane[r][l].n)
  BY <1>1, <1>2 DEF StreamIsSent
<1>4. Place(r, l) \in Nat /\ lane[r][l].attempt \in Nat /\ lane[r][l].n \in Nat
  BY <1>1, RequestsAssumption DEF AttemptShape, Lanes, Place
<1>5. /\ lane' \in [Request -> [1..2 -> Lanes]]
      /\ \A m \in 1..2 : lane'[r][m].step = "none"
      /\ \A q \in Request : q # r => lane'[q] = lane[q]
  <2>1. NoLane \in Lanes /\ NoLane.step = "none"
    BY RequestsAssumption DEF NoLane, Lanes, Steps
  <2>2. NoLanes \in [1..2 -> Lanes] /\ \A m \in 1..2 : NoLanes[m].step = "none"
    BY <2>1 DEF NoLanes
  <2> QED
    BY <1>1, <1>2, <2>2 DEF AttemptShape
<1>6. AttemptShape'
  BY <1>1, <1>2, <1>5 DEF AttemptShape, Goes, Phases
<1>7. phase'[r] = "done" /\ \A q \in Request : q # r => phase'[q] = phase[q]
  BY <1>1, <1>2 DEF AttemptShape, Goes
<1>8. OneLane(r)' /\ StreamIsSent(r)'
  BY <1>5, <1>7 DEF OneLane, StreamIsSent
<1>9. AnswerIsWhole(r)'
  BY <1>2, <1>3, <1>4 DEF AnswerIsWhole
<1> QED
  BY <1>2, <1>5, <1>6, <1>7, <1>8, <1>9, OneMoves DEF AttemptsOf

LEMMA FailsAttemptInv ==
    ASSUME AttemptInv, NEW r \in Request, NEW l \in 1..2, AttemptFails(r, l) \/ LaneFails(r, l)
    PROVE  AttemptInv'
<1>1. AttemptShape /\ lane[r][l] \in Lanes
  BY DEF AttemptInv, AttemptShape
<1>2. lane[r][l].step \in {"asking", "streaming"} /\ UNCHANGED sent
  BY DEF AttemptFails, LaneFails, Fails
<1>3. ASSUME NEW s \in {"backoff", "given up"}, Lane(r, l, s, 0), UNCHANGED <<phase, at>>,
             s = "backoff" => lane[r][l].attempt <= max_retries
      PROVE  AttemptInv'
  <2>1. /\ lane' \in [Request -> [1..2 -> Lanes]]
        /\ lane'[r][l] = [step |-> s, attempt |-> lane[r][l].attempt, n |-> 0]
        /\ \A m \in 1..2 : m # l => lane'[r][m] = lane[r][m]
        /\ \A q \in Request : q # r => lane'[q] = lane[q]
    <3>1. s \in Steps /\ 0 \in Nat
      BY <1>3 DEF Steps
    <3> QED
      BY <1>1, <1>3, <3>1, LaneMoves
  <2>2. lane'[r][l].step = s /\ lane'[r][l].attempt = lane[r][l].attempt
    <3>1. [step |-> s, attempt |-> lane[r][l].attempt, n |-> 0].step = s
      BY ONLY TRUE
    <3>2. [step |-> s, attempt |-> lane[r][l].attempt, n |-> 0].attempt = lane[r][l].attempt
      BY ONLY TRUE
    <3> QED
      BY ONLY <2>1, <3>1, <3>2, Zenon
  <2>3. lane[r][l].step # "none"
    BY ONLY <1>2
  <2> QED
    BY <1>2, <1>3, <2>1, <2>2, <2>3, LaneWaits
<1>4. CASE AttemptFails(r, l)
  BY <1>3, <1>4 DEF AttemptFails, MayRetry
<1>5. CASE LaneFails(r, l) /\ Lane(r, l, "given up", 0) /\ UNCHANGED <<phase, at>>
  BY <1>3, <1>5
<1>6. CASE /\ Goes(r, "trying") /\ lane' = [lane EXCEPT ![r] = NoLanes]
           /\ (UNCHANGED at \/ at' = [at EXCEPT ![r] = @ + 1])
  <2>1. at' \in [Request -> Nat] /\ \A q \in Request : q # r => at'[q] = at[q]
    <3>1. at \in [Request -> Nat]
      BY <1>1 DEF AttemptShape
    <3>2. CASE at' = at
      BY ONLY <3>1, <3>2
    <3>3. CASE at' = [at EXCEPT ![r] = @ + 1]
      BY ONLY <3>1, <3>3
    <3> QED
      BY ONLY <1>6, <3>2, <3>3
  <2> QED
    BY <1>2, <1>6, <2>1, LanesEnd DEF Phases
<1> QED
  BY <1>4, <1>5, <1>6 DEF LaneFails, LoseRace

LEMMA RetryAttemptInv ==
    ASSUME AttemptInv, NEW r \in Request, NEW l \in 1..2, Retry(r, l)
    PROVE  AttemptInv'
<1> DEFINE c == [step |-> "asking", attempt |-> lane[r][l].attempt + 1, n |-> lane[r][l].n]
<1>1. AttemptShape /\ lane[r] \in [1..2 -> Lanes] /\ lane[r][l] \in Lanes /\ StreamIsSent(r)
  BY DEF AttemptInv, AttemptShape, AttemptsOf
<1>2. lane[r][l].step = "backoff" /\ lane[r][l].attempt <= max_retries /\ UNCHANGED <<phase, at, sent>>
  BY <1>1 DEF Retry, StreamIsSent
<1>3. c \in Lanes /\ c.step = "asking"
  <2>1. lane[r][l].attempt \in 0..max_retries + 1 /\ lane[r][l].n \in Nat
    BY <1>1 DEF Lanes
  <2>2. lane[r][l].attempt + 1 \in 0..max_retries + 1
    BY <1>2, <2>1, RequestsAssumption
  <2> QED
    BY <2>1, <2>2 DEF Lanes, Steps
<1>4. lane' = [lane EXCEPT ![r] = [lane[r] EXCEPT ![l] = c]]
  BY DEF Retry
<1> HIDE DEF c
<1>5. /\ lane' \in [Request -> [1..2 -> Lanes]]
      /\ lane'[r][l].step = "asking" /\ lane[r][l].step # "none"
      /\ \A m \in 1..2 : m # l => lane'[r][m] = lane[r][m]
      /\ \A q \in Request : q # r => lane'[q] = lane[q]
  BY <1>1, <1>2, <1>3, <1>4 DEF AttemptShape
<1> QED
  BY <1>2, <1>5, LaneWaits

LEMMA NextAttemptInv == AttemptInv /\ [Next]_allVars => AttemptInv'
<1> SUFFICES ASSUME AttemptInv, [Next]_allVars PROVE AttemptInv'
  OBVIOUS
<1>1. CASE UNCHANGED <<phase, at, lane, sent>>
  <2>1. AttemptShape'
    BY <1>1 DEF AttemptInv, AttemptShape
  <2> QED
    BY <1>1, <2>1, OthersKeep DEF AttemptInv
<1>2. CASE UNCHANGED requestVars
  BY <1>1, <1>2 DEF requestVars
<1>3. ASSUME NEW r \in Request, NEW l \in 1..2, LaneStep(r, l) PROVE AttemptInv'
  BY <1>3, ChunkAttemptInv, EndAttemptInv, FailsAttemptInv, RetryAttemptInv DEF LaneStep
<1>4. ASSUME NEW r \in Request, Gather(r) PROVE AttemptInv'
  BY <1>4, StartsWith DEF Gather
<1>5. ASSUME NEW r \in Request, NEW to \in Phases \ {"running", "racing", "won", "done"},
             phase[r] \notin {"running", "racing", "won"}, Goes(r, to), UNCHANGED <<at, lane, sent>>
      PROVE  AttemptInv'
  BY <1>5, MovesOn
<1>6. ASSUME NEW r \in Request, Enqueue(r) PROVE AttemptInv'
  BY <1>5, <1>6 DEF Enqueue, Phases
<1>7. ASSUME NEW r \in Request, LastGather(r) PROVE AttemptInv'
  <2>1. CASE StartWith(r, First(r))
    BY <1>7, <2>1, StartsWith DEF LastGather
  <2>2. CASE Goes(r, "burying") /\ UNCHANGED lane
    BY <1>5, <1>7, <2>2 DEF LastGather, Phases
  <2> QED
    BY <1>7, <2>1, <2>2 DEF LastGather
<1>8. ASSUME NEW r \in Request, Exhausted(r) PROVE AttemptInv'
  BY <1>5, <1>8 DEF Exhausted, Phases
<1>9. ASSUME NEW r \in Request, Bury(r) PROVE AttemptInv'
  BY <1>5, <1>9 DEF Bury, Phases
<1>10. ASSUME NEW r \in Request, RaceLost(r) PROVE AttemptInv'
  <2>1. at' \in [Request -> Nat] /\ \A q \in Request : q # r => at'[q] = at[q]
    BY <1>10 DEF RaceLost, AttemptInv, AttemptShape
  <2> QED
    BY <1>10, <2>1, LanesEnd DEF RaceLost, LoseRace, Phases
<1>11. ASSUME NEW r \in Request, Step(r) PROVE AttemptInv'
  BY <1>3, <1>4, <1>6, <1>7, <1>8, <1>9, <1>10, <1>11, TryAttemptInv, SettleAttemptInv DEF Step
<1>12. ASSUME NEW p \in Provider, Blackout(p) \/ Recovers(p) \/ \E k \in Key : CoolsDown(p, k)
       PROVE  AttemptInv'
  BY <1>2, <1>12 DEF Blackout, Recovers, CoolsDown
<1>13. CASE UNCHANGED allVars
  BY <1>2, <1>13 DEF allVars
<1> QED
  BY <1>11, <1>12, <1>13 DEF Next

\* However often an attempt is broken off, retried, raced or handed to the next
\* provider, an answered request was last sent one attempt from its first chunk
\* on, each chunk once and in order (services.py:776-845, 906-940).
THEOREM AnswersEndWhole == Spec => []EndsWithWholeAttempt
<1>1. AttemptInv => EndsWithWholeAttempt
  <2> SUFFICES ASSUME AttemptInv, NEW r \in Request, phase[r] = "done"
               PROVE  /\ sent[r] # <<>>
                      /\ \A i \in DOMAIN sent[r] : sent[r][i] = [sent[r][1] EXCEPT !.n = i]
    BY DEF EndsWithWholeAttempt
  <2>1. PICK place \in Nat, attempt \in Nat, n \in Nat : Beginning(sent[r], place, attempt, n)
    BY DEF AttemptInv, AttemptsOf, AnswerIsWhole
  <2>2. sent[r] \in Seq(SentChunk)
    BY DEF AttemptInv, AttemptShape
  <2>3. sent[r] # <<>> /\ DOMAIN sent[r] = 1..n /\ 1 \in 1..n
    BY <2>1, <2>2 DEF Beginning
  <2>4. ASSUME NEW i \in 1..n PROVE sent[r][i] = [sent[r][1] EXCEPT !.n = i]
    <3>1. sent[r][1] = [place |-> place, attempt |-> attempt, n |-> 1]
      BY <2>1, <2>3 DEF Beginning
    <3>2. sent[r][i] = [place |-> place, attempt |-> attempt, n |-> i]
      BY <2>1 DEF Beginning
    <3>3. [[place |-> place, attempt |-> attempt, n |-> 1] EXCEPT !.n = i]
            = [place |-> place, attempt |-> attempt, n |-> i]
      BY ONLY TRUE
    <3> QED
      BY <3>1, <3>2, <3>3, Zenon
  <2> QED
    BY <2>3, <2>4
<1> QED
  BY <1>1, InitAttemptInv, NextAttemptInv, PTL DEF Spec

-----------------------------------------------------------------------------
(* Who is asked, of the breaker and of the pool. *)

PoolShape ==
    /\ keys \in [Pool -> KeyLists]
    /\ index \in [Pool -> Nat]
    /\ revoked \in [Pool -> SUBSET Key]

\* Whoever is asked is on the list.
InReach(r) ==
    /\ phase[r] = "running" => at[r] <= Len(eligible[r])
    /\ phase[r] \in {"racing", "won"} => Len(eligible[r]) >= 2

AskInv ==
    /\ plan \in [Request -> [routed: Provider, list: Seq(Provider)]]
    /\ eligible \in [Request -> Seq(Entries)]
    /\ \A r \in Request : at[r] >= 1 /\ InReach(r)

SharedInv == AttemptInv /\ BreakerInv /\ PoolShape /\ AskInv

LEMMA InitPlan ==
    ASSUME Init
    PROVE  plan \in [Request -> [routed: Provider, list: Seq(Provider)]]
<1>1. ASSUME NEW r \in Request PROVE Head(Models[r]) \in Provider /\ Balanced(Models[r]) \subseteq Seq(Provider)
  <2> DEFINE s == Models[r]
  <2>1. s \in Seq(Provider) /\ s # <<>> /\ DOMAIN s = 1..Len(s) /\ Len(s) \in Nat
    BY RequestsAssumption
  <2>2. Head(s) \in Provider
    BY <2>1, HeadTailProperties
  <2> HIDE DEF s
  <2>3. ASSUME NEW f \in Bijection(DOMAIN s, DOMAIN s) PROVE [i \in DOMAIN s |-> s[f[i]]] \in Seq(Provider)
    <3>1. f \in [DOMAIN s -> DOMAIN s]
      BY DEF Bijection, Injection
    <3>2. \A i \in 1..Len(s) : s[f[i]] \in Provider
      BY <2>1, <3>1
    <3> QED
      BY <2>1, <3>2
  <2> QED
    BY <2>2, <2>3 DEF Balanced, s
<1>2. PICK order :
        /\ \A r \in Request : order[r] \in Balanced(Models[r])
        /\ plan = [r \in Request |-> [routed |-> Head(Models[r]), list |-> order[r]]]
  BY DEF Init
<1> QED
  BY <1>1, <1>2

LEMMA InitSharedInv == Init => SharedInv
<1> SUFFICES ASSUME Init PROVE SharedInv
  OBVIOUS
<1>1. AttemptInv /\ BreakerInv
  BY InitAttemptInv, InitBreakerInv DEF Init
<1>2. PoolShape
  BY EnvironmentIsKeyList DEF Init, PoolInit, PoolShape
<1>3. AskInv
  <2>1. /\ \A r \in Request : phase[r] = "gathering" /\ at[r] = 1
        /\ eligible = [r \in Request |-> <<>>]
    BY DEF Init
  <2>2. eligible \in [Request -> Seq(Entries)]
    BY <2>1
  <2> QED
    BY <2>1, <2>2, InitPlan DEF AskInv, InReach
<1> QED
  BY <1>1, <1>2, <1>3 DEF SharedInv

LEMMA EntryIsThere ==
    ASSUME AttemptInv, AskInv, NEW r \in Request, NEW l \in 1..2, lane[r][l].step # "none"
    PROVE  Entry(r, l) \in Entries /\ Entry(r, l).provider \in Provider
<1>1. phase[r] \in {"running", "won", "racing"} /\ at[r] \in Nat
  BY DEF AttemptInv, AttemptsOf, OneLane, AttemptShape
<1>2. eligible[r] \in Seq(Entries) /\ at[r] >= 1 /\ InReach(r)
  BY DEF AskInv
<1>3. Place(r, l) \in 1..Len(eligible[r])
  BY <1>1, <1>2 DEF Place, InReach
<1>4. Entry(r, l) \in Entries
  BY <1>2, <1>3, ElementOfSeq DEF Entry
<1> QED
  BY <1>4 DEF Entries

\* What is told of a key changes the cooldown of keys, at most.
LEMMA TellKept ==
    ASSUME PoolShape, NEW p \in Provider, NEW k, Report429(p, k) \/ ReportSuccess(p, k) \/ CoolDown(p, k) \/ UNCHANGED poolVars
    PROVE  PoolShape'
<1>1. CASE UNCHANGED poolVars
  BY <1>1 DEF PoolShape, poolVars
<1>2. ASSUME NEW c \in BOOLEAN, SetCooling(p, k, c) PROVE PoolShape'
  <2>1. p \in Pool
    BY RequestsAssumption
  <2>2. keys' \in [Pool -> KeyLists] /\ UNCHANGED <<index, revoked>>
    BY <1>2, <2>1, CoolingKept DEF PoolShape
  <2> QED
    BY <2>2 DEF PoolShape
<1> QED
  BY <1>1, <1>2 DEF Report429, ReportSuccess, CoolDown

LEMMA StartKept ==
    ASSUME PoolShape, AskInv, phase \in [Request -> Phases], NEW r \in Request, NEW g \in Gathers,
           g.list # <<>>, StartWith(r, g), UNCHANGED <<plan, at>>
    PROVE  PoolShape' /\ AskInv'
<1>1. g.keys \in [Pool -> KeyLists] /\ g.index \in [Pool -> Nat] /\ g.list \in Seq(Entries)
  BY DEF Gathers
<1>2. PoolShape'
  BY <1>1 DEF StartWith, PoolShape
<1>3. eligible' \in [Request -> Seq(Entries)] /\ eligible'[r] = g.list /\ \A q \in Request : q # r => eligible'[q] = eligible[q]
  BY <1>1 DEF StartWith, AskInv
<1>4. /\ phase'[r] \in {"racing", "trying"} /\ (phase'[r] = "racing" => Len(g.list) >= 2)
      /\ \A q \in Request : q # r => phase'[q] = phase[q]
  BY DEF StartWith, Goes
<1>5. InReach(r)'
  BY <1>3, <1>4 DEF InReach
<1>6. \A q \in Request : q # r => InReach(q)'
  BY <1>3, <1>4 DEF AskInv, InReach
<1> QED
  BY <1>2, <1>3, <1>5, <1>6 DEF AskInv

\* Phases in which nobody is asked.
LEMMA AskKept ==
    ASSUME AskInv, phase \in [Request -> Phases], NEW r \in Request, NEW to, Goes(r, to),
           to \in {"running", "racing", "won"} => to = phase[r] \/ (to = "won" /\ phase[r] = "racing"),
           UNCHANGED <<plan, eligible, at>>
    PROVE  AskInv'
<1>1. phase'[r] = to /\ \A q \in Request : q # r => phase'[q] = phase[q]
  BY DEF Goes
<1>2. InReach(r)'
  BY <1>1 DEF AskInv, InReach
<1>3. \A q \in Request : q # r => InReach(q)'
  BY <1>1 DEF AskInv, InReach
<1> QED
  BY <1>2, <1>3 DEF AskInv

LEMMA AskUnchanged ==
    ASSUME AskInv, UNCHANGED <<phase, plan, eligible, at>>
    PROVE  AskInv'
BY DEF AskInv, InReach

LEMMA LoseRaceKept ==
    ASSUME AskInv, phase \in [Request -> Phases], NEW r \in Request, phase[r] \in {"racing", "won"},
           LoseRace(r), UNCHANGED <<plan, at>>
    PROVE  AskInv'
<1> DEFINE rest == SubSeq(eligible[r], 3, Len(eligible[r]))
<1>1. eligible[r] \in Seq(Entries) /\ Len(eligible[r]) \in Nat
  BY DEF AskInv
<1>2. rest \in Seq(Entries)
  <2>1. \A i \in 3..Len(eligible[r]) : eligible[r][i] \in Entries
    BY <1>1
  <2> QED
    BY <1>1, <2>1, SubSeqProperties
<1> HIDE DEF rest
<1>3. eligible' = [eligible EXCEPT ![r] = rest]
  BY DEF LoseRace, rest
<1>4. eligible' \in [Request -> Seq(Entries)] /\ \A q \in Request : q # r => eligible'[q] = eligible[q]
  BY <1>2, <1>3 DEF AskInv
<1>5. phase'[r] = "trying" /\ \A q \in Request : q # r => phase'[q] = phase[q]
  BY DEF LoseRace, Goes
<1>6. InReach(r)'
  BY <1>5 DEF InReach
<1>7. \A q \in Request : q # r => InReach(q)'
  BY <1>4, <1>5 DEF AskInv, InReach
<1> QED
  BY <1>4, <1>6, <1>7 DEF AskInv

LEMMA LaneSharedInv ==
    ASSUME SharedInv, NEW r \in Request, NEW l \in 1..2, LaneStep(r, l)
    PROVE  BreakerInv' /\ PoolShape' /\ AskInv'
<1> DEFINE e == Entry(r, l)
<1>1. AttemptInv /\ BreakerInv /\ PoolShape /\ AskInv /\ phase \in [Request -> Phases]
  BY DEF SharedInv, AttemptInv, AttemptShape
<1>2. lane[r][l].step # "none"
  BY DEF LaneStep, FirstChunk, NextChunk, EndOfStream, AttemptFails, LaneFails, Fails, Retry
<1>3. e.provider \in Provider
  BY <1>1, <1>2, EntryIsThere
<1> HIDE DEF e
<1>4. BreakerInv /\ UNCHANGED breakerVars => BreakerInv'
  BY DEF breakerVars, BreakerInv, BreakerTypeOK, CountsFailuresInARow
<1>5. UNCHANGED poolVars => PoolShape'
  BY <1>1 DEF PoolShape, poolVars
<1>6. Report429(e.provider, e.key) \/ ReportSuccess(e.provider, e.key) => PoolShape'
  BY <1>1, <1>3, TellKept
<1>7. Fails(r, l) => PoolShape' /\ UNCHANGED plan
  BY <1>5, <1>6 DEF Fails, Tell, e
<1>8. CASE FirstChunk(r, l)
  <2>1. PoolShape'
    BY <1>5, <1>6, <1>8 DEF FirstChunk, Tell, e
  <2> QED
    BY <1>1, <1>4, <1>8, <2>1, AskUnchanged DEF FirstChunk
<1>9. CASE NextChunk(r, l) \/ Retry(r, l)
  BY <1>1, <1>4, <1>5, <1>9, AskUnchanged DEF NextChunk, Retry
<1>10. CASE EndOfStream(r, l)
  <2>1. BreakerInv'
    BY <1>1, <1>3, <1>4, <1>10, BreakerStep DEF EndOfStream, e
  <2>2. AskInv'
    BY <1>1, <1>10, AskKept DEF EndOfStream
  <2> QED
    BY <1>5, <1>10, <2>1, <2>2 DEF EndOfStream
<1>11. CASE AttemptFails(r, l)
  BY <1>1, <1>4, <1>7, <1>11, AskUnchanged DEF AttemptFails
<1>12. CASE LaneFails(r, l)
  <2>1. PoolShape' /\ UNCHANGED plan
    BY <1>7, <1>12 DEF LaneFails
  <2>2. CASE /\ phase[r] = "running" /\ Fail(e.provider) /\ at' = [at EXCEPT ![r] = @ + 1]
             /\ Goes(r, "trying") /\ UNCHANGED eligible
    <3>1. BreakerInv'
      BY <1>1, <1>3, <2>2, BreakerStep
    <3>2. at \in [Request -> Nat]
      BY <1>1 DEF AttemptInv, AttemptShape
    <3>3. phase'[r] = "trying" /\ \A q \in Request : q # r => phase'[q] = phase[q] /\ at'[q] = at[q]
      BY <1>1, <2>2, <3>2 DEF Goes
    <3>4. \A q \in Request : at'[q] >= 1
      BY <1>1, <2>2, <3>2 DEF AskInv
    <3>5. \A q \in Request : InReach(q)'
      BY <1>1, <2>2, <3>3 DEF AskInv, InReach
    <3> QED
      BY <1>1, <2>1, <2>2, <3>1, <3>4, <3>5 DEF AskInv
  <2>3. CASE phase[r] = "won" /\ LoseRace(r) /\ UNCHANGED <<at, breakerVars>>
    <3>1. BreakerInv'
      BY <1>1, <1>4, <2>3
    <3>2. AskInv'
      BY <1>1, <2>1, <2>3, LoseRaceKept
    <3> QED
      BY <2>1, <3>1, <3>2
  <2>4. CASE UNCHANGED <<phase, eligible, at, breakerVars>>
    BY <1>1, <1>4, <2>1, <2>4, AskUnchanged
  <2> QED
    BY <1>12, <2>2, <2>3, <2>4 DEF LaneFails, e
<1> QED
  BY <1>8, <1>9, <1>10, <1>11, <1>12 DEF LaneStep

LEMMA NextSharedInv == SharedInv /\ [Next]_allVars => SharedInv'
<1> SUFFICES ASSUME SharedInv, [Next]_allVars PROVE BreakerInv' /\ PoolShape' /\ AskInv'
  BY NextAttemptInv DEF SharedInv
<1>1. AttemptInv /\ BreakerInv /\ PoolShape /\ AskInv /\ phase \in [Request -> Phases]
  BY DEF SharedInv, AttemptInv, AttemptShape
<1>2. BreakerInv /\ UNCHANGED breakerVars => BreakerInv'
  BY DEF breakerVars, BreakerInv, BreakerTypeOK, CountsFailuresInARow
<1>3. UNCHANGED poolVars => PoolShape'
  BY <1>1 DEF PoolShape, poolVars
<1>4. CASE UNCHANGED allVars
  BY <1>1, <1>2, <1>3, <1>4, AskUnchanged DEF allVars, requestVars
<1>5. ASSUME NEW r \in Request, NEW to, Goes(r, to), UNCHANGED <<plan, eligible, at, breakerVars, poolVars>>,
             to \in {"running", "racing", "won"} => to = "won" /\ phase[r] = "racing"
      PROVE  BreakerInv' /\ PoolShape' /\ AskInv'
  BY <1>1, <1>2, <1>3, <1>5, AskKept
<1>6. ASSUME NEW r \in Request, Enqueue(r) \/ Exhausted(r) \/ Bury(r) \/ Settle(r)
      PROVE  BreakerInv' /\ PoolShape' /\ AskInv'
  BY <1>5, <1>6 DEF Enqueue, Exhausted, Bury, Settle
<1>7. ASSUME NEW r \in Request, Gather(r) \/ LastGather(r)
      PROVE  BreakerInv' /\ PoolShape' /\ AskInv'
  <2>1. plan[r].list \in Seq(Provider)
    BY <1>1 DEF AskInv
  <2>2. All(r) \in Gathers /\ First(r) \in Gathers
    BY <1>1, <2>1, AllKept, FirstKept DEF PoolShape
  <2>3. ASSUME NEW g \in Gathers, g.list # <<>>, StartWith(r, g), UNCHANGED <<plan, at, breakerVars>>
        PROVE  BreakerInv' /\ PoolShape' /\ AskInv'
    BY <1>1, <1>2, <2>3, StartKept
  <2>4. CASE Gather(r)
    BY <2>2, <2>3, <2>4 DEF Gather
  <2>5. CASE LastGather(r)
    BY <1>5, <2>2, <2>3, <2>5 DEF LastGather
  <2> QED
    BY <1>7, <2>4, <2>5
<1>8. ASSUME NEW r \in Request, Try(r)
      PROVE  BreakerInv' /\ PoolShape' /\ AskInv'
  <2> DEFINE p == eligible[r][at[r]].provider
  <2>1. /\ phase[r] = "trying" /\ at[r] <= Len(eligible[r]) /\ at[r] \in Nat /\ at[r] >= 1
        /\ at \in [Request -> Nat] /\ eligible[r] \in Seq(Entries)
        /\ UNCHANGED <<plan, eligible, poolVars>>
    BY <1>1, <1>8 DEF Try, AttemptInv, AttemptShape, AskInv
  <2>2. p \in Provider
    <3>1. at[r] \in 1..Len(eligible[r])
      BY <2>1
    <3>2. eligible[r][at[r]] \in Entries
      BY <2>1, <3>1, ElementOfSeq
    <3> QED
      BY <3>2 DEF Entries
  <2>3. CASE at' = [at EXCEPT ![r] = @ + 1] /\ UNCHANGED <<phase, breakerVars>>
    <3>1. \A q \in Request : at'[q] >= 1 /\ (q # r => at'[q] = at[q])
      BY <1>1, <2>1, <2>3 DEF AskInv
    <3>2. \A q \in Request : InReach(q)'
      BY <1>1, <2>1, <2>3, <3>1 DEF AskInv, InReach
    <3> QED
      BY <1>1, <1>2, <1>3, <2>1, <2>3, <3>1, <3>2 DEF AskInv
  <2>4. CASE Enter(p) /\ Goes(r, "running") /\ UNCHANGED at
    <3>1. BreakerInv'
      BY <1>1, <2>2, <2>4, BreakerStep
    <3>2. phase'[r] = "running" /\ \A q \in Request : q # r => phase'[q] = phase[q]
      BY <1>1, <2>4 DEF Goes
    <3>3. \A q \in Request : InReach(q)'
      BY <1>1, <2>1, <2>4, <3>2 DEF AskInv, InReach
    <3> QED
      BY <1>1, <1>3, <2>1, <2>4, <3>1, <3>3 DEF AskInv
  <2> QED
    BY <1>8, <2>3, <2>4 DEF Try
<1>9. ASSUME NEW r \in Request, RaceLost(r)
      PROVE  BreakerInv' /\ PoolShape' /\ AskInv'
  BY <1>1, <1>2, <1>3, <1>9, LoseRaceKept DEF RaceLost
<1>10. ASSUME NEW r \in Request, Step(r)
       PROVE  BreakerInv' /\ PoolShape' /\ AskInv'
  BY <1>6, <1>7, <1>8, <1>9, <1>10, LaneSharedInv DEF Step
<1>11. ASSUME NEW p \in Provider, Blackout(p)
       PROVE  BreakerInv' /\ PoolShape' /\ AskInv'
  BY <1>1, <1>2, <1>3, <1>11, AskUnchanged DEF Blackout, requestVars
<1>12. ASSUME NEW p \in Provider, Recovers(p)
       PROVE  BreakerInv' /\ PoolShape' /\ AskInv'
  BY <1>1, <1>3, <1>12, AskUnchanged, BreakerStep DEF Recovers, requestVars
<1>13. ASSUME NEW p \in Provider, NEW k \in Key, CoolsDown(p, k)
       PROVE  BreakerInv' /\ PoolShape' /\ AskInv'
  BY <1>1, <1>2, <1>13, AskUnchanged, TellKept DEF CoolsDown, requestVars
<1> QED
  BY <1>4, <1>10, <1>11, <1>12, <1>13 DEF Next
-----------------------------------------------------------------------------
(* The queue and the dead letters. *)

InQueue(p) == {r \in Request : phase[r] = "queued" /\ plan[r].routed = p}

BooksShape ==
    /\ blackout \subseteq Provider
    /\ markers \in [Provider -> Nat]
    /\ letters \in [Request -> Nat]

AccountsInv == SharedInv /\ BooksShape /\ QueueIsTheWaiting /\ DeadLettersAreTheFailed

LEMMA QueueIs == QueueIsTheWaiting <=> \A p \in Provider : markers[p] = Cardinality(InQueue(p))
BY DEF QueueIsTheWaiting, InQueue

LEMMA InitAccountsInv == Init => AccountsInv
<1> SUFFICES ASSUME Init PROVE AccountsInv
  OBVIOUS
<1>1. /\ \A r \in Request : phase[r] = "gathering" /\ letters[r] = 0
      /\ markers = [p \in Provider |-> 0] /\ letters = [r \in Request |-> 0] /\ blackout = {}
  BY DEF Init
<1>2. ASSUME NEW p \in Provider PROVE markers[p] = Cardinality(InQueue(p))
  <2>1. InQueue(p) = {}
    BY <1>1 DEF InQueue
  <2> QED
    BY <1>1, <2>1, FS_EmptySet
<1> QED
  BY <1>1, <1>2, InitSharedInv, QueueIs DEF AccountsInv, BooksShape, DeadLettersAreTheFailed

\* What enters or leaves neither the queue nor the dead letters.
LEMMA BooksKept ==
    ASSUME BooksShape, QueueIsTheWaiting, DeadLettersAreTheFailed,
           UNCHANGED <<plan, markers, letters, blackout>>,
           \A r \in Request : /\ phase'[r] = "queued" <=> phase[r] = "queued"
                              /\ phase'[r] = "failed" <=> phase[r] = "failed"
    PROVE  BooksShape' /\ QueueIsTheWaiting' /\ DeadLettersAreTheFailed'
<1>1. BooksShape' /\ DeadLettersAreTheFailed'
  BY DEF BooksShape, DeadLettersAreTheFailed
<1>2. ASSUME NEW p \in Provider PROVE markers'[p] = Cardinality(InQueue(p))'
  <2>1. InQueue(p)' = InQueue(p)
    BY DEF InQueue
  <2> QED
    BY <2>1, QueueIs
<1> QED
  BY <1>1, <1>2 DEF QueueIsTheWaiting, InQueue

LEMMA BooksUntouched ==
    ASSUME BooksShape, QueueIsTheWaiting, DeadLettersAreTheFailed, phase \in [Request -> Phases],
           UNCHANGED <<plan, markers, letters, blackout>>, NEW r \in Request, NEW to,
           Goes(r, to) \/ UNCHANGED phase, phase[r] \notin {"queued", "failed"}, to \notin {"queued", "failed"}
    PROVE  BooksShape' /\ QueueIsTheWaiting' /\ DeadLettersAreTheFailed'
<1>1. \A q \in Request : /\ phase'[q] = "queued" <=> phase[q] = "queued"
                         /\ phase'[q] = "failed" <=> phase[q] = "failed"
  BY DEF Goes
<1> QED
  BY <1>1, BooksKept

LEMMA EnqueueKept ==
    ASSUME BooksShape, QueueIsTheWaiting, DeadLettersAreTheFailed, phase \in [Request -> Phases],
           AskInv, NEW r \in Request, Enqueue(r)
    PROVE  BooksShape' /\ QueueIsTheWaiting' /\ DeadLettersAreTheFailed'
<1> DEFINE routed == plan[r].routed
<1>1. /\ phase[r] = "gathering" /\ phase'[r] = "queued" /\ UNCHANGED <<plan, letters, blackout>>
      /\ \A q \in Request : q # r => phase'[q] = phase[q]
  BY DEF Enqueue, Goes, worldVars
<1>2. routed \in Provider
  BY DEF AskInv
<1> HIDE DEF routed
<1>3. /\ markers' \in [Provider -> Nat] /\ markers'[routed] = markers[routed] + 1
      /\ \A p \in Provider : p # routed => markers'[p] = markers[p]
  BY <1>2 DEF Enqueue, BooksShape, routed
<1>4. DeadLettersAreTheFailed'
  BY <1>1 DEF DeadLettersAreTheFailed
<1>5. ASSUME NEW p \in Provider PROVE markers'[p] = Cardinality(InQueue(p))'
  <2>1. IsFiniteSet(InQueue(p)) /\ r \notin InQueue(p)
    BY <1>1, FS_Subset, RequestsAssumption DEF InQueue
  <2>2. CASE p = routed
    <3>1. InQueue(p)' = InQueue(p) \cup {r}
      BY <1>1, <2>2 DEF InQueue, routed
    <3>2. Cardinality(InQueue(p) \cup {r}) = Cardinality(InQueue(p)) + 1
      BY <2>1, FS_AddElement
    <3> QED
      BY <1>3, <2>2, <3>1, <3>2, QueueIs
  <2>3. CASE p # routed
    <3>1. InQueue(p)' = InQueue(p)
      BY <1>1, <2>3 DEF InQueue, routed
    <3> QED
      BY <1>3, <2>3, <3>1, QueueIs
  <2> QED
    BY <2>2, <2>3
<1> QED
  BY <1>1, <1>3, <1>4, <1>5 DEF BooksShape, QueueIsTheWaiting, InQueue

\* Whosever marker it is that goes, there is one to go.
LEMMA LastGatherKept ==
    ASSUME BooksShape, QueueIsTheWaiting, DeadLettersAreTheFailed, phase \in [Request -> Phases],
           AskInv, NEW r \in Request, LastGather(r)
    PROVE  BooksShape' /\ QueueIsTheWaiting' /\ DeadLettersAreTheFailed'
<1> DEFINE routed == plan[r].routed
<1>1. /\ phase[r] = "queued" /\ phase'[r] \in {"racing", "trying", "burying"}
      /\ UNCHANGED <<plan, letters, blackout>>
      /\ \A q \in Request : q # r => phase'[q] = phase[q]
  BY DEF LastGather, StartWith, Goes, worldVars
<1>2. routed \in Provider
  BY DEF AskInv
<1> HIDE DEF routed
<1>3. /\ markers' \in [Provider -> Nat]
      /\ markers'[routed] = IF markers[routed] = 0 THEN 0 ELSE markers[routed] - 1
      /\ \A p \in Provider : p # routed => markers'[p] = markers[p]
  BY <1>2 DEF LastGather, Unmark, BooksShape, routed
<1>4. DeadLettersAreTheFailed'
  BY <1>1 DEF DeadLettersAreTheFailed
<1>5. ASSUME NEW p \in Provider PROVE markers'[p] = Cardinality(InQueue(p))'
  <2>1. IsFiniteSet(InQueue(p)) /\ markers[p] \in Nat
    BY FS_Subset, RequestsAssumption DEF InQueue, BooksShape
  <2>2. CASE p = routed
    <3>1. InQueue(p)' = InQueue(p) \ {r} /\ r \in InQueue(p)
      BY <1>1, <2>2 DEF InQueue, routed
    <3>2. Cardinality(InQueue(p) \ {r}) = Cardinality(InQueue(p)) - 1 /\ Cardinality(InQueue(p)) # 0
      BY <2>1, <3>1, FS_RemoveElement, FS_EmptySet
    <3> QED
      BY <1>3, <2>1, <2>2, <3>1, <3>2, QueueIs
  <2>3. CASE p # routed
    <3>1. InQueue(p)' = InQueue(p)
      BY <1>1, <2>3 DEF InQueue, routed
    <3> QED
      BY <1>3, <2>3, <3>1, QueueIs
  <2> QED
    BY <2>2, <2>3
<1> QED
  BY <1>1, <1>3, <1>4, <1>5 DEF BooksShape, QueueIsTheWaiting, InQueue

LEMMA BuryKept ==
    ASSUME BooksShape, QueueIsTheWaiting, DeadLettersAreTheFailed, phase \in [Request -> Phases],
           NEW r \in Request, Bury(r)
    PROVE  BooksShape' /\ QueueIsTheWaiting' /\ DeadLettersAreTheFailed'
<1>1. /\ phase[r] = "burying" /\ phase'[r] = "failed" /\ UNCHANGED <<plan, markers, blackout>>
      /\ \A q \in Request : q # r => phase'[q] = phase[q]
  BY DEF Bury, Goes, worldVars
<1>2. /\ letters' \in [Request -> Nat] /\ letters'[r] = letters[r] + 1
      /\ \A q \in Request : q # r => letters'[q] = letters[q]
  BY DEF Bury, BooksShape
<1>3. DeadLettersAreTheFailed'
  BY <1>1, <1>2 DEF DeadLettersAreTheFailed
<1>4. ASSUME NEW p \in Provider PROVE markers'[p] = Cardinality(InQueue(p))'
  <2>1. InQueue(p)' = InQueue(p)
    BY <1>1 DEF InQueue
  <2> QED
    BY <1>1, <2>1, QueueIs
<1> QED
  BY <1>1, <1>2, <1>3, <1>4 DEF BooksShape, QueueIsTheWaiting, InQueue

LEMMA NextAccountsInv == AccountsInv /\ [Next]_allVars => AccountsInv'
<1> SUFFICES ASSUME AccountsInv, [Next]_allVars
             PROVE  BooksShape' /\ QueueIsTheWaiting' /\ DeadLettersAreTheFailed'
  BY NextSharedInv DEF AccountsInv
<1>1. /\ BooksShape /\ QueueIsTheWaiting /\ DeadLettersAreTheFailed
      /\ AttemptInv /\ AskInv /\ phase \in [Request -> Phases]
  BY DEF AccountsInv, SharedInv, AttemptInv, AttemptShape
<1>2. UNCHANGED <<phase, plan, markers, letters, blackout>>
      => BooksShape' /\ QueueIsTheWaiting' /\ DeadLettersAreTheFailed'
  BY <1>1, BooksKept
<1>3. CASE UNCHANGED allVars
  BY <1>2, <1>3 DEF allVars, requestVars, worldVars
<1>4. ASSUME NEW r \in Request, NEW to, Goes(r, to) \/ UNCHANGED phase,
             UNCHANGED <<plan, markers, letters, blackout>>,
             phase[r] \notin {"queued", "failed"}, to \notin {"queued", "failed"}
      PROVE  BooksShape' /\ QueueIsTheWaiting' /\ DeadLettersAreTheFailed'
  BY <1>1, <1>4, BooksUntouched
<1>5. ASSUME NEW r \in Request, NEW l \in 1..2, LaneStep(r, l)
      PROVE  BooksShape' /\ QueueIsTheWaiting' /\ DeadLettersAreTheFailed'
  <2>1. lane[r][l].step # "none"
    BY <1>5 DEF LaneStep, FirstChunk, NextChunk, EndOfStream, AttemptFails, LaneFails, Fails, Retry
  <2>2. phase[r] \in {"running", "won", "racing"}
    BY <1>1, <2>1 DEF AttemptInv, AttemptsOf, OneLane
  <2>3. UNCHANGED <<plan, markers, letters, blackout>>
    BY <1>5 DEF LaneStep, FirstChunk, NextChunk, EndOfStream, AttemptFails, LaneFails, Fails, Retry, worldVars
  <2>4. UNCHANGED phase \/ Goes(r, "done") \/ Goes(r, "trying")
    BY <1>5 DEF LaneStep, FirstChunk, NextChunk, EndOfStream, AttemptFails, LaneFails, LoseRace, Retry
  <2> QED
    BY <1>2, <1>4, <2>2, <2>3, <2>4
<1>6. ASSUME NEW r \in Request, Gather(r) \/ Try(r) \/ Exhausted(r) \/ Settle(r) \/ RaceLost(r)
      PROVE  BooksShape' /\ QueueIsTheWaiting' /\ DeadLettersAreTheFailed'
  <2>1. phase[r] \in {"gathering", "trying", "racing"}
    BY <1>6 DEF Gather, Try, Exhausted, Settle, RaceLost
  <2>2. UNCHANGED <<plan, markers, letters, blackout>>
    BY <1>6 DEF Gather, Try, Exhausted, Settle, RaceLost, worldVars
  <2>3. UNCHANGED phase \/ \E to \in {"racing", "trying", "running", "burying", "won"} : Goes(r, to)
    BY <1>6 DEF Gather, StartWith, Try, Exhausted, Settle, RaceLost, LoseRace
  <2> QED
    BY <1>2, <1>4, <2>1, <2>2, <2>3
<1>7. ASSUME NEW r \in Request, Step(r)
      PROVE  BooksShape' /\ QueueIsTheWaiting' /\ DeadLettersAreTheFailed'
  BY <1>1, <1>5, <1>6, <1>7, EnqueueKept, LastGatherKept, BuryKept DEF Step
<1>8. ASSUME NEW p \in Provider, Blackout(p)
      PROVE  BooksShape' /\ QueueIsTheWaiting' /\ DeadLettersAreTheFailed'
  <2>1. UNCHANGED <<phase, plan, markers, letters>> /\ blackout' \subseteq Provider
    BY <1>1, <1>8 DEF Blackout, requestVars, BooksShape
  <2> QED
    BY <1>1, <2>1 DEF BooksShape, QueueIsTheWaiting, DeadLettersAreTheFailed
<1>9. ASSUME NEW p \in Provider, Recovers(p) \/ \E k \in Key : CoolsDown(p, k)
      PROVE  BooksShape' /\ QueueIsTheWaiting' /\ DeadLettersAreTheFailed'
  BY <1>2, <1>9 DEF Recovers, CoolsDown, requestVars, worldVars
<1> QED
  BY <1>3, <1>7, <1>8, <1>9 DEF Next

LEMMA AccountsInvType == AccountsInv => RequestsTypeOK
<1> SUFFICES ASSUME AccountsInv PROVE RequestsTypeOK
  OBVIOUS
<1>1. BreakerTypeOK
  BY DEF AccountsInv, SharedInv, BreakerInv
<1>2. PoolTypeOK
  BY DEF AccountsInv, SharedInv, PoolShape, PoolTypeOK, KeyLists
<1>3. AttemptShape /\ BooksShape
  BY DEF AccountsInv, SharedInv, AttemptInv
<1> QED
  BY <1>1, <1>2, <1>3 DEF AttemptShape, BooksShape, RequestsTypeOK, Phases, Lanes

\* At every moment the markers of a provider's queue are the requests that wait
\* in it, although each takes out the first marker and not its own, and the dead
\* letters are the requests that failed, one each: for every number of requests,
\* providers, keys and retries (services.py:722-758, 941-949).
THEOREM Accounts == Spec => []AccountsAgree
<1>1. AccountsInv => AccountsAgree
  BY AccountsInvType DEF AccountsInv, AccountsAgree
<1> QED
  BY <1>1, InitAccountsInv, NextAccountsInv, PTL DEF Spec

-----------------------------------------------------------------------------
(* The delivery of responses: any number of readers and contents, streams of  *)
(* any length and a cache of any size.                                        *)

Readers == {"new", "cached", "missed", "joining", "resumed", "entering", "looking", "yielding",
            "waiting", "closing", "dropped", "leaving", "ended", "failed", "gone", "cut"}

-----------------------------------------------------------------------------
(* The lock: who takes a chunk holds it. *)

Parties == Reader \cup {Producer}

Holding(r) == reader[r] \in {"yielding", "dropped"}

\* Where a request is in its course, and what it has by then.
Placed(r) ==
    /\ reader[r] # "new" => payload[r] \in Payload
    /\ reader[r] \notin {"new", "cached", "missed"} => source[r] \in Reader

LockShape ==
    /\ reader \in [Reader -> Readers]
    /\ payload \in [Reader -> Payload \cup {None}]
    /\ in_flight \in [{hash_request[p] : p \in Payload} -> Reader \cup {None}]
    /\ source \in [Reader -> Reader \cup {None}]
    /\ lock \in [Reader -> Seq(Parties)]

LockInv ==
    /\ LockShape
    /\ \A r \in Reader : Placed(r) /\ (Holding(r) => Has(source[r], r))

LEMMA InitLockInv == DeliveryInit => LockInv
<1> SUFFICES ASSUME DeliveryInit PROVE LockInv
  OBVIOUS
<1>1. LockShape
  <2>1. reader \in [Reader -> Readers]
    BY DEF DeliveryInit, Readers
  <2>2. lock \in [Reader -> Seq(Parties)]
    BY QueueEmpty DEF DeliveryInit
  <2> QED
    BY <2>1, <2>2 DEF DeliveryInit, LockShape
<1>2. \A r \in Reader : reader[r] = "new"
  BY DEF DeliveryInit
<1> QED
  BY <1>1, <1>2 DEF LockInv, Placed, Holding

\* Asking for a lock leaves its holder where it is.
LEMMA Asked ==
    ASSUME LockShape, NEW m \in Reader, NEW who \in Parties, Ask(m, who)
    PROVE  /\ lock' \in [Reader -> Seq(Parties)]
           /\ \A k \in Reader, x \in Parties : Has(k, x) => Has(k, x)'
<1>1. lock[m] \in Seq(Parties)
  BY DEF LockShape
<1>2. /\ Append(lock[m], who) \in Seq(Parties) /\ Append(lock[m], who) # <<>>
      /\ lock[m] # <<>> => Head(Append(lock[m], who)) = Head(lock[m])
  BY <1>1, QueueAppend
<1>3. lock' = [lock EXCEPT ![m] = Append(lock[m], who)]
  BY DEF Ask
<1>4. lock'[m] = Append(lock[m], who) /\ \A k \in Reader : k # m => lock'[k] = lock[k]
  BY <1>3 DEF LockShape
<1> QED
  BY <1>2, <1>3, <1>4 DEF LockShape, Has

\* Only the holder gives a lock away, and it touches no other.
LEMMA Given ==
    ASSUME LockShape, NEW m \in Reader, NEW who \in Parties, Has(m, who), Release(m) \/ Pass(m, who)
    PROVE  /\ lock' \in [Reader -> Seq(Parties)]
           /\ \A k \in Reader, x \in Parties : Has(k, x) /\ (k # m \/ x # who) => Has(k, x)'
<1>1. lock[m] \in Seq(Parties) /\ lock[m] # <<>> /\ Head(lock[m]) = who
  BY DEF LockShape, Has
<1>2. Tail(lock[m]) \in Seq(Parties)
  BY <1>1, QueueTail
<1>3. Append(Tail(lock[m]), who) \in Seq(Parties)
  BY <1>2, QueueAppend
<1>4. PICK q \in Seq(Parties) : lock' = [lock EXCEPT ![m] = q]
  BY <1>2, <1>3 DEF Release, Pass
<1>5. \A k \in Reader : k # m => lock'[k] = lock[k]
  BY <1>4 DEF LockShape
<1> QED
  BY <1>1, <1>4, <1>5 DEF LockShape, Has

\* A step of the reader r, or of a producer.
LEMMA OthersHold ==
    ASSUME LockInv, UNCHANGED <<payload, source>>,
           NEW r \in Reader, NEW pc \in Readers, Becomes(r, pc), reader[r] # "new",
           pc \notin {"new", "cached", "missed"} => source[r] \in Reader,
           lock' \in [Reader -> Seq(Parties)], UNCHANGED in_flight,
           \A q \in Reader : q # r /\ Has(source[q], q) /\ source[q] \in Reader => Has(source[q], q)',
           pc \in {"yielding", "dropped"} => Has(source[r], r)'
    PROVE  LockInv'
<1>1. reader' \in [Reader -> Readers] /\ reader'[r] = pc /\ \A q \in Reader : q # r => reader'[q] = reader[q]
  BY DEF LockInv, LockShape, Becomes
<1>2. LockShape'
  BY <1>1 DEF LockInv, LockShape
<1>3. \A q \in Reader : Placed(q)'
  BY <1>1 DEF LockInv, Placed
<1>4. \A q \in Reader : Holding(q)' => Has(source[q], q)'
  BY <1>1 DEF LockInv, Holding, Placed
<1> QED
  BY <1>2, <1>3, <1>4 DEF LockInv, Has

LEMMA ProducersHold ==
    ASSUME LockInv, UNCHANGED <<reader, payload, in_flight, source>>,
           lock' \in [Reader -> Seq(Parties)],
           \A q \in Reader : Has(source[q], q) /\ source[q] \in Reader => Has(source[q], q)'
    PROVE  LockInv'
BY DEF LockInv, LockShape, Placed, Holding, Has

LEMMA JoinHolds ==
    ASSUME LockInv, NEW r \in Reader, Join(r)
    PROVE  LockInv'
<1> DEFINE h == hash_request[payload[r]]
<1>1. /\ reader[r] = "missed" /\ payload[r] \in Payload
      /\ in_flight \in [{hash_request[p] : p \in Payload} -> Reader \cup {None}]
  BY DEF Join, LockInv, LockShape, Placed
<1>2. h \in {hash_request[p] : p \in Payload} /\ in_flight[h] \in Reader \cup {None}
  BY <1>1
<1> HIDE DEF h
<1>3. PICK m \in Reader : source' = [source EXCEPT ![r] = m]
  BY <1>2 DEF Join, h
<1>4. in_flight' \in [{hash_request[p] : p \in Payload} -> Reader \cup {None}]
  BY <1>1, <1>2 DEF Join, h
<1>5. /\ reader' \in [Reader -> Readers] /\ reader'[r] = "joining"
      /\ source' \in [Reader -> Reader \cup {None}] /\ source'[r] = m
      /\ \A q \in Reader : q # r => reader'[q] = reader[q] /\ source'[q] = source[q]
  BY <1>3 DEF Join, Becomes, LockInv, LockShape, Readers
<1>6. UNCHANGED <<payload, lock>>
  BY DEF Join
<1>7. LockShape'
  BY <1>4, <1>5, <1>6 DEF LockInv, LockShape
<1>8. \A q \in Reader : Placed(q)'
  BY <1>1, <1>5, <1>6 DEF LockInv, Placed
<1>9. \A q \in Reader : Holding(q)' => Has(source[q], q)'
  BY <1>5, <1>6 DEF LockInv, Holding, Has
<1> QED
  BY <1>7, <1>8, <1>9 DEF LockInv

\* Those that await a future go on together, or are cut off together.
LEMMA JoiningHold ==
    ASSUME LockInv, UNCHANGED <<payload, source, lock>>,
           in_flight' \in [{hash_request[p] : p \in Payload} -> Reader \cup {None}],
           reader' \in [Reader -> Readers],
           \A q \in Reader : \/ reader'[q] = reader[q]
                             \/ reader[q] = "joining" /\ reader'[q] \in {"resumed", "gone", "cut"}
    PROVE  LockInv'
<1>1. LockShape'
  BY DEF LockInv, LockShape
<1>2. \A q \in Reader : Placed(q)'
  BY DEF LockInv, Placed
<1>3. \A q \in Reader : Holding(q)' => Has(source[q], q)'
  BY DEF LockInv, Holding, Has
<1> QED
  BY <1>1, <1>2, <1>3 DEF LockInv

LEMMA NextLockInv == LockInv /\ [DeliveryNext]_vars => LockInv'
<1> SUFFICES ASSUME LockInv, [DeliveryNext]_vars PROVE LockInv'
  OBVIOUS
<1> DEFINE Kept == \A q \in Reader : Has(source[q], q) /\ source[q] \in Reader => Has(source[q], q)'
<1>1. LockShape /\ (\A r \in Reader : r \in Parties) /\ Producer \in Parties
  BY DEF LockInv, Parties
<1>2. UNCHANGED <<lock, source>> => lock' \in [Reader -> Seq(Parties)] /\ Kept
  BY <1>1 DEF LockShape, Has
<1>3. ASSUME NEW m \in Reader, NEW who \in Parties, Ask(m, who), UNCHANGED source
      PROVE  lock' \in [Reader -> Seq(Parties)] /\ Kept
  BY <1>1, <1>3, Asked DEF Has
<1>4. ASSUME NEW m \in Reader, NEW who \in Parties, Has(m, who), Release(m) \/ Pass(m, who), UNCHANGED source
      PROVE  /\ lock' \in [Reader -> Seq(Parties)]
             /\ \A q \in Reader : q # who /\ Has(source[q], q) /\ source[q] \in Reader => Has(source[q], q)'
  BY <1>1, <1>4, Given DEF Has
<1>5. ASSUME NEW m \in Reader, Has(m, Producer), Release(m) \/ Pass(m, Producer), UNCHANGED source
      PROVE  lock' \in [Reader -> Seq(Parties)] /\ Kept
  BY <1>1, <1>4, <1>5, DeliveryAssumption
<1> HIDE DEF Kept
<1>6. CASE UNCHANGED vars
  BY <1>2, <1>6, ProducersHold DEF vars, muxVars, Kept
<1>7. CASE Expire
  BY <1>2, <1>7, ProducersHold DEF Expire, muxVars, Kept
<1>8. ASSUME NEW r \in Reader, NEW p \in Asks[r], Answer(r, p) \/ Missed(r, p)
      PROVE  LockInv'
  <2>1. p \in Payload
    BY DeliveryAssumption
  <2>2. /\ payload' = [payload EXCEPT ![r] = p] /\ UNCHANGED <<in_flight, source, lock>>
        /\ (Becomes(r, "cached") \/ Becomes(r, "missed")) /\ reader[r] = "new"
    BY <1>8 DEF Answer, Missed, muxVars
  <2>3. /\ reader' \in [Reader -> Readers] /\ payload' \in [Reader -> Payload \cup {None}]
        /\ reader'[r] \in {"cached", "missed"} /\ payload'[r] = p
        /\ \A q \in Reader : q # r => reader'[q] = reader[q] /\ payload'[q] = payload[q]
    BY <1>1, <2>1, <2>2 DEF LockShape, Becomes, Readers
  <2>4. LockShape'
    BY <1>1, <2>2, <2>3 DEF LockShape
  <2>5. \A q \in Reader : Placed(q)'
    BY <2>1, <2>2, <2>3 DEF LockInv, Placed
  <2>6. \A q \in Reader : Holding(q)' => Has(source[q], q)'
    BY <2>2, <2>3 DEF LockInv, Holding, Has
  <2> QED
    BY <2>4, <2>5, <2>6 DEF LockInv
<1>9. ASSUME NEW m \in Reader, Resolve(m)
      PROVE  LockInv'
  <2>1. /\ in_flight' = [h \in DOMAIN in_flight |-> IF in_flight[h] = m THEN None ELSE in_flight[h]]
        /\ reader' = [r \in Reader |-> IF r \in Joining(m) THEN "resumed" ELSE reader[r]]
        /\ UNCHANGED <<payload, source, lock>>
    BY <1>9 DEF Resolve
  <2>2. in_flight' \in [{hash_request[p] : p \in Payload} -> Reader \cup {None}]
    BY <1>1, <2>1 DEF LockShape
  <2>3. \A r \in Joining(m) : reader[r] = "joining"
    BY DEF Joining
  <2>4. reader' \in [Reader -> Readers]
    BY <1>1, <2>1 DEF LockShape, Readers
  <2>5. \A q \in Reader : reader'[q] = reader[q] \/ (reader[q] = "joining" /\ reader'[q] = "resumed")
    BY <2>1, <2>3
  <2> QED
    BY <2>1, <2>2, <2>4, <2>5, JoiningHold
<1>10. ASSUME NEW m \in Reader, Consume(m)
       PROVE  LockInv'
  <2>1. UNCHANGED <<reader, payload, in_flight, source>>
    BY <1>10 DEF Consume, Pull, AppendChunk, Raise, TellError, End, Finish
  <2>2. Ask(m, Producer) \/ (Has(m, Producer) /\ (Release(m) \/ Pass(m, Producer)))
    BY <1>10 DEF Consume, Pull, AppendChunk, Raise, TellError, End, Finish
  <2>3. lock' \in [Reader -> Seq(Parties)] /\ Kept
    BY <1>1, <1>3, <1>5, <2>1, <2>2
  <2> QED
    BY <2>1, <2>3, ProducersHold DEF Kept
<1>11. ASSUME NEW r \in Reader, NEW pc \in Readers, Becomes(r, pc), reader[r] \notin {"new", "cached", "missed"},
              UNCHANGED <<payload, in_flight, source>>,
              \/ UNCHANGED lock /\ (pc \in {"yielding", "dropped"} => Has(source[r], r))
              \/ Ask(source[r], r) /\ pc \notin {"yielding", "dropped"}
              \/ /\ Has(source[r], r) /\ (Release(source[r]) \/ Pass(source[r], r))
                 /\ pc \notin {"yielding", "dropped"}
       PROVE  LockInv'
  <2>1. source[r] \in Reader
    BY <1>11 DEF LockInv, Placed
  <2>2. lock' \in [Reader -> Seq(Parties)]
    BY <1>1, <1>2, <1>3, <1>4, <1>11, <2>1
  <2>3. \A q \in Reader : q # r /\ Has(source[q], q) /\ source[q] \in Reader => Has(source[q], q)'
    BY <1>1, <1>2, <1>3, <1>4, <1>11, <2>1 DEF Kept
  <2>4. pc \in {"yielding", "dropped"} => Has(source[r], r)'
    BY <1>11 DEF Has
  <2> QED
    BY <1>11, <2>1, <2>2, <2>3, <2>4, OthersHold
<1>12. ASSUME NEW r \in Reader, Begin(r) \/ Register(r) \/ Yield(r) \/ Take(r) \/ Sleep(r) \/ Wake(r)
       PROVE  LockInv'
  <2>1. reader[r] = "yielding" => Has(source[r], r)
    BY DEF LockInv, Holding
  <2> QED
    BY <1>11, <1>12, <2>1 DEF Begin, Register, Yield, Take, Sleep, Wake, muxVars, Readers
<1>13. ASSUME NEW r \in Reader, ReadAll(r) \/ Close(r) \/ Collect(r) \/ Leave(r) \/ GoneResumed(r) \/ GoneYielding(r)
       PROVE  LockInv'
  <2>1. reader[r] \in {"yielding", "dropped"} => Has(source[r], r)
    BY DEF LockInv, Holding
  <2> QED
    BY <1>11, <1>13, <2>1 DEF ReadAll, Close, Collect, Leave, GoneResumed, GoneYielding, muxVars, Readers
<1>14. ASSUME NEW r \in Reader, GoneJoining(r)
       PROVE  LockInv'
  <2>1. /\ reader[r] = "joining"
        /\ reader' = [q \in Reader |-> IF q = r THEN "gone"
                                        ELSE IF q \in Joining(source[r]) THEN "cut" ELSE reader[q]]
        /\ UNCHANGED <<payload, source, lock, in_flight>>
    BY <1>14 DEF GoneJoining, muxVars
  <2>2. \A q \in Joining(source[r]) : reader[q] = "joining"
    BY DEF Joining
  <2>3. reader' \in [Reader -> Readers]
    BY <1>1, <2>1 DEF LockShape, Readers
  <2>4. \A q \in Reader : reader'[q] = reader[q] \/ (reader[q] = "joining" /\ reader'[q] \in {"gone", "cut"})
    BY <2>1, <2>2
  <2> QED
    BY <1>1, <2>1, <2>3, <2>4, JoiningHold DEF LockShape
<1>15. ASSUME NEW r \in Reader, GoneWaiting(r)
       PROVE  LockInv'
  <2> DEFINE m == source[r]
             others == Remaining(lock[m], {r})
  <2>1. m \in Reader /\ reader[r] \notin {"new", "cached", "missed"} /\ ~Has(m, r)
    BY <1>15 DEF GoneWaiting, LockInv, Placed
  <2>2. lock[m] \in Seq(Parties)
    BY <1>1, <2>1 DEF LockShape
  <2>3. /\ others \in Seq(Parties)
        /\ lock[m] # <<>> /\ Head(lock[m]) # r => others # <<>> /\ Head(others) = Head(lock[m])
    BY <2>2, QueueRemaining
  <2> HIDE DEF others
  <2>4. /\ Append(others, r) \in Seq(Parties) /\ Append(others, r) # <<>>
        /\ others # <<>> => Head(Append(others, r)) = Head(others)
    BY <1>1, <2>3, QueueAppend
  <2>5. PICK q \in Seq(Parties) : /\ lock' = [lock EXCEPT ![m] = q]
                                  /\ lock[m] # <<>> /\ Head(lock[m]) # r => q # <<>> /\ Head(q) = Head(lock[m])
    BY <1>15, <2>3, <2>4 DEF GoneWaiting, others
  <2> HIDE DEF m
  <2>6. /\ lock' \in [Reader -> Seq(Parties)] /\ lock'[m] = q
        /\ \A k \in Reader : k # m => lock'[k] = lock[k]
    BY <1>1, <2>1, <2>5 DEF LockShape
  <2>7. \A k \in Reader : k # r /\ Has(source[k], k) /\ source[k] \in Reader => Has(source[k], k)'
    BY <1>15, <2>5, <2>6 DEF Has, GoneWaiting
  <2> QED
    BY <1>15, <2>1, <2>6, <2>7, OthersHold DEF GoneWaiting, Readers, m
<1> QED
  BY <1>6, <1>7, <1>8, <1>9, <1>10, <1>12, <1>13, <1>14, <1>15, JoinHolds DEF DeliveryNext, Iterate, Gone

-----------------------------------------------------------------------------
(* What is read and what is cached. *)

CacheEntries == [payload: Payload, chunks: Seq(Chunk), fresh: BOOLEAN]

StreamShape ==
    /\ upstream \in [Reader -> {"none", "due", "pulling", "appending", "failing", "finishing", "over"}]
    /\ chunks \in [Reader -> Seq(Chunk)]
    /\ done \in [Reader -> BOOLEAN]
    /\ error \in [Reader -> BOOLEAN]
    /\ got \in [Reader -> Seq(Chunk)]
    /\ cache \in Seq(CacheEntries)

\* s is as much as was read so far of t.
Reads(s, t) == Len(s) <= Len(t) /\ \A i \in 1..Len(s) : s[i] = t[i]

EndOf(m) ==
    /\ done[m] <=> upstream[m] \in {"finishing", "over"}
    /\ error[m] => upstream[m] \in {"failing", "finishing", "over"}

ReaderOf(r) ==
    /\ reader[r] \in {"new", "missed"} => upstream[r] = "none"
    /\ reader[r] \in {"new", "missed", "joining"} => got[r] = <<>>
    /\ reader[r] \notin {"new", "cached", "missed", "joining", "gone", "cut"} => Reads(got[r], chunks[source[r]])
    /\ reader[r] \in {"closing", "ended"} => got[r] = chunks[source[r]] /\ done[source[r]]

\* A whole answer.
Whole(s) == \E m \in Reader : done[m] /\ ~error[m] /\ s = chunks[m]

StreamInv ==
    /\ StreamShape
    /\ \A r \in Reader : EndOf(r) /\ ReaderOf(r)
    /\ \A e \in ToSet(cache) : Whole(e.chunks)

LEMMA ReadsIsPrefix ==
    ASSUME NEW s \in Seq(Chunk), NEW t \in Seq(Chunk)
    PROVE  IsPrefix(s, t) <=> Reads(s, t)
<1>1. Len(s) \in Nat /\ Len(t) \in Nat /\ \A i \in 1..Len(s) : s[i] \in Chunk
  BY LenProperties, ElementOfSeq
<1>2. SubSeq(s, 1, Len(s)) = [i \in 1..Len(s) |-> s[i]]
  BY <1>1
<1>3. SubSeq(t, 1, Len(s)) = [i \in 1..Len(s) |-> t[i]]
  BY <1>1
<1> QED
  BY <1>1, <1>2, <1>3 DEF IsPrefix, Reads

LEMMA ReadsAll ==
    ASSUME NEW s \in Seq(Chunk), NEW t \in Seq(Chunk), Reads(s, t), Len(s) = Len(t)
    PROVE  s = t
BY SeqEqual DEF Reads

LEMMA ReadsMore ==
    ASSUME NEW s \in Seq(Chunk), NEW t \in Seq(Chunk), NEW c \in Chunk, Reads(s, t)
    PROVE  Reads(s, Append(t, c))
BY AppendProperties, LenProperties DEF Reads

LEMMA ReadsNext ==
    ASSUME NEW s \in Seq(Chunk), NEW t \in Seq(Chunk), Reads(s, t), Len(s) < Len(t)
    PROVE  Append(s, t[Len(s) + 1]) \in Seq(Chunk) /\ Reads(Append(s, t[Len(s) + 1]), t)
<1>1. t[Len(s) + 1] \in Chunk /\ Len(s) \in Nat /\ Len(t) \in Nat
  BY LenProperties, ElementOfSeq
<1> QED
  BY <1>1, AppendProperties DEF Reads

LEMMA CachedAre == (\A i \in DOMAIN cache : Whole(cache[i].chunks)) <=> \A e \in ToSet(cache) : Whole(e.chunks)
BY DEF ToSet

LEMMA CachedWhole == StreamInv => CachedIsWhole
BY CachedAre DEF StreamInv, CachedIsWhole, Whole

LEMMA InitStreamInv == DeliveryInit => StreamInv
<1> SUFFICES ASSUME DeliveryInit PROVE StreamInv
  OBVIOUS
<1>1. <<>> \in Seq(Chunk) /\ <<>> \in Seq(CacheEntries)
  BY EmptySeq
<1>2. StreamShape
  BY <1>1 DEF DeliveryInit, StreamShape
<1>3. \A r \in Reader : EndOf(r) /\ ReaderOf(r)
  BY DEF DeliveryInit, EndOf, ReaderOf
<1>4. ToSet(cache) = {}
  BY QueueEmpty DEF DeliveryInit
<1> QED
  BY <1>2, <1>3, <1>4 DEF StreamInv

\* A step of a reader, which leaves streams and cache alone.
LEMMA ReaderMoves ==
    ASSUME StreamInv, UNCHANGED <<upstream, chunks, done, error, cache, source>>,
           NEW r \in Reader,
           got' \in [Reader -> Seq(Chunk)],
           \A q \in Reader : q # r => reader'[q] = reader[q] /\ got'[q] = got[q],
           ReaderOf(r)'
    PROVE  StreamInv'
<1>1. StreamShape'
  BY DEF StreamInv, StreamShape
<1>2. \A q \in Reader : EndOf(q)' /\ ReaderOf(q)'
  BY DEF StreamInv, EndOf, ReaderOf
<1>3. \A e \in ToSet(cache)' : Whole(e.chunks)'
  BY DEF StreamInv, Whole
<1> QED
  BY <1>1, <1>2, <1>3 DEF StreamInv

\* The entries of the cache after a look-up, an expiry or a new answer.
LEMMA WithoutKept ==
    ASSUME NEW p, cache \in Seq(CacheEntries)
    PROVE  Without(p) \in Seq(CacheEntries) /\ ToSet(Without(p)) \subseteq ToSet(cache)
BY QueueRemaining DEF Without

LEMMA RoomKept ==
    ASSUME NEW c \in Seq(CacheEntries)
    PROVE  Room(c) \in Seq(CacheEntries) /\ ToSet(Room(c)) \subseteq ToSet(c)
<1>1. Len(c) \in Nat /\ (Len(c) >= max_size => c # <<>>)
  BY DeliveryAssumption, EmptySeq, LenProperties
<1>2. c # <<>> => Tail(c) \in Seq(CacheEntries) /\ ToSet(Tail(c)) \subseteq ToSet(c)
  BY QueueTail
<1> QED
  BY <1>1, <1>2 DEF Room

LEMMA SetKept ==
    ASSUME NEW p \in Payload, NEW s \in Seq(Chunk), cache \in Seq(CacheEntries), CacheSet(p, s)
    PROVE  cache' \in Seq(CacheEntries) /\ \A e \in ToSet(cache') : e \in ToSet(cache) \/ e.chunks = s
<1> DEFINE left == IF Cached(p) # {} THEN Without(p) ELSE Room(cache)
           new == [payload |-> p, chunks |-> s, fresh |-> TRUE]
<1>1. left \in Seq(CacheEntries) /\ ToSet(left) \subseteq ToSet(cache)
  BY WithoutKept, RoomKept
<1>2. new \in CacheEntries /\ new.chunks = s
  BY DEF CacheEntries
<1>3. cache' = Append(left, new)
  BY DEF CacheSet
<1> HIDE DEF left, new
<1>4. cache' \in Seq(CacheEntries) /\ ToSet(cache') = ToSet(left) \cup {new}
  BY <1>1, <1>2, <1>3, QueueAppend
<1> QED
  BY <1>1, <1>2, <1>4

LEMMA MuxKept ==
    ASSUME StreamInv, LockInv, NEW m \in Reader, Consume(m)
    PROVE  StreamInv'
<1>1. /\ StreamShape /\ UNCHANGED <<reader, source, got, cache>>
      /\ \A r \in Reader : EndOf(r) /\ ReaderOf(r)
      /\ \A e \in ToSet(cache) : Whole(e.chunks)
  BY DEF StreamInv, Consume, Pull, AppendChunk, Raise, TellError, End, Finish
<1>2. ~done[m] \/ Finish(m)
  BY <1>1 DEF Consume, Pull, AppendChunk, Raise, TellError, End, EndOf
<1>3. StreamShape' /\ \A k \in Reader \ {m} : /\ upstream'[k] = upstream[k] /\ chunks'[k] = chunks[k]
                                              /\ done'[k] = done[k] /\ error'[k] = error[k]
  <2>1. CASE AppendChunk(m)
    <3> DEFINE c == [of |-> m, n |-> Len(chunks[m]) + 1]
    <3>1. chunks[m] \in Seq(Chunk) /\ Len(chunks[m]) \in Nat
      BY <1>1, LenProperties DEF StreamShape
    <3>2. c \in Chunk
      BY <3>1 DEF Chunk
    <3> HIDE DEF c
    <3>3. chunks' = [chunks EXCEPT ![m] = Append(chunks[m], c)]
      BY <2>1 DEF AppendChunk, c
    <3>4. Append(chunks[m], c) \in Seq(Chunk)
      BY <3>1, <3>2, AppendProperties
    <3>5. chunks' \in [Reader -> Seq(Chunk)] /\ \A k \in Reader \ {m} : chunks'[k] = chunks[k]
      BY <1>1, <3>3, <3>4 DEF StreamShape
    <3> QED
      BY <1>1, <2>1, <3>5 DEF AppendChunk, StreamShape
  <2>2. CASE Pull(m) \/ Raise(m) \/ TellError(m) \/ End(m) \/ Finish(m)
    BY <1>1, <2>2 DEF Pull, Raise, TellError, End, Finish, StreamShape
  <2> QED
    BY <2>1, <2>2 DEF Consume
<1>4. EndOf(m)'
  BY <1>1 DEF Consume, Pull, AppendChunk, Raise, TellError, End, Finish, EndOf, StreamShape
<1>5. \A k \in Reader : EndOf(k)'
  BY <1>1, <1>3, <1>4 DEF EndOf
<1>6. \A k \in Reader : done[k] => done'[k] /\ error'[k] = error[k] /\ chunks'[k] = chunks[k]
  BY <1>1, <1>2, <1>3 DEF Finish
<1>7. ASSUME NEW k \in Reader, NEW s \in Seq(Chunk), Reads(s, chunks[k])
      PROVE  Reads(s, chunks'[k])
  <2>1. chunks'[k] = chunks[k] \/ chunks'[k] = Append(chunks[k], [of |-> m, n |-> Len(chunks[k]) + 1])
    BY <1>1, <1>3 DEF Consume, Pull, AppendChunk, Raise, TellError, End, Finish, StreamShape
  <2>2. chunks[k] \in Seq(Chunk) /\ Len(chunks[k]) \in Nat
    BY <1>1, LenProperties DEF StreamShape
  <2>3. [of |-> m, n |-> Len(chunks[k]) + 1] \in Chunk
    BY <2>2 DEF Chunk
  <2> QED
    BY <1>7, <2>1, <2>2, <2>3, ReadsMore
<1>8. ASSUME NEW r \in Reader
      PROVE  ReaderOf(r)'
  <2>1. got[r] \in Seq(Chunk) /\ (reader[r] \notin {"new", "cached", "missed"} => source[r] \in Reader)
    BY <1>1, <1>8 DEF StreamShape, LockInv, Placed
  <2>2. upstream[m] # "none"
    BY DEF Consume, Pull, AppendChunk, Raise, TellError, End, Finish
  <2>3. reader[r] \in {"new", "missed"} => upstream'[r] = "none"
    BY <1>1, <1>3, <2>2 DEF ReaderOf
  <2> QED
    BY <1>1, <1>6, <1>7, <2>1, <2>3 DEF ReaderOf
<1>9. \A e \in ToSet(cache') : Whole(e.chunks)'
  BY <1>1, <1>6 DEF Whole
<1> QED
  BY <1>3, <1>5, <1>8, <1>9 DEF StreamInv

LEMMA CallKept ==
    ASSUME StreamInv, LockInv, NEW r \in Reader, NEW p \in Asks[r], Answer(r, p) \/ Missed(r, p)
    PROVE  StreamInv'
<1>1. /\ StreamShape /\ (\A q \in Reader : EndOf(q) /\ ReaderOf(q)) /\ (\A e \in ToSet(cache) : Whole(e.chunks))
      /\ reader[r] = "new" /\ UNCHANGED <<upstream, chunks, done, error, source>>
      /\ reader \in [Reader -> Readers] /\ cache \in Seq(CacheEntries)
  BY DEF StreamInv, StreamShape, LockInv, LockShape, Answer, Missed, muxVars
<1>2. CASE Answer(r, p)
  <2>1. PICK i \in Cached(p) : got' = [got EXCEPT ![r] = cache[i].chunks] /\ cache' = Append(Without(p), cache[i])
    BY <1>2 DEF Answer, Hit
  <2>2. cache[i] \in CacheEntries /\ cache[i] \in ToSet(cache)
    BY <1>1, ElementOfSeq, LenProperties DEF Cached, ToSet
  <2>3. cache[i].chunks \in Seq(Chunk)
    BY <2>2 DEF CacheEntries
  <2>4. cache' \in Seq(CacheEntries) /\ ToSet(cache') \subseteq ToSet(cache)
    BY <1>1, <2>1, <2>2, WithoutKept, QueueAppend
  <2>5. got' \in [Reader -> Seq(Chunk)] /\ \A q \in Reader : q # r => got'[q] = got[q]
    BY <1>1, <2>1, <2>3 DEF StreamShape
  <2>6. reader'[r] = "cached" /\ \A q \in Reader : q # r => reader'[q] = reader[q]
    BY <1>1, <1>2 DEF Answer, Becomes
  <2>7. \A q \in Reader : EndOf(q)' /\ ReaderOf(q)'
    BY <1>1, <2>5, <2>6 DEF EndOf, ReaderOf
  <2>8. \A e \in ToSet(cache') : Whole(e.chunks)'
    BY <1>1, <2>4 DEF Whole
  <2> QED
    BY <1>1, <2>4, <2>5, <2>7, <2>8 DEF StreamInv, StreamShape
<1>3. CASE Missed(r, p)
  <2>1. cache' \in Seq(CacheEntries) /\ ToSet(cache') \subseteq ToSet(cache)
    BY <1>1, <1>3, WithoutKept DEF Missed, Miss
  <2>2. reader'[r] = "missed" /\ UNCHANGED got /\ \A q \in Reader : q # r => reader'[q] = reader[q]
    BY <1>1, <1>3 DEF Missed, Becomes
  <2>3. \A q \in Reader : EndOf(q)' /\ ReaderOf(q)'
    BY <1>1, <2>2 DEF EndOf, ReaderOf
  <2>4. \A e \in ToSet(cache') : Whole(e.chunks)'
    BY <1>1, <2>1 DEF Whole
  <2> QED
    BY <1>1, <2>1, <2>2, <2>3, <2>4 DEF StreamInv, StreamShape
<1> QED
  BY <1>2, <1>3

LEMMA ExpireKept ==
    ASSUME StreamInv, Expire
    PROVE  StreamInv'
<1>1. /\ StreamShape /\ (\A q \in Reader : EndOf(q) /\ ReaderOf(q)) /\ (\A e \in ToSet(cache) : Whole(e.chunks))
      /\ UNCHANGED <<reader, source, got, upstream, chunks, done, error>> /\ cache \in Seq(CacheEntries)
  BY DEF StreamInv, StreamShape, Expire, muxVars
<1>2. PICK i \in DOMAIN cache : cache' = [cache EXCEPT ![i].fresh = FALSE]
  BY DEF Expire
<1>3. cache[i] \in CacheEntries /\ [cache[i] EXCEPT !.fresh = FALSE] \in CacheEntries
  <2>1. cache[i] \in CacheEntries
    BY <1>1, ElementOfSeq, LenProperties
  <2>2. \A e \in CacheEntries : [e EXCEPT !.fresh = FALSE] \in CacheEntries
    BY DEF CacheEntries
  <2> QED
    BY <2>1, <2>2
<1>4. /\ cache' \in Seq(CacheEntries) /\ DOMAIN cache' = DOMAIN cache
      /\ \A j \in DOMAIN cache : cache'[j].chunks = cache[j].chunks
  BY <1>1, <1>2, <1>3, ExceptSeq DEF CacheEntries
<1>5. \A e \in ToSet(cache') : Whole(e.chunks)'
  BY <1>1, <1>4 DEF Whole, ToSet
<1>6. \A q \in Reader : EndOf(q)' /\ ReaderOf(q)'
  BY <1>1 DEF EndOf, ReaderOf
<1> QED
  BY <1>1, <1>4, <1>5, <1>6 DEF StreamInv, StreamShape

\* Requests that come to await a stream, or are told of it.
LEMMA JoinKept ==
    ASSUME StreamInv, LockInv, NEW r \in Reader, Join(r)
    PROVE  StreamInv'
<1>1. /\ StreamShape /\ (\A q \in Reader : EndOf(q) /\ ReaderOf(q)) /\ (\A e \in ToSet(cache) : Whole(e.chunks))
      /\ reader[r] = "missed" /\ UNCHANGED <<chunks, done, error, got, cache>>
      /\ reader \in [Reader -> Readers] /\ source \in [Reader -> Reader \cup {None}]
  BY DEF StreamInv, StreamShape, LockInv, LockShape, Join
<1>2. reader'[r] = "joining" /\ \A q \in Reader : q # r => reader'[q] = reader[q]
  BY <1>1 DEF Join, Becomes
<1>3. \A q \in Reader : q # r => source'[q] = source[q]
  BY <1>1 DEF Join
<1>4. /\ upstream' \in [Reader -> {"none", "due", "pulling", "appending", "failing", "finishing", "over"}]
      /\ upstream'[r] \in {upstream[r], "due"}
      /\ \A q \in Reader : q # r => upstream'[q] = upstream[q]
  BY <1>1 DEF Join, StreamShape
<1>5. upstream[r] = "none" /\ got[r] = <<>>
  BY <1>1 DEF ReaderOf
<1>6. \A q \in Reader : EndOf(q)'
  BY <1>1, <1>4, <1>5 DEF EndOf
<1>7. \A q \in Reader : ReaderOf(q)'
  BY <1>1, <1>2, <1>3, <1>4, <1>5 DEF ReaderOf
<1>8. \A e \in ToSet(cache') : Whole(e.chunks)'
  BY <1>1 DEF Whole
<1> QED
  BY <1>1, <1>4, <1>6, <1>7, <1>8 DEF StreamInv, StreamShape

LEMMA ResolveKept ==
    ASSUME StreamInv, LockInv, NEW m \in Reader, Resolve(m)
    PROVE  StreamInv'
<1>1. /\ StreamShape /\ (\A q \in Reader : EndOf(q) /\ ReaderOf(q)) /\ (\A e \in ToSet(cache) : Whole(e.chunks))
      /\ upstream[m] = "due" /\ UNCHANGED <<chunks, done, error, got, cache, source>>
      /\ reader \in [Reader -> Readers]
      /\ \A q \in Reader : reader[q] = "joining" => source[q] \in Reader
  BY DEF StreamInv, StreamShape, LockInv, LockShape, Resolve, Placed
<1>2. /\ upstream' \in [Reader -> {"none", "due", "pulling", "appending", "failing", "finishing", "over"}]
      /\ upstream'[m] = "pulling"
      /\ \A q \in Reader : q # m => upstream'[q] = upstream[q]
  BY <1>1 DEF Resolve, StreamShape
<1>3. \A q \in Reader : reader'[q] = reader[q] \/ (reader[q] = "joining" /\ reader'[q] = "resumed")
  BY <1>1 DEF Resolve, Joining
<1>4. \A q \in Reader : EndOf(q)'
  BY <1>1, <1>2 DEF EndOf
<1>5. \A q \in Reader : got[q] = <<>> /\ source[q] \in Reader => Reads(got[q], chunks[source[q]])
  BY <1>1, LenProperties, EmptySeq DEF Reads, StreamShape
<1>6. \A q \in Reader : ReaderOf(q)'
  BY <1>1, <1>2, <1>3, <1>5 DEF ReaderOf
<1>7. \A e \in ToSet(cache') : Whole(e.chunks)'
  BY <1>1 DEF Whole
<1> QED
  BY <1>1, <1>2, <1>4, <1>6, <1>7 DEF StreamInv, StreamShape

LEMMA GoneJoiningKept ==
    ASSUME StreamInv, LockInv, NEW r \in Reader, GoneJoining(r)
    PROVE  StreamInv'
<1>1. /\ StreamShape /\ (\A q \in Reader : EndOf(q) /\ ReaderOf(q)) /\ (\A e \in ToSet(cache) : Whole(e.chunks))
      /\ UNCHANGED <<upstream, chunks, done, error, got, cache, source>>
      /\ reader \in [Reader -> Readers]
  BY DEF StreamInv, LockInv, LockShape, GoneJoining, muxVars
<1>2. \A q \in Reader : reader'[q] = reader[q] \/ reader'[q] \in {"gone", "cut"}
  BY <1>1 DEF GoneJoining
<1>3. \A q \in Reader : EndOf(q)' /\ ReaderOf(q)'
  BY <1>1, <1>2 DEF EndOf, ReaderOf
<1>4. \A e \in ToSet(cache') : Whole(e.chunks)'
  BY <1>1 DEF Whole
<1> QED
  BY <1>1, <1>3, <1>4 DEF StreamInv, StreamShape

\* Whoever was given everything and no error leaves it in the cache.
LEMMA CloseKept ==
    ASSUME StreamInv, LockInv, NEW r \in Reader, Close(r)
    PROVE  StreamInv'
<1> DEFINE m == source[r]
<1>1. /\ StreamShape /\ (\A q \in Reader : EndOf(q) /\ ReaderOf(q)) /\ (\A e \in ToSet(cache) : Whole(e.chunks))
      /\ reader[r] = "closing" /\ UNCHANGED <<upstream, chunks, done, error, got, source>>
      /\ reader \in [Reader -> Readers] /\ cache \in Seq(CacheEntries)
      /\ m \in Reader /\ payload[r] \in Payload
  BY DEF StreamInv, StreamShape, LockInv, LockShape, Close, Placed
<1>2. got[r] = chunks[m] /\ done[m] /\ got[r] \in Seq(Chunk)
  BY <1>1 DEF ReaderOf, StreamShape
<1>3. reader'[r] \in {"ended", "failed"} /\ \A q \in Reader : q # r => reader'[q] = reader[q]
  BY <1>1 DEF Close, Becomes
<1>4. \A q \in Reader : EndOf(q)' /\ ReaderOf(q)'
  BY <1>1, <1>2, <1>3 DEF EndOf, ReaderOf
<1>5. cache' \in Seq(CacheEntries) /\ \A e \in ToSet(cache') : e \in ToSet(cache) \/ (~error[m] /\ e.chunks = got[r])
  BY <1>1, <1>2, SetKept DEF Close
<1>6. \A e \in ToSet(cache') : Whole(e.chunks)'
  BY <1>1, <1>2, <1>5 DEF Whole
<1> QED
  BY <1>1, <1>4, <1>5, <1>6 DEF StreamInv, StreamShape

LEMMA NextStreamInv == LockInv /\ StreamInv /\ [DeliveryNext]_vars => StreamInv'
<1> SUFFICES ASSUME LockInv, StreamInv, [DeliveryNext]_vars PROVE StreamInv'
  OBVIOUS
<1>1. /\ StreamShape /\ (\A q \in Reader : EndOf(q) /\ ReaderOf(q)) /\ (\A e \in ToSet(cache) : Whole(e.chunks))
      /\ reader \in [Reader -> Readers] /\ got \in [Reader -> Seq(Chunk)]
  BY DEF StreamInv, StreamShape, LockInv, LockShape
<1>2. CASE UNCHANGED vars
  BY <1>1, <1>2 DEF vars, muxVars, StreamInv, StreamShape, EndOf, ReaderOf, Whole
<1>3. ASSUME NEW r \in Reader, NEW pc, Becomes(r, pc), UNCHANGED <<upstream, chunks, done, error, cache, source>>,
             reader[r] \notin {"new", "cached", "missed", "joining", "gone", "cut"},
             pc \in {"entering", "looking", "yielding", "waiting", "dropped", "leaving", "gone"},
             \/ UNCHANGED got
             \/ /\ Len(got[r]) < Len(chunks[source[r]])
                /\ got' = [got EXCEPT ![r] = Append(@, chunks[source[r]][Len(@) + 1])]
      PROVE  StreamInv'
  <2>1. reader'[r] = pc /\ \A q \in Reader : q # r => reader'[q] = reader[q]
    BY <1>1, <1>3 DEF Becomes
  <2>2. source[r] \in Reader /\ got[r] \in Seq(Chunk) /\ chunks[source[r]] \in Seq(Chunk)
    BY <1>1, <1>3 DEF LockInv, Placed, StreamShape
  <2>3. Reads(got[r], chunks[source[r]])
    BY <1>1, <1>3 DEF ReaderOf
  <2>4. PICK s \in Seq(Chunk) : got' = [got EXCEPT ![r] = s] /\ Reads(s, chunks[source[r]])
    <3>1. CASE UNCHANGED got
      <4>1. got' = [got EXCEPT ![r] = got[r]]
        BY <1>1, <3>1
      <4> QED
        BY <2>2, <2>3, <4>1
    <3>2. CASE /\ Len(got[r]) < Len(chunks[source[r]])
               /\ got' = [got EXCEPT ![r] = Append(@, chunks[source[r]][Len(@) + 1])]
      BY <2>2, <2>3, <3>2, ReadsNext
    <3> QED
      BY <1>3, <3>1, <3>2
  <2>5. got' \in [Reader -> Seq(Chunk)] /\ got'[r] = s /\ \A q \in Reader : q # r => got'[q] = got[q]
    BY <1>1, <2>4
  <2>6. ReaderOf(r)'
    BY <1>3, <2>1, <2>4, <2>5 DEF ReaderOf
  <2> QED
    BY <1>3, <2>1, <2>5, <2>6, ReaderMoves
<1>4. ASSUME NEW r \in Reader, Begin(r) \/ Register(r) \/ Yield(r) \/ Take(r) \/ Sleep(r) \/ Wake(r)
      PROVE  StreamInv'
  BY <1>3, <1>4 DEF Begin, Register, Yield, Take, Sleep, Wake, muxVars
<1>5. ASSUME NEW r \in Reader, Collect(r) \/ Leave(r) \/ GoneResumed(r) \/ GoneWaiting(r) \/ GoneYielding(r)
      PROVE  StreamInv'
  BY <1>3, <1>5 DEF Collect, Leave, GoneResumed, GoneWaiting, GoneYielding, muxVars
<1>6. ASSUME NEW r \in Reader, ReadAll(r)
      PROVE  StreamInv'
  <2>1. source[r] \in Reader /\ got[r] \in Seq(Chunk) /\ chunks[source[r]] \in Seq(Chunk)
    BY <1>1, <1>6 DEF LockInv, Placed, StreamShape, ReadAll
  <2>2. Reads(got[r], chunks[source[r]]) /\ Len(got[r]) = Len(chunks[source[r]]) /\ done[source[r]]
    BY <1>1, <1>6 DEF ReaderOf, ReadAll, NothingToRead
  <2>3. got[r] = chunks[source[r]]
    BY <2>1, <2>2, ReadsAll
  <2>4. reader'[r] = "closing" /\ \A q \in Reader : q # r => reader'[q] = reader[q]
    BY <1>1, <1>6 DEF ReadAll, Becomes
  <2>5. UNCHANGED <<upstream, chunks, done, error, cache, source, got>>
    BY <1>6 DEF ReadAll
  <2>6. ReaderOf(r)'
    BY <2>2, <2>3, <2>4, <2>5 DEF ReaderOf
  <2> QED
    BY <1>1, <2>4, <2>5, <2>6, ReaderMoves
<1> QED
  BY <1>2, <1>4, <1>5, <1>6, CallKept, ExpireKept, JoinKept, ResolveKept, MuxKept, GoneJoiningKept, CloseKept
     DEF DeliveryNext, Iterate, Gone

-----------------------------------------------------------------------------
(* The rest of the types. *)

WaitingShape == waiters \in [Reader -> SUBSET Reader] /\ event \in SUBSET Reader

LEMMA NextWaitingShape == LockInv /\ WaitingShape /\ [DeliveryNext]_vars => WaitingShape'
<1> SUFFICES ASSUME LockInv, WaitingShape, [DeliveryNext]_vars PROVE WaitingShape'
  OBVIOUS
<1> USE DEF WaitingShape
<1>1. CASE UNCHANGED vars
  BY <1>1 DEF vars, muxVars
<1>2. CASE Expire
  BY <1>2 DEF Expire, muxVars
<1>3. ASSUME NEW r \in Reader, NEW p \in Asks[r], Answer(r, p) \/ Missed(r, p)
      PROVE  WaitingShape'
  BY <1>3 DEF Answer, Missed, muxVars
<1>4. ASSUME NEW r \in Reader, Join(r) \/ Resolve(r) \/ Consume(r)
      PROVE  WaitingShape'
  BY <1>4 DEF Join, Resolve, Consume, Pull, AppendChunk, Raise, TellError, End, Finish
<1>5. ASSUME NEW r \in Reader, Begin(r) \/ Register(r) \/ Yield(r) \/ Take(r) \/ Sleep(r) \/ Wake(r) \/ ReadAll(r)
      PROVE  WaitingShape'
  BY <1>5 DEF Begin, Register, Yield, Take, Sleep, Wake, ReadAll, muxVars
<1>6. ASSUME NEW r \in Reader, Close(r) \/ Collect(r) \/ Leave(r) \/ Gone(r)
      PROVE  WaitingShape'
  BY <1>6 DEF Close, Collect, Leave, Gone, GoneJoining, GoneResumed, GoneWaiting, GoneYielding, muxVars
<1> QED
  BY <1>1, <1>2, <1>3, <1>4, <1>5, <1>6 DEF DeliveryNext, Iterate

DeliveryInv == LockInv /\ StreamInv /\ WaitingShape

LEMMA DeliveryInvWhole == DeliveryInv => AnswersAreWhole
<1> SUFFICES ASSUME DeliveryInv PROVE AnswersAreWhole
  OBVIOUS
<1>1. LockShape /\ StreamShape /\ WaitingShape /\ \A r \in Reader : Placed(r) /\ EndOf(r) /\ ReaderOf(r)
  BY DEF DeliveryInv, LockInv, StreamInv
<1>2. TypeOK
  BY <1>1 DEF TypeOK, LockShape, StreamShape, WaitingShape, Readers, Parties
<1>3. ReadsInOrder
  <2> SUFFICES ASSUME NEW r \in Reader, reader[r] \notin {"new", "cached", "missed", "joining", "gone", "cut"}
               PROVE  /\ IsPrefix(got[r], chunks[source[r]])
                      /\ reader[r] = "ended" => /\ got[r] = chunks[source[r]]
                                                /\ upstream[source[r]] \in {"finishing", "over"}
    BY DEF ReadsInOrder
  <2>1. source[r] \in Reader /\ got[r] \in Seq(Chunk) /\ chunks[source[r]] \in Seq(Chunk)
    BY <1>1 DEF Placed, StreamShape
  <2> QED
    BY <1>1, <2>1, ReadsIsPrefix DEF ReaderOf, EndOf
<1>4. CachedIsWhole
  BY CachedWhole DEF DeliveryInv
<1> QED
  BY <1>2, <1>3, <1>4 DEF AnswersAreWhole

\* Whatever joins, reads at its own pace, sleeps, fails or disconnects, every
\* reader is given its multiplexer's chunks in order and, if it ended, all of
\* them, and the cache has whole answers only (services.py:85-211, dedup.py,
\* cache.py).
THEOREM Delivers == DeliverySpec => []AnswersAreWhole
<1>1. DeliveryInit => DeliveryInv
  <2> SUFFICES ASSUME DeliveryInit PROVE WaitingShape
    BY InitLockInv, InitStreamInv DEF DeliveryInv
  <2> QED
    BY DEF DeliveryInit, WaitingShape
<1>2. DeliveryInv /\ [DeliveryNext]_vars => DeliveryInv'
  BY NextLockInv, NextStreamInv, NextWaitingShape DEF DeliveryInv
<1> QED
  BY <1>1, <1>2, DeliveryInvWhole, PTL DEF DeliverySpec

=============================================================================
