--------------------------- MODULE ReportDoProofs ---------------------------
(***************************************************************************)
(* Proofs about internal/report and internal/configuration, for every set  *)
(* of sources of the settings and every number of results.                 *)
(***************************************************************************)
EXTENDS ReportDo, FiniteSetTheorems, SequenceTheorems, WellFoundedInduction, TLAPS

(* ------------------------------- Counting ------------------------------- *)

(* reportMutationStatus counts a finite number of mutants.                 *)
LEMMA CountsAreNat ==
  ASSUME NEW n \in Nat, NEW q, DOMAIN q = 1 .. n, NEW s
  PROVE  /\ IsFiniteSet({i \in DOMAIN q : q[i] = s})
         /\ countStatus(q, s) \in Nat
  <1>1. IsFiniteSet(1 .. n)
    BY FS_Interval
  <1>2. IsFiniteSet({i \in DOMAIN q : q[i] = s})
    <2>1. {i \in DOMAIN q : q[i] = s} \in SUBSET (1 .. n)
      OBVIOUS
    <2>2. QED
      BY <1>1, <2>1, FS_Subset
  <1>3. QED
    BY <1>2, FS_CardinalityType DEF countStatus

(* One mutant that gets another status moves from one counter to another.  *)
LEMMA CountsAfterChange ==
  ASSUME NEW n \in Nat, NEW q \in [1 .. n -> Status], NEW i \in 1 .. n,
         NEW r \in [1 .. n -> Status], r[i] # q[i], \A j \in 1 .. n : j # i => r[j] = q[j]
  PROVE  /\ countStatus(r, r[i]) = countStatus(q, r[i]) + 1
         /\ countStatus(r, q[i]) = countStatus(q, q[i]) - 1
         /\ \A s \in Status \ {r[i], q[i]} : countStatus(r, s) = countStatus(q, s)
  <1> DEFINE Q(s) == {j \in DOMAIN q : q[j] = s}
             R(s) == {j \in DOMAIN r : r[j] = s}
  <1>1. DOMAIN q = 1 .. n /\ DOMAIN r = 1 .. n
    OBVIOUS
  <1>2. \A s : IsFiniteSet(Q(s))
    BY <1>1, CountsAreNat
  <1>3. R(r[i]) = Q(r[i]) \cup {i} /\ i \notin Q(r[i])
    OBVIOUS
  <1>4. R(q[i]) = Q(q[i]) \ {i} /\ i \in Q(q[i])
    OBVIOUS
  <1>5. \A s \in Status \ {r[i], q[i]} : R(s) = Q(s)
    OBVIOUS
  <1> HIDE DEF Q
  <1>6. Cardinality(R(r[i])) = Cardinality(Q(r[i])) + 1
    <2>1. Cardinality(Q(r[i]) \cup {i}) = Cardinality(Q(r[i])) + 1
      BY <1>2, <1>3, FS_AddElement
    <2>2. QED
      BY <2>1, <1>3
  <1>7. Cardinality(R(q[i])) = Cardinality(Q(q[i])) - 1
    <2>1. Cardinality(Q(q[i]) \ {i}) = Cardinality(Q(q[i])) - 1
      BY <1>2, <1>4, FS_RemoveElement
    <2>2. QED
      BY <2>1, <1>4
  <1>8. QED
    BY <1>5, <1>6, <1>7 DEF countStatus, Q

(* Removing a mutant shortens the results by one and shifts what follows.  *)
LEMMA RemoveAtProperties ==
  ASSUME NEW S, NEW q \in Seq(S), NEW i \in 1 .. Len(q)
  PROVE  /\ RemoveAt(q, i) \in Seq(S)
         /\ Len(RemoveAt(q, i)) = Len(q) - 1
         /\ \A k \in 1 .. Len(q) - 1 : RemoveAt(q, i)[k] = IF k < i THEN q[k] ELSE q[k + 1]
  <1> DEFINE n == Len(q)
             a == SubSeq(q, 1, i - 1)
             b == SubSeq(q, i + 1, n)
  <1>1. n \in Nat /\ i \in 1 .. n /\ q \in [1 .. n -> S] /\ i - 1 \in Int /\ i + 1 \in Int
    BY LenProperties
  <1> HIDE DEF n
  <1>2. a \in Seq(S) /\ Len(a) = i - 1 /\ \A k \in 1 .. i - 1 : a[k] = q[k]
    BY <1>1
  <1>3. b \in Seq(S) /\ Len(b) = n - i /\ \A k \in 1 .. n - i : b[k] = q[k + i]
    <2>1. \A k \in i + 1 .. n : q[k] \in S
      BY <1>1
    <2>2. /\ b \in Seq(S)
          /\ Len(b) = IF i + 1 <= n THEN n - (i + 1) + 1 ELSE 0
          /\ \A k \in 1 .. n - (i + 1) + 1 : b[k] = q[(i + 1) + k - 1]
      BY <1>1, <2>1, SubSeqProperties
    <2>3. QED
      BY <1>1, <2>2
  <1> HIDE DEF a, b
  <1>4. /\ a \o b \in Seq(S) /\ Len(a \o b) = Len(a) + Len(b)
        /\ \A k \in 1 .. Len(a) + Len(b) :
               (a \o b)[k] = IF k <= Len(a) THEN a[k] ELSE b[k - Len(a)]
    BY <1>2, <1>3, ConcatProperties
  <1>5. Len(a) + Len(b) = n - 1
    BY <1>1, <1>2, <1>3
  <1>6. \A k \in 1 .. n - 1 : (a \o b)[k] = IF k < i THEN q[k] ELSE q[k + 1]
    <2> TAKE k \in 1 .. n - 1
    <2>1. (a \o b)[k] = IF k <= i - 1 THEN a[k] ELSE b[k - (i - 1)]
      BY <1>2, <1>4, <1>5
    <2>2. CASE k < i
      BY <1>1, <1>2, <2>1, <2>2
    <2>3. CASE ~(k < i)
      <3>1. k - (i - 1) \in 1 .. n - i /\ (k - (i - 1)) + i = k + 1
        BY <1>1, <2>3
      <3>2. b[k - (i - 1)] = q[k + 1]
        BY <1>3, <3>1
      <3>3. QED
        BY <1>1, <2>1, <2>3, <3>2
    <2>4. QED
      BY <2>2, <2>3
  <1>7. RemoveAt(q, i) = a \o b
    BY DEF RemoveAt, a, b, n
  <1>8. QED
    BY <1>1, <1>4, <1>5, <1>6, <1>7 DEF n

(* Removing a mutant changes the counter of its own status only.           *)
LEMMA CountsAfterRemoval ==
  ASSUME NEW q \in Seq(Status), NEW i \in 1 .. Len(q), NEW s \in Status, s # q[i]
  PROVE  countStatus(RemoveAt(q, i), s) = countStatus(q, s)
  <1> DEFINE n == Len(q)
             r == RemoveAt(q, i)
             Q == {j \in DOMAIN q : q[j] = s}
             R == {k \in DOMAIN r : r[k] = s}
             f == [j \in Q |-> IF j < i THEN j ELSE j - 1]
  <1>1. n \in Nat /\ q \in [1 .. n -> Status] /\ DOMAIN q = 1 .. n
    BY LenProperties
  <1>2. /\ r \in Seq(Status) /\ Len(r) = n - 1
        /\ \A k \in 1 .. n - 1 : r[k] = IF k < i THEN q[k] ELSE q[k + 1]
    BY RemoveAtProperties
  <1>3. DOMAIN r = 1 .. n - 1
    BY <1>2, LenProperties
  <1> HIDE DEF n, r
  <1>4. f \in [Q -> R]
    <2>1. SUFFICES ASSUME NEW j \in Q
                   PROVE  (IF j < i THEN j ELSE j - 1) \in R
      OBVIOUS
    <2>2. j \in 1 .. n /\ q[j] = s /\ j # i /\ i \in 1 .. n
      BY <1>1 DEF n
    <2>3. CASE j < i
      <3>1. j \in 1 .. n - 1
        BY <1>1, <2>2, <2>3
      <3>2. QED
        BY <1>2, <1>3, <2>2, <2>3, <3>1
    <2>4. CASE ~(j < i)
      <3>1. j - 1 \in 1 .. n - 1 /\ ~(j - 1 < i) /\ (j - 1) + 1 = j
        BY <1>1, <2>2, <2>4
      <3>2. r[j - 1] = q[j]
        BY <1>2, <3>1
      <3>3. QED
        BY <1>3, <2>2, <2>4, <3>1, <3>2
    <2>5. QED
      BY <2>3, <2>4
  <1>5. \A j1, j2 \in Q : f[j1] = f[j2] => j1 = j2
    <2> TAKE j1, j2 \in Q
    <2>1. j1 \in 1 .. n /\ j2 \in 1 .. n /\ j1 # i /\ j2 # i /\ i \in 1 .. n
      BY <1>1 DEF n
    <2>2. QED
      BY <1>1, <2>1
  <1>6. \A k \in R : \E j \in Q : f[j] = k
    <2> TAKE k \in R
    <2>1. k \in 1 .. n - 1 /\ r[k] = s /\ i \in 1 .. n
      BY <1>3 DEF n
    <2>2. CASE k < i
      <3>1. k \in Q
        BY <1>1, <1>2, <2>1, <2>2
      <3>2. QED
        BY <2>2, <3>1
    <2>3. CASE ~(k < i)
      <3>1. k + 1 \in Q /\ ~(k + 1 < i) /\ (k + 1) - 1 = k
        BY <1>1, <1>2, <2>1, <2>3
      <3>2. QED
        BY <3>1
    <2>4. QED
      BY <2>2, <2>3
  <1>7. ExistsBijection(Q, R)
    <2> HIDE DEF f, Q, R
    <2>1. f \in Bijection(Q, R)
      BY <1>4, <1>5, <1>6 DEF Bijection, Injection, Surjection, IsInjective
    <2>2. QED
      BY <2>1 DEF ExistsBijection
  <1>8. IsFiniteSet(Q)
    BY <1>1, CountsAreNat
  <1>9. Cardinality(R) = Cardinality(Q)
    <2> HIDE DEF Q, R
    <2>1. QED
      BY <1>7, <1>8, FS_Bijection
  <1>10. QED
    BY <1>9 DEF countStatus, r

(* --------------------------- The quality gate --------------------------- *)

(* newReport divides by nothing that may be zero, in a dry run or not.     *)
LEMMA FractionsAreDefined ==
  ASSUME NEW n \in Nat, NEW q, DOMAIN q = 1 .. n, NEW dry \in BOOLEAN
  PROVE  /\ tEfficacy(q, dry).den > 0 /\ tEfficacy(q, dry).num \in 0 .. tEfficacy(q, dry).den
         /\ mCovered(q, dry).den > 0 /\ mCovered(q, dry).num \in 0 .. mCovered(q, dry).den
  <1>1. /\ countStatus(q, Killed) \in Nat /\ countStatus(q, Lived) \in Nat
        /\ countStatus(q, NotCovered) \in Nat /\ countStatus(q, Runnable) \in Nat
    BY CountsAreNat
  <1>2. /\ tEfficacy(q, dry).den > 0
        /\ tEfficacy(q, dry).num \in 0 .. tEfficacy(q, dry).den
    BY <1>1 DEF tEfficacy, Fraction, Zero
  <1>3. /\ mCovered(q, dry).den > 0
        /\ mCovered(q, dry).num \in 0 .. mCovered(q, dry).den
    BY <1>1 DEF mCovered, Fraction, Zero
  <1>4. QED
    BY <1>2, <1>3

(* assess, in terms of the counters: a gate passes when it is not set or   *)
(* its percentage is above the threshold.                                  *)
PassesEfficacy(k, l, e) == e > 0 => k > 0 /\ e * (k + l) < 100 * k
PassesCoverage(t, c, e) == e > 0 => t > 0 /\ e * (t + c) < 100 * t

LEMMA AtMostByCounters ==
  ASSUME NEW a \in Nat, NEW b \in Nat, NEW e \in Int
  PROVE  /\ AtMost(Fraction(a, a + b), e) <=> ~(e * (a + b) < 100 * a)
         /\ AtMost(Zero, e) <=> 0 <= e
  <1>1. e * (a + b) \in Int /\ 100 * a \in Int /\ a * 100 = 100 * a
    OBVIOUS
  <1>2. AtMost(Fraction(a, a + b), e) <=> a * 100 <= e * (a + b)
    BY <1>1 DEF AtMost, Fraction
  <1>3. AtMost(Zero, e) <=> 0 * 100 <= e * 1
    BY DEF AtMost, Fraction, Zero
  <1>4. 0 * 100 = 0 /\ e * 1 = e
    OBVIOUS
  <1>5. QED
    BY <1>1, <1>2, <1>3, <1>4

LEMMA AssessByCounters ==
  ASSUME NEW n \in Nat, NEW q, DOMAIN q = 1 .. n, NEW et, NEW ct,
         threshold(et) \in Int, threshold(ct) \in Int
  PROVE  assess(q, FALSE, et, ct) =
             IF ~PassesEfficacy(countStatus(q, Killed), countStatus(q, Lived), threshold(et))
             THEN ExitEfficacyThreshold
             ELSE IF ~PassesCoverage(countStatus(q, Killed) + countStatus(q, Lived),
                                     countStatus(q, NotCovered), threshold(ct))
             THEN ExitMutantCoverageThreshold
             ELSE ExitOK
  <1> DEFINE k == countStatus(q, Killed)
             l == countStatus(q, Lived)
             c == countStatus(q, NotCovered)
             e == threshold(et)
             t == threshold(ct)
  <1>1. k \in Nat /\ l \in Nat /\ c \in Nat
    BY CountsAreNat
  <1>2. e \in Int /\ t \in Int
    OBVIOUS
  <1>3. tEfficacy(q, FALSE) = IF k > 0 THEN Fraction(k, k + l) ELSE Zero
    BY DEF tEfficacy
  <1>4. mCovered(q, FALSE) = IF k + l > 0 THEN Fraction(k + l, (k + l) + c) ELSE Zero
    BY DEF mCovered
  <1>5. (e > 0 /\ AtMost(tEfficacy(q, FALSE), e)) <=> ~PassesEfficacy(k, l, e)
    <2> HIDE DEF k, l, c, e, t
    <2>1. (AtMost(Fraction(k, k + l), e) <=> ~(e * (k + l) < 100 * k)) /\ (AtMost(Zero, e) <=> 0 <= e)
      BY <1>1, <1>2, AtMostByCounters
    <2>2. CASE k > 0
      <3>1. AtMost(tEfficacy(q, FALSE), e) <=> ~(e * (k + l) < 100 * k)
        BY <1>3, <2>1, <2>2
      <3>2. QED
        BY <2>2, <3>1 DEF PassesEfficacy
    <2>3. CASE ~(k > 0)
      <3>1. AtMost(tEfficacy(q, FALSE), e) <=> 0 <= e
        BY <1>3, <2>1, <2>3
      <3>2. e > 0 => 0 <= e
        BY <1>2
      <3>3. QED
        BY <2>3, <3>1, <3>2 DEF PassesEfficacy
    <2>4. QED
      BY <2>2, <2>3
  <1>6. (t > 0 /\ AtMost(mCovered(q, FALSE), t)) <=> ~PassesCoverage(k + l, c, t)
    <2> HIDE DEF k, l, c, e, t
    <2>1. k + l \in Nat
      BY <1>1
    <2>2. /\ AtMost(Fraction(k + l, (k + l) + c), t) <=> ~(t * ((k + l) + c) < 100 * (k + l))
          /\ AtMost(Zero, t) <=> 0 <= t
      BY <1>1, <1>2, <2>1, AtMostByCounters
    <2>3. CASE k + l > 0
      <3>1. AtMost(mCovered(q, FALSE), t) <=> ~(t * ((k + l) + c) < 100 * (k + l))
        BY <1>4, <2>2, <2>3
      <3>2. QED
        BY <2>3, <3>1 DEF PassesCoverage
    <2>4. CASE ~(k + l > 0)
      <3>1. AtMost(mCovered(q, FALSE), t) <=> 0 <= t
        BY <1>4, <2>2, <2>4
      <3>2. t > 0 => 0 <= t
        BY <1>2
      <3>3. QED
        BY <2>4, <3>1, <3>2 DEF PassesCoverage
    <2>5. QED
      BY <2>3, <2>4
  <1>7. QED
    BY <1>5, <1>6 DEF assess

(* The arithmetic of the gate: killing a mutant that lived, or one that    *)
(* was not covered, keeps both percentages above the thresholds.           *)
LEMMA KillingLived ==
  ASSUME NEW k \in Nat, NEW l \in Nat, NEW e \in Int, PassesEfficacy(k, l, e)
  PROVE  PassesEfficacy(k + 1, l - 1, e)
  <1>1. (k + 1) + (l - 1) = k + l /\ 100 * (k + 1) = 100 * k + 100
    OBVIOUS
  <1>2. e * (k + l) \in Int
    OBVIOUS
  <1>3. QED
    BY <1>1, <1>2 DEF PassesEfficacy

LEMMA KillingUncovered ==
  ASSUME NEW k \in Nat, NEW l \in Nat, NEW e \in Int, PassesEfficacy(k, l, e)
  PROVE  PassesEfficacy(k + 1, l, e)
  <1>1. CASE e > 0
    <2>1. k > 0 /\ e * (k + l) < 100 * k
      BY <1>1 DEF PassesEfficacy
    <2>2. e < 100
      <3>1. SUFFICES ASSUME e >= 100
                     PROVE  100 * k <= e * (k + l)
        BY <2>1
      <3>2. 100 * k <= e * k /\ e * k <= e * (k + l)
        BY <3>1
      <3>3. e * k \in Int /\ e * (k + l) \in Int
        OBVIOUS
      <3>4. QED
        BY <3>2, <3>3
    <2>3. e * ((k + 1) + l) = e * (k + l) + e /\ e * (k + l) \in Int
      OBVIOUS
    <2>4. QED
      BY <2>1, <2>2, <2>3 DEF PassesEfficacy
  <1>2. CASE ~(e > 0)
    BY <1>2 DEF PassesEfficacy
  <1>3. QED
    BY <1>1, <1>2

LEMMA CoveringMore ==
  ASSUME NEW t \in Nat, NEW c \in Nat, NEW e \in Int, PassesCoverage(t, c, e)
  PROVE  PassesCoverage(t + 1, c - 1, e)
  <1>1. (t + 1) + (c - 1) = t + c /\ 100 * (t + 1) = 100 * t + 100
    OBVIOUS
  <1>2. e * (t + c) \in Int
    OBVIOUS
  <1>3. QED
    BY <1>1, <1>2 DEF PassesCoverage

(* Do on any results: if it accepts them, it accepts them with one LIVED   *)
(* or NOT COVERED mutant KILLED instead.                                   *)
LEMMA GateIsMonotone ==
  ASSUME NEW n \in Nat, NEW q, q \in [1 .. n -> Status], NEW i \in 1 .. n,
         q[i] \in {Lived, NotCovered}, NEW et, NEW ct,
         threshold(et) \in Int, threshold(ct) \in Int,
         assess(q, FALSE, et, ct) = ExitOK
  PROVE  assess([q EXCEPT ![i] = Killed], FALSE, et, ct) = ExitOK
  <1> DEFINE r == [q EXCEPT ![i] = Killed]
             k == countStatus(q, Killed)
             l == countStatus(q, Lived)
             c == countStatus(q, NotCovered)
             e == threshold(et)
             t == threshold(ct)
  <1>1. DOMAIN q = 1 .. n /\ DOMAIN r = 1 .. n /\ r = [q EXCEPT ![i] = Killed]
    OBVIOUS
  <1> HIDE DEF r
  <1>2. k \in Nat /\ l \in Nat /\ c \in Nat
    BY <1>1, CountsAreNat
  <1>3. /\ countStatus(r, Killed) \in Nat /\ countStatus(r, Lived) \in Nat
        /\ countStatus(r, NotCovered) \in Nat
    BY <1>1, CountsAreNat
  <1>4. PassesEfficacy(k, l, e) /\ PassesCoverage(k + l, c, t)
    <2>1. assess(q, FALSE, et, ct) = IF ~PassesEfficacy(k, l, e) THEN ExitEfficacyThreshold
                                     ELSE IF ~PassesCoverage(k + l, c, t) THEN ExitMutantCoverageThreshold
                                     ELSE ExitOK
      BY <1>1, AssessByCounters
    <2>2. ExitOK # ExitEfficacyThreshold /\ ExitOK # ExitMutantCoverageThreshold
      BY DEF ExitOK, ExitEfficacyThreshold, ExitMutantCoverageThreshold
    <2>3. QED
      BY <2>1, <2>2
  <1>5. /\ countStatus(r, Killed) = k + 1
        /\ countStatus(r, q[i]) = countStatus(q, q[i]) - 1
        /\ \A s \in Status \ {Killed, q[i]} : countStatus(r, s) = countStatus(q, s)
    <2>1. Killed \in Status /\ Killed # q[i]
      BY DEF Status, Killed, Lived, NotCovered
    <2>2. r \in [1 .. n -> Status] /\ r[i] = Killed /\ \A j \in 1 .. n : j # i => r[j] = q[j]
      BY <1>1, <2>1
    <2>3. QED
      BY <2>1, <2>2, CountsAfterChange
  <1> HIDE DEF k, l, c, e, t
  <1>6. /\ PassesEfficacy(countStatus(r, Killed), countStatus(r, Lived), e)
        /\ PassesCoverage(countStatus(r, Killed) + countStatus(r, Lived), countStatus(r, NotCovered), t)
    <2>1. CASE q[i] = Lived
      <3>1. countStatus(r, Lived) = l - 1 /\ countStatus(r, NotCovered) = c
        BY <1>5, <2>1 DEF l, c, Status, Killed, Lived, NotCovered
      <3>2. PassesEfficacy(k + 1, l - 1, e)
        BY <1>2, <1>4, KillingLived DEF e
      <3>3. (k + 1) + (l - 1) = k + l
        BY <1>2
      <3>4. QED
        BY <1>4, <1>5, <3>1, <3>2, <3>3
    <2>2. CASE q[i] = NotCovered
      <3>1. countStatus(r, Lived) = l /\ countStatus(r, NotCovered) = c - 1
        BY <1>5, <2>2 DEF l, c, Status, Killed, Lived, NotCovered
      <3>2. PassesEfficacy(k + 1, l, e)
        BY <1>2, <1>4, KillingUncovered DEF e
      <3>3. PassesCoverage((k + l) + 1, c - 1, t)
        BY <1>2, <1>4, CoveringMore DEF t
      <3>4. (k + 1) + l = (k + l) + 1
        BY <1>2
      <3>5. QED
        BY <1>5, <3>1, <3>2, <3>3, <3>4
    <2>3. QED
      BY <2>1, <2>2
  <1>7. assess(r, FALSE, et, ct) =
            IF ~PassesEfficacy(countStatus(r, Killed), countStatus(r, Lived), e) THEN ExitEfficacyThreshold
            ELSE IF ~PassesCoverage(countStatus(r, Killed) + countStatus(r, Lived), countStatus(r, NotCovered), t)
            THEN ExitMutantCoverageThreshold
            ELSE ExitOK
    BY <1>1, AssessByCounters DEF e, t
  <1>8. QED
    BY <1>6, <1>7 DEF r

(* ------------------------------ The settings ---------------------------- *)

(* The least of some of the first five numbers.                            *)
LEMMA MinProperties ==
  ASSUME NEW S \in SUBSET (1 .. 5), S # {}
  PROVE  Min(S) \in S /\ \A y \in S : Min(S) <= y
  <1>1. \E x \in S : \A y \in S : x <= y
    <2>1. CASE 1 \in S
      BY <2>1
    <2>2. CASE 1 \notin S /\ 2 \in S
      BY <2>2
    <2>3. CASE 1 \notin S /\ 2 \notin S /\ 3 \in S
      BY <2>3
    <2>4. CASE 1 \notin S /\ 2 \notin S /\ 3 \notin S /\ 4 \in S
      BY <2>4
    <2>5. CASE 1 \notin S /\ 2 \notin S /\ 3 \notin S /\ 4 \notin S
      <3>1. S \subseteq {5}
        BY <2>5
      <3>2. S = {5}
        BY <3>1
      <3>3. QED
        BY <3>2
    <2>6. QED
      BY <2>1, <2>2, <2>3, <2>4, <2>5
  <1>2. QED
    BY <1>1 DEF Min

(* defaultConfigPaths, location by location.                               *)
LEMMA DefaultLocations ==
  ASSUME NEW source \in Sources
  PROVE  /\ ~source.home => 
             /\ DOMAIN defaultConfigPaths(source) = 1 .. 2
             /\ defaultConfigPaths(source)[1] = "etc"
             /\ defaultConfigPaths(source)[2] = "xdg"
         /\ source.home /\ source.module =>
             /\ DOMAIN defaultConfigPaths(source) = 1 .. 5
             /\ defaultConfigPaths(source)[1] = "etc"
             /\ defaultConfigPaths(source)[2] = "xdg"
             /\ defaultConfigPaths(source)[3] = "home"
             /\ defaultConfigPaths(source)[4] = "root"
             /\ defaultConfigPaths(source)[5] = "."
         /\ source.home /\ ~source.module =>
             /\ DOMAIN defaultConfigPaths(source) = 1 .. 4
             /\ defaultConfigPaths(source)[1] = "etc"
             /\ defaultConfigPaths(source)[2] = "xdg"
             /\ defaultConfigPaths(source)[3] = "home"
             /\ defaultConfigPaths(source)[4] = "."
  <1>1. CASE ~source.home
    BY <1>1 DEF defaultConfigPaths
  <1>2. CASE source.home /\ source.module
    BY <1>2 DEF defaultConfigPaths
  <1>3. CASE source.home /\ ~source.module
    BY <1>3 DEF defaultConfigPaths
  <1>4. QED
    BY <1>1, <1>2, <1>3

NoFile == [ok |-> FALSE, values |-> <<>>]

(* With --config, only the file it names is read.                          *)
LEMMA ReadsSpecific ==
  ASSUME NEW source \in Sources, source.config.given
  PROVE  ReadInConfig(source) =
             IF "config" \in DOMAIN source.disk /\ source.config.ext = source.config.isFile
             THEN source.disk["config"] ELSE NoFile
  <1> DEFINE paths == configPaths(source)
             found == {k \in DOMAIN paths : HasFile(source, paths[k])}
  <1>1. DOMAIN paths = 1 .. 1 /\ paths[1] = "config"
    BY DEF configPaths
  <1>2. found = IF "config" \in DOMAIN source.disk /\ source.config.ext = source.config.isFile
                THEN {1} ELSE {}
    BY <1>1 DEF HasFile
  <1>3. found # {} => Min(found) = 1
    <2>1. found # {} => Min({1}) \in {1}
      BY MinProperties
    <2>2. QED
      BY <1>2, <2>1
  <1>4. ReadInConfig(source) = IF found = {} THEN NoFile ELSE source.disk[paths[Min(found)]]
    BY DEF ReadInConfig, NoFile
  <1> HIDE DEF paths, found
  <1>5. QED
    BY <1>1, <1>2, <1>3, <1>4

(* Without --config, what is read is a file in a location, and nothing     *)
(* only when there is none, or no home to look further.                    *)
LEMMA ReadsLocation ==
  ASSUME NEW source \in Sources, ~source.config.given
  PROVE  /\ \/ ReadInConfig(source) = NoFile
            \/ \E f \in DOMAIN source.disk \cap Locations : ReadInConfig(source) = source.disk[f]
         /\ source.home /\ DOMAIN source.disk \cap Locations # {} =>
                \E f \in DOMAIN source.disk \cap Locations : ReadInConfig(source) = source.disk[f]
  <1> DEFINE paths == configPaths(source)
             found == {k \in DOMAIN paths : HasFile(source, paths[k])}
  <1>1. paths = defaultConfigPaths(source)
    BY DEF configPaths
  <1>2. ReadInConfig(source) = IF found = {} THEN NoFile ELSE source.disk[paths[Min(found)]]
    BY DEF ReadInConfig, NoFile
  <1>3. source.home \in BOOLEAN /\ source.module \in BOOLEAN /\ ("root" \in DOMAIN source.disk => source.module)
    BY ReportAssumption
  <1> HIDE DEF paths
  <1>4. DOMAIN paths \subseteq 1 .. 5 /\ \A k \in DOMAIN paths : paths[k] \in Locations /\ paths[k] # "config"
    <2>1. CASE ~source.home
      BY <1>1, <2>1, DefaultLocations DEF Locations
    <2>2. CASE source.home /\ source.module
      BY <1>1, <2>2, DefaultLocations DEF Locations
    <2>3. CASE source.home /\ ~source.module
      BY <1>1, <2>3, DefaultLocations DEF Locations
    <2>4. QED
      BY <2>1, <2>2, <2>3
  <1>5. ASSUME found # {}
        PROVE  \E f \in DOMAIN source.disk \cap Locations : ReadInConfig(source) = source.disk[f]
    <2>1. found \in SUBSET (1 .. 5)
      BY <1>4
    <2> DEFINE k == Min(found)
    <2>2. k \in found
      BY <1>5, <2>1, MinProperties
    <2>3. ReadInConfig(source) = source.disk[paths[k]]
      BY <1>2, <1>5
    <2> HIDE DEF k
    <2>4. paths[k] \in DOMAIN source.disk \cap Locations
      BY <1>4, <2>2 DEF HasFile
    <2>5. QED
      BY <2>3, <2>4
  <1>6. ASSUME source.home, NEW f \in DOMAIN source.disk \cap Locations
        PROVE  found # {}
    <2>1. f # "config"
      BY DEF Locations
    <2>2. \E k \in DOMAIN paths : paths[k] = f
      <3>1. CASE source.module
        BY <1>1, <1>6, <3>1, DefaultLocations DEF Locations
      <3>2. CASE ~source.module
        <4>1. f # "root"
          BY <1>3, <3>2
        <4>2. QED
          BY <1>1, <1>6, <3>2, <4>1, DefaultLocations DEF Locations
      <3>3. QED
        BY <3>1, <3>2
    <2>3. QED
      BY <2>1, <2>2 DEF HasFile
  <1>7. QED
    BY <1>2, <1>5, <1>6

(* The settings that are read are those of a file that may have settings,  *)
(* or none; and those of the file, when there is one only.                 *)
LEMMA ReadsConfigFile ==
  ASSUME src \in Sources
  PROVE  LET read == ReadInConfig(src)
         IN  /\ read.ok => \E f \in ConfigFiles : read = src.disk[f]
             /\ OneFile => \A f \in ConfigFiles : read = src.disk[f]
  <1>1. CASE src.config.given
    <2>1. ReadInConfig(src).ok => Usable
      BY <1>1, ReadsSpecific DEF Usable, NoFile
    <2>2. Usable => ReadInConfig(src) = src.disk["config"]
      BY <1>1, ReadsSpecific DEF Usable
    <2>3. ConfigFiles = {f \in {"config"} : Usable}
      BY <1>1 DEF ConfigFiles
    <2>4. QED
      BY <2>1, <2>2, <2>3
  <1>2. CASE ~src.config.given
    <2>1. ConfigFiles = DOMAIN src.disk \cap Locations
      BY <1>2 DEF ConfigFiles
    <2>2. ~NoFile.ok
      BY DEF NoFile
    <2>3. ReadInConfig(src).ok => \E f \in ConfigFiles : ReadInConfig(src) = src.disk[f]
      BY <1>2, <2>1, <2>2, ReadsLocation
    <2>4. ASSUME OneFile, NEW f \in ConfigFiles
          PROVE  ReadInConfig(src) = src.disk[f]
      <3>1. src.home /\ \A g \in ConfigFiles : g = f
        BY <1>2, <2>4 DEF OneFile
      <3>2. \E g \in ConfigFiles : ReadInConfig(src) = src.disk[g]
        BY <1>2, <2>1, <2>4, <3>1, ReadsLocation
      <3>3. QED
        BY <3>1, <3>2
    <2>5. QED
      BY <2>3, <2>4
  <1>3. QED
    BY <1>1, <1>2

(* What the registry has for a threshold is zero, or a number that is      *)
(* asked for; and each that is, when it stands in the only file and in no  *)
(* flag and no variable.                                                   *)
LEMMA ThresholdIsAsked ==
  ASSUME src \in Sources, NEW key \in {"efficacy", "mcoverage"}
  PROVE  LET n == threshold(Registry(src, Defaults)[key])
         IN  /\ n \in Int
             /\ n # 0 => n \in Asked(key)
             /\ OneFile /\ key \notin DOMAIN src.flag \cup DOMAIN src.env => \A a \in Asked(key) : a = n
  <1> DEFINE read == ReadInConfig(src)
             file == IF read.ok THEN read.values ELSE <<>>
             value == IF key \in DOMAIN src.flag THEN src.flag[key]
                      ELSE IF key \in DOMAIN src.env THEN src.env[key]
                      ELSE IF key \in DOMAIN file THEN file[key]
                      ELSE Defaults[key]
             n == threshold(value)
  <1>1. Registry(src, Defaults)[key] = value
    BY SMTT(30) DEF Registry, Defaults
  <1>2. \A v \in FloatValue \cup IntValue : threshold(v) = v.n /\ v.n \in Int
    BY DEF FloatValue, IntValue, threshold, GetAs
  <1>3. \A v \in BoolValue \cup StringValue : threshold(v) = 0 /\ v \notin FloatValue \cup IntValue
    BY DEF FloatValue, IntValue, BoolValue, StringValue, threshold, GetAs
  <1>4. Defaults[key] \in StringValue
    BY DEF Defaults, Text, StringValue
  <1>5. key \in DOMAIN src.flag => src.flag[key] \in StringValue
    BY ReportAssumption
  <1>6. key \in DOMAIN src.env => src.env[key] \in StringValue
    BY ReportAssumption
  <1>7. CASE key \in DOMAIN src.flag \cup DOMAIN src.env
    <2>1. value \in StringValue
      BY <1>5, <1>6, <1>7
    <2> HIDE DEF value
    <2>2. QED
      BY <1>1, <1>3, <1>7, <2>1
  <1>8. CASE key \notin DOMAIN src.flag \cup DOMAIN src.env
    <2>1. Asked(key) = UNION {NumbersIn(f, key) : f \in ConfigFiles}
      BY <1>8 DEF Asked
    <2>2. /\ read.ok => \E f \in ConfigFiles : read = src.disk[f]
          /\ OneFile => \A f \in ConfigFiles : read = src.disk[f]
      BY ReadsConfigFile
    <2>3. \A f \in ConfigFiles : f \in DOMAIN src.disk
      BY DEF ConfigFiles, Usable
    <2>4. \A f \in ConfigFiles : key \in DOMAIN src.disk[f].values =>
              src.disk[f].values[key] \in FloatValue \cup IntValue \cup BoolValue \cup StringValue
      BY <2>3, ReportAssumption
    <2>5. value = IF key \in DOMAIN file THEN file[key] ELSE Defaults[key]
      BY <1>8
    <2> HIDE DEF read, value
    <2>6. CASE read.ok /\ key \in DOMAIN read.values
      <3>1. PICK f \in ConfigFiles : read = src.disk[f]
        BY <2>2, <2>6
      <3>2. value = src.disk[f].values[key]
        BY <2>5, <2>6, <3>1
      <3>3. value \in FloatValue \cup IntValue => n = value.n /\ n \in Int /\ NumbersIn(f, key) = {n}
        BY <1>2, <2>6, <3>1, <3>2 DEF NumbersIn
      <3>4. value \notin FloatValue \cup IntValue => n = 0 /\ NumbersIn(f, key) = {}
        BY <1>3, <2>4, <2>6, <3>1, <3>2 DEF NumbersIn
      <3>5. OneFile => \A g \in ConfigFiles : g = f
        BY DEF OneFile
      <3> HIDE DEF n
      <3>6. n \in Int /\ (n # 0 => n \in Asked(key))
        BY <2>1, <3>3, <3>4
      <3>7. OneFile => \A a \in Asked(key) : a = n
        BY <2>1, <3>3, <3>4, <3>5
      <3>8. QED
        BY <1>1, <3>6, <3>7 DEF n
    <2>7. CASE ~(read.ok /\ key \in DOMAIN read.values)
      <3>1. value = Defaults[key]
        BY <2>5, <2>7
      <3>2. n = 0
        BY <1>3, <1>4, <3>1
      <3>3. OneFile => \A f \in ConfigFiles : NumbersIn(f, key) = {}
        BY <2>2, <2>7 DEF NumbersIn
      <3> HIDE DEF n
      <3>4. OneFile => Asked(key) = {}
        BY <2>1, <3>3
      <3>5. QED
        BY <1>1, <3>2, <3>4 DEF n
    <2>8. QED
      BY <2>6, <2>7
  <1>9. QED
    BY <1>7, <1>8

(* ----------------------------- The invariant ---------------------------- *)

Reported == [file : {m.file : m \in Mutants}, type : {m.type : m \in Mutants}, status : Status]

(* Results have a status each; nothing is collected before the registry is *)
(* filled, which never fails half-way; and an exit code is the failure to  *)
(* read the configuration, or what Do makes of the results there are.      *)
ReportInv ==
    /\ src \in Sources
    /\ results \in Seq(Reported)
    /\ settings \in {<<>>, Registry(src, Defaults)}
    /\ ~Configured => results = <<>>
    /\ Configured => ~InitError(src)
    /\ exitCode # -1 => IF Configured THEN exitCode = Verdict(Statuses(results))
                        ELSE exitCode = ExitFailure /\ InitError(src)

LEMMA RegistryIsFilled ==
  ASSUME NEW source
  PROVE  Registry(source, Defaults) # <<>>
  <1>1. "efficacy" \in DOMAIN Registry(source, Defaults)
    BY DEF Registry, Defaults
  <1>2. DOMAIN <<>> = {}
    OBVIOUS
  <1>3. QED
    BY <1>1, <1>2

LEMMA InitEstablishes == Init => ReportInv
  BY DEF Init, ReportInv, Configured

LEMMA NextPreserves == ReportInv /\ [Next]_vars => ReportInv'
  <1> SUFFICES ASSUME ReportInv, [Next]_vars
               PROVE  ReportInv'
    OBVIOUS
  <1>1. ASSUME Configure
        PROVE  ReportInv'
    BY <1>1, RegistryIsFilled DEF Configure, ReportInv, Configured
  <1>2. ASSUME ConfigureFails
        PROVE  ReportInv'
    BY <1>2 DEF ConfigureFails, ReportInv, Configured
  <1>3. ASSUME NEW m \in Mutants, NEW s \in ReportedStatus, Collect(m, s)
        PROVE  ReportInv'
    <2>1. s \in Status
      BY DEF ReportedStatus, Status, FoundStatus, TestedStatus
    <2>2. [file |-> m.file, type |-> m.type, status |-> s] \in Reported
      BY <2>1 DEF Reported
    <2>3. results' \in Seq(Reported)
      BY <1>3, <2>2 DEF Collect, ReportInv
    <2>4. QED
      BY <1>3, <2>3 DEF Collect, ReportInv, Configured
  <1>4. ASSUME ReportAndAssess
        PROVE  ReportInv'
    <2>1. /\ exitCode' = Verdict(Statuses(results))
          /\ UNCHANGED <<src, settings, results>> /\ Configured
      BY <1>4 DEF ReportAndAssess, Verdict
    <2>2. Verdict(Statuses(results))' = Verdict(Statuses(results))
      BY <2>1 DEF Verdict, Statuses, dryRun, Configured
    <2>3. QED
      BY <2>1, <2>2 DEF ReportInv, Configured
  <1>5. ASSUME UNCHANGED vars
        PROVE  ReportInv'
    BY <1>5 DEF vars, ReportInv, Configured, Verdict, Statuses, dryRun
  <1>6. QED
    BY <1>1, <1>2, <1>3, <1>4, <1>5 DEF Next, Terminated

(* Every reachable state of a run satisfies the invariant.                 *)
THEOREM ReportInvariance == Spec => []ReportInv
  BY InitEstablishes, NextPreserves, PTL DEF Spec

(* The statuses of the results.                                            *)
LEMMA StatusesOfResults ==
  ASSUME ReportInv
  PROVE  /\ Len(results) \in Nat /\ DOMAIN results = 1 .. Len(results)
         /\ Statuses(results) \in [1 .. Len(results) -> Status]
         /\ Statuses(results) \in Seq(Status) /\ Len(Statuses(results)) = Len(results)
         /\ \A i \in DOMAIN results : Statuses(results)[i] = results[i].status
  <1>1. results \in Seq(Reported)
    BY DEF ReportInv
  <1>2. /\ Len(results) \in Nat /\ DOMAIN results = 1 .. Len(results)
        /\ results \in [1 .. Len(results) -> Reported]
    BY <1>1, LenProperties
  <1>3. Statuses(results) \in [1 .. Len(results) -> Status]
    BY <1>2 DEF Statuses, Reported
  <1>4. Statuses(results) \in Seq(Status) /\ Len(Statuses(results)) = Len(results)
    BY <1>2, <1>3
  <1>5. QED
    BY <1>2, <1>3, <1>4 DEF Statuses

(* Once configured, the thresholds are numbers, as they were asked for.    *)
LEMMA ThresholdsOfSettings ==
  ASSUME ReportInv, Configured
  PROVE  LET asked(n, key) ==
                 /\ n \in Int
                 /\ n # 0 => n \in Asked(key)
                 /\ OneFile /\ key \notin DOMAIN src.flag \cup DOMAIN src.env => \A a \in Asked(key) : a = n
         IN  asked(threshold(settings.efficacy), "efficacy") /\ asked(threshold(settings.mcoverage), "mcoverage")
  <1>1. src \in Sources /\ settings = Registry(src, Defaults)
    BY DEF ReportInv, Configured
  <1>2. settings["efficacy"] = settings.efficacy /\ settings["mcoverage"] = settings.mcoverage
    OBVIOUS
  <1>3. QED
    BY <1>1, <1>2, ThresholdIsAsked

(* ------------------------------- Theorems ------------------------------- *)

(* newReport never divides by zero, and no percentage exceeds 100, for any *)
(* number of mutants in any mixture of statuses.                           *)
THEOREM DefinedPercentages == Spec => []PercentagesAreDefined
  <1>1. ReportInv => PercentagesAreDefined
    <2> SUFFICES ASSUME ReportInv
                 PROVE  PercentagesAreDefined
      OBVIOUS
    <2>1. Len(results) \in Nat /\ DOMAIN Statuses(results) = 1 .. Len(results)
      BY StatusesOfResults
    <2>2. dryRun \in BOOLEAN
      BY DEF dryRun
    <2>3. QED
      BY <2>1, <2>2, FractionsAreDefined DEF PercentagesAreDefined
  <1>2. QED
    BY <1>1, ReportInvariance, PTL

(* A run that assess accepts is accepted with one LIVED or NOT COVERED     *)
(* mutant KILLED instead, whatever the thresholds and the results.         *)
THEOREM BetterTestsPass == Spec => []KillingMoreNeverFails
  <1>1. ReportInv => KillingMoreNeverFails
    <2> SUFFICES ASSUME ReportInv, exitCode = ExitOK, NEW i \in DOMAIN results,
                        ~dryRun, results[i].status \in {Lived, NotCovered}
                 PROVE  Verdict([Statuses(results) EXCEPT ![i] = Killed]) = ExitOK
      BY DEF KillingMoreNeverFails
    <2> DEFINE q == Statuses(results)
               r == [q EXCEPT ![i] = Killed]
               n == Len(results)
    <2>1. n \in Nat /\ q \in [1 .. n -> Status] /\ i \in 1 .. n /\ q[i] \in {Lived, NotCovered}
      BY StatusesOfResults
    <2>2. Configured /\ exitCode = Verdict(q)
      BY DEF ReportInv, ExitOK, ExitFailure
    <2>3. threshold(settings.efficacy) \in Int /\ threshold(settings.mcoverage) \in Int
      BY <2>2, ThresholdsOfSettings
    <2>4. dryRun = FALSE
      BY DEF dryRun
    <2> HIDE DEF q, n
    <2>5. q # <<>> /\ r # <<>>
      BY <2>1
    <2>6. assess(q, FALSE, settings.efficacy, settings.mcoverage) = ExitOK
      BY <2>2, <2>4, <2>5 DEF Verdict, Do
    <2>7. assess(r, FALSE, settings.efficacy, settings.mcoverage) = ExitOK
      BY <2>1, <2>3, <2>6, GateIsMonotone
    <2>8. QED
      BY <2>4, <2>5, <2>7 DEF Verdict, Do, q
  <1>2. QED
    BY <1>1, ReportInvariance, PTL

(* A mutant that is neither KILLED nor LIVED may be left out: whether the  *)
(* efficacy fails stays the same, and the verdict does, too, when it is    *)
(* not NOT COVERED either.                                                 *)
LEMMA UncountedMayBeLeftOut ==
  ASSUME NEW q \in Seq(Status), NEW i \in 1 .. Len(q), NEW et, NEW ct,
         threshold(et) \in Int, threshold(ct) \in Int, q[i] \notin {Killed, Lived}
  PROVE  LET without == assess(RemoveAt(q, i), FALSE, et, ct)
             with    == assess(q, FALSE, et, ct)
         IN  /\ without = ExitEfficacyThreshold <=> with = ExitEfficacyThreshold
             /\ q[i] # NotCovered => without = with
  <1> DEFINE r == RemoveAt(q, i)
  <1>1. /\ Len(q) \in Nat /\ DOMAIN q = 1 .. Len(q)
        /\ Len(q) - 1 \in Nat /\ DOMAIN r = 1 .. Len(q) - 1
    BY SMTT(30), RemoveAtProperties, LenProperties
  <1>2. countStatus(r, Killed) = countStatus(q, Killed) /\ countStatus(r, Lived) = countStatus(q, Lived)
    BY CountsAfterRemoval DEF Status
  <1>3. NotCovered # q[i] => countStatus(r, NotCovered) = countStatus(q, NotCovered)
    BY CountsAfterRemoval DEF Status
  <1> DEFINE rE == PassesEfficacy(countStatus(r, Killed), countStatus(r, Lived), threshold(et))
             qE == PassesEfficacy(countStatus(q, Killed), countStatus(q, Lived), threshold(et))
             rC == PassesCoverage(countStatus(r, Killed) + countStatus(r, Lived),
                                  countStatus(r, NotCovered), threshold(ct))
             qC == PassesCoverage(countStatus(q, Killed) + countStatus(q, Lived),
                                  countStatus(q, NotCovered), threshold(ct))
  <1>4. assess(q, FALSE, et, ct) = IF ~qE THEN ExitEfficacyThreshold
                                   ELSE IF ~qC THEN ExitMutantCoverageThreshold
                                   ELSE ExitOK
    BY <1>1, AssessByCounters
  <1> HIDE DEF r
  <1>5. assess(r, FALSE, et, ct) = IF ~rE THEN ExitEfficacyThreshold
                                   ELSE IF ~rC THEN ExitMutantCoverageThreshold
                                   ELSE ExitOK
    BY <1>1, AssessByCounters
  <1>6. rE <=> qE
    BY <1>2 DEF PassesEfficacy
  <1>7. q[i] # NotCovered => (rC <=> qC)
    BY <1>2, <1>3 DEF PassesCoverage
  <1> HIDE DEF rE, qE, rC, qC
  <1>8. assess(r, FALSE, et, ct) = ExitEfficacyThreshold <=> assess(q, FALSE, et, ct) = ExitEfficacyThreshold
    <2>1. \A c : c \in {ExitMutantCoverageThreshold, ExitOK} => c # ExitEfficacyThreshold
      BY DEF ExitEfficacyThreshold, ExitMutantCoverageThreshold, ExitOK
    <2>2. CASE qE
      BY <1>4, <1>5, <1>6, <2>1, <2>2
    <2>3. CASE ~qE
      BY <1>4, <1>5, <1>6, <2>3
    <2>4. QED
      BY <2>2, <2>3
  <1>9. ASSUME q[i] # NotCovered
        PROVE  assess(r, FALSE, et, ct) = assess(q, FALSE, et, ct)
    <2>1. CASE qE /\ qC
      BY <1>4, <1>5, <1>6, <1>7, <1>9, <2>1
    <2>2. CASE qE /\ ~qC
      BY <1>4, <1>5, <1>6, <1>7, <1>9, <2>2
    <2>3. CASE ~qE
      BY <1>4, <1>5, <1>6, <2>3
    <2>4. QED
      BY <2>1, <2>2, <2>3
  <1>10. QED
    BY <1>8, <1>9 DEF r

(* The exit code stays what it is when a NOT VIABLE mutant is taken out of *)
(* a report that has others, and the failure of the efficacy when any that *)
(* is neither KILLED nor LIVED is.                                         *)
THEOREM GatesLookAtTheirOwn == Spec => []OnlyCountedMutantsDecide
  <1>1. ReportInv => OnlyCountedMutantsDecide
    <2> DEFINE q == Statuses(results)
    <2>0. ASSUME ReportInv, NEW i \in DOMAIN results, exitCode # -1, Len(results) > 1,
                 results[i].status \notin {Killed, Lived}
          PROVE  LET without == Verdict(RemoveAt(q, i))
                 IN  /\ without = ExitEfficacyThreshold <=> exitCode = ExitEfficacyThreshold
                     /\ q[i] # NotCovered => without = exitCode
      <3> DEFINE r == RemoveAt(q, i)
                 et == settings.efficacy
                 ct == settings.mcoverage
      <3>1. /\ q \in Seq(Status) /\ Len(q) = Len(results) /\ Len(results) \in Nat
            /\ i \in 1 .. Len(q) /\ q[i] = results[i].status
        BY <2>0, StatusesOfResults
      <3>2. Configured /\ exitCode = Verdict(q)
        <4>1. results # <<>>
          BY <2>0, <3>1
        <4>2. QED
          BY <2>0, <4>1 DEF ReportInv
      <3>3. threshold(et) \in Int /\ threshold(ct) \in Int
        BY <2>0, <3>2, ThresholdsOfSettings
      <3>4. q[i] \notin {Killed, Lived}
        BY <2>0, <3>1
      <3> HIDE DEF q, et, ct
      <3>5. q # <<>> /\ r # <<>>
        <4>1. Len(r) = Len(q) - 1
          BY <3>1, RemoveAtProperties
        <4>2. QED
          BY <2>0, <3>1, <4>1
      <3>6. /\ assess(r, FALSE, et, ct) = ExitEfficacyThreshold
                <=> assess(q, FALSE, et, ct) = ExitEfficacyThreshold
            /\ q[i] # NotCovered => assess(r, FALSE, et, ct) = assess(q, FALSE, et, ct)
        BY ZenonT(30), <3>1, <3>3, <3>4, UncountedMayBeLeftOut
      <3> HIDE DEF r
      <3>7. dryRun \in BOOLEAN
        BY DEF dryRun
      <3>8. CASE dryRun = FALSE
        <4>1. Verdict(q) = assess(q, FALSE, et, ct) /\ Verdict(r) = assess(r, FALSE, et, ct)
          BY <3>5, <3>8 DEF Verdict, Do, et, ct
        <4>2. QED
          BY <3>2, <3>6, <4>1 DEF r
      <3>9. CASE dryRun = TRUE
        <4>1. Verdict(q) = ExitOK /\ Verdict(r) = ExitOK
          BY <3>5, <3>9 DEF Verdict, Do, assess
        <4>2. QED
          BY <3>2, <4>1 DEF r
      <3>10. QED
        BY <3>7, <3>8, <3>9
    <2>1. NotViable \notin {Killed, Lived, NotCovered}
      BY DEF NotViable, Killed, Lived, NotCovered
    <2>2. ReportInv => \A i \in DOMAIN results : q[i] = results[i].status
      BY StatusesOfResults
    <2>3. QED
      BY <2>0, <2>1, <2>2 DEF OnlyCountedMutantsDecide
  <1>2. QED
    BY <1>1, ReportInvariance, PTL

(* A threshold fails as the percentage is at most it, also when nothing    *)
(* was counted.                                                            *)
LEMMA FailsByCounters ==
  ASSUME NEW a \in Nat, NEW b \in Nat, NEW e \in Int
  PROVE  /\ ~PassesEfficacy(a, b, e) <=> e > 0 /\ 100 * a <= e * (a + b)
         /\ ~PassesCoverage(a, b, e) <=> e > 0 /\ 100 * a <= e * (a + b)
  <1>1. e * (a + b) \in Int /\ 100 * a \in Int
    OBVIOUS
  <1>2. e > 0 /\ a = 0 => 100 * a = 0 /\ 0 <= e * (a + b)
    OBVIOUS
  <1>3. QED
    BY <1>1, <1>2 DEF PassesEfficacy, PassesCoverage

(* Init fails for a --config with an extension that cannot be used, and    *)
(* for nothing else.                                                       *)
LEMMA InitFailsWhenUnusable ==
  ASSUME src \in Sources
  PROVE  InitError(src) <=> isSpecificFile(src) /\ ~Usable
  <1>1. CASE isSpecificFile(src)
    <2>1. src.config.given
      BY <1>1 DEF isSpecificFile
    <2>2. QED
      BY <1>1, <2>1, ReadsSpecific DEF InitError, Usable, NoFile
  <1>2. CASE ~isSpecificFile(src)
    BY <1>2 DEF InitError
  <1>3. QED
    BY <1>1, <1>2

LEMMA SharesAreNumbers ==
  ASSUME ReportInv, NEW key
  PROVE  Share(key).num \in Int /\ Share(key).den \in Int
  <1> DEFINE n(s) == countStatus(Statuses(results), s)
  <1>1. Len(results) \in Nat /\ DOMAIN Statuses(results) = 1 .. Len(results)
    BY StatusesOfResults
  <1>2. n(Killed) \in Nat /\ n(Lived) \in Nat /\ n(NotCovered) \in Nat
    BY <1>1, CountsAreNat
  <1> HIDE DEF n
  <1>3. Share(key) \in {Fraction(n(Killed), n(Killed) + n(Lived)),
                        Fraction(n(Killed) + n(Lived), n(Killed) + n(Lived) + n(NotCovered))}
    BY DEF Share, n
  <1>4. QED
    BY <1>2, <1>3 DEF Fraction

(* An exit code of the gates is an assessment, and the counters decide.    *)
LEMMA JudgedByCounters ==
  ASSUME ReportInv, RunJudged
  PROVE  LET e == threshold(settings.efficacy)
             c == threshold(settings.mcoverage)
             fails(key, n) == n > 0 /\ 100 * Share(key).num <= n * Share(key).den
         IN  exitCode = IF fails("efficacy", e) THEN ExitEfficacyThreshold
                        ELSE IF fails("mcoverage", c) THEN ExitMutantCoverageThreshold
                        ELSE ExitOK
  <1> DEFINE q == Statuses(results)
             k == countStatus(q, Killed)
             l == countStatus(q, Lived)
             nc == countStatus(q, NotCovered)
             et == settings.efficacy
             ct == settings.mcoverage
  <1>1. /\ Len(results) \in Nat /\ DOMAIN q = 1 .. Len(results)
        /\ q \in Seq(Status) /\ Len(q) = Len(results) /\ results \in Seq(Reported)
    BY StatusesOfResults DEF ReportInv
  <1>2. q # <<>>
    BY <1>1 DEF RunJudged
  <1>3. dryRun = FALSE /\ Configured /\ exitCode # -1
    BY DEF RunJudged, dryRun
  <1>4. threshold(et) \in Int /\ threshold(ct) \in Int
    BY <1>3, ThresholdsOfSettings
  <1>5. exitCode = assess(q, FALSE, et, ct)
    BY <1>2, <1>3 DEF ReportInv, Verdict, Do
  <1>6. k \in Nat /\ l \in Nat /\ nc \in Nat
    BY <1>1, CountsAreNat
  <1>7. /\ Share("efficacy").num = k /\ Share("efficacy").den = k + l
        /\ Share("mcoverage").num = k + l /\ Share("mcoverage").den = k + l + nc
    BY DEF Share, Fraction
  <1> HIDE DEF et, ct, q
  <1>8. assess(q, FALSE, et, ct) = IF ~PassesEfficacy(k, l, threshold(et)) THEN ExitEfficacyThreshold
                                   ELSE IF ~PassesCoverage(k + l, nc, threshold(ct))
                                   THEN ExitMutantCoverageThreshold
                                   ELSE ExitOK
    BY <1>1, <1>4, AssessByCounters
  <1> HIDE DEF k, l, nc
  <1>9. ~PassesEfficacy(k, l, threshold(et)) <=> threshold(et) > 0 /\ 100 * k <= threshold(et) * (k + l)
    BY <1>4, <1>6, FailsByCounters
  <1>10. ~PassesCoverage(k + l, nc, threshold(ct))
         <=> threshold(ct) > 0 /\ 100 * (k + l) <= threshold(ct) * ((k + l) + nc)
    <2>1. k + l \in Nat
      BY <1>6
    <2>2. QED
      BY <1>4, <1>6, <2>1, FailsByCounters
  <1>11. QED
    BY <1>5, <1>7, <1>8, <1>9, <1>10 DEF et, ct

(* What the invariant says of the exit code, in terms of what was asked.   *)
LEMMA GateFromInvariant == ReportInv => GateIsTheConfiguredOne
  <1> SUFFICES ASSUME ReportInv
               PROVE  GateIsTheConfiguredOne
    OBVIOUS
  <1> DEFINE code(key) == IF key = "efficacy" THEN ExitEfficacyThreshold ELSE ExitMutantCoverageThreshold
             e == threshold(settings.efficacy)
             c == threshold(settings.mcoverage)
             fails(key, n) == n > 0 /\ 100 * Share(key).num <= n * Share(key).den
  <1>1. exitCode # -1 => (exitCode = ExitFailure <=> isSpecificFile(src) /\ ~Usable)
    <2> SUFFICES ASSUME exitCode # -1
                 PROVE  exitCode = ExitFailure <=> isSpecificFile(src) /\ ~Usable
      OBVIOUS
    <2>1. InitError(src) <=> isSpecificFile(src) /\ ~Usable
      BY InitFailsWhenUnusable DEF ReportInv
    <2>2. CASE Configured
      <3>1. exitCode = Verdict(Statuses(results)) /\ ~InitError(src)
        BY <2>2 DEF ReportInv
      <3>2. exitCode \in {ExitOK, ExitEfficacyThreshold, ExitMutantCoverageThreshold}
        BY <3>1 DEF Verdict, Do, assess
      <3>3. exitCode # ExitFailure
        BY <3>2 DEF ExitOK, ExitEfficacyThreshold, ExitMutantCoverageThreshold, ExitFailure
      <3>4. QED
        BY <2>1, <3>1, <3>3
    <2>3. CASE ~Configured
      BY <2>1, <2>3 DEF ReportInv
    <2>4. QED
      BY <2>2, <2>3
  <1>2. exitCode \in {ExitEfficacyThreshold, ExitMutantCoverageThreshold} => RunJudged
    <2> SUFFICES ASSUME exitCode \in {ExitEfficacyThreshold, ExitMutantCoverageThreshold}
                 PROVE  RunJudged
      OBVIOUS
    <2>1. exitCode \notin {-1, ExitFailure, ExitOK}
      BY DEF ExitOK, ExitEfficacyThreshold, ExitMutantCoverageThreshold, ExitFailure
    <2>2. Configured /\ exitCode = Verdict(Statuses(results))
      BY <2>1 DEF ReportInv
    <2>3. ~dryRun /\ Statuses(results) # <<>>
      BY <2>1, <2>2 DEF Verdict, Do, assess
    <2>4. results # <<>>
      BY <2>3 DEF Statuses
    <2>5. QED
      BY <2>1, <2>2, <2>3, <2>4 DEF RunJudged
  <1>3. ASSUME RunJudged
        PROVE  exitCode = IF fails("efficacy", e) THEN ExitEfficacyThreshold
                          ELSE IF fails("mcoverage", c) THEN ExitMutantCoverageThreshold
                          ELSE ExitOK
    BY <1>3, JudgedByCounters
  <1>4. RunJudged => Configured
    BY DEF RunJudged
  <1>5. ASSUME NEW key \in {"efficacy", "mcoverage"}, exitCode = code(key)
        PROVE  RunJudged /\ \E n \in Asked(key) : ~Exceeded(Share(key), n)
    <2>1. RunJudged
      BY <1>2, <1>5
    <2>2. e \in Int /\ c \in Int /\ (e # 0 => e \in Asked("efficacy")) /\ (c # 0 => c \in Asked("mcoverage"))
      BY <1>4, <2>1, ThresholdsOfSettings
    <2>3. Share(key).num \in Int /\ Share(key).den \in Int
      BY SharesAreNumbers
    <2> HIDE DEF e, c
    <2>4. \E n \in Int : n # 0 /\ n \in Asked(key) /\ fails(key, n)
      BY <1>3, <1>5, <2>1, <2>2 DEF ExitOK, ExitEfficacyThreshold, ExitMutantCoverageThreshold
    <2>5. PICK n \in Int : n # 0 /\ n \in Asked(key) /\ fails(key, n)
      BY <2>4
    <2>6. ~Exceeded(Share(key), n)
      BY <2>3, <2>5 DEF Exceeded
    <2>7. QED
      BY <2>1, <2>5, <2>6
  <1>6. ASSUME NEW key \in {"efficacy", "mcoverage"}, RunJudged, OneFile,
               key \notin DOMAIN src.flag \cup DOMAIN src.env, NEW n \in Asked(key), Missed(Share(key), n)
        PROVE  exitCode \in {ExitEfficacyThreshold, code(key)}
    <2>1. /\ e \in Int /\ c \in Int
          /\ key = "efficacy" => n = e
          /\ key = "mcoverage" => n = c
      BY <1>4, <1>6, ThresholdsOfSettings
    <2>2. Share(key).num \in Int /\ Share(key).den \in Int
      BY SharesAreNumbers
    <2>3. n \in Int
      BY <2>1
    <2> HIDE DEF e, c
    <2>4. fails(key, n)
      BY <1>6, <2>2, <2>3 DEF Missed
    <2>5. QED
      BY <1>3, <1>6, <2>1, <2>4
  <1>7. QED
    BY <1>1, <1>5, <1>6 DEF GateIsTheConfiguredOne

(* From the sources of the settings to the exit code: Init fails exactly   *)
(* when the file that --config names is unusable; a gate fails for a       *)
(* number that was asked for and is not exceeded, and a number in the only *)
(* file that is missed fails the run, whatever the sources, the results    *)
(* and the numbers.                                                        *)
THEOREM ConfiguredGateDecides == Spec => []GateIsTheConfiguredOne
  BY GateFromInvariant, ReportInvariance, PTL

(* --------------------------- The output file ---------------------------- *)

LessThan == {p \in Nat \X Nat : p[1] < p[2]}

(* Induction, in a form without a predicate: a set of numbers has a least. *)
LEMMA LeastNumber ==
  ASSUME NEW S \in SUBSET Nat, S # {}
  PROVE  \E n \in S : \A m \in S : n <= m
  <1>1. IsWellFoundedOn(LessThan, Nat)
    BY NatLessThanWellFounded DEF OpToRel, LessThan
  <1>2. PICK n \in S : \A m \in S : ~ (<<m, n>> \in LessThan)
    BY <1>1, WFMin
  <1>3. ASSUME NEW m \in S
        PROVE  n <= m
    <2>1. m \in Nat /\ n \in Nat
      OBVIOUS
    <2>2. ~ (m < n)
      BY <1>2, <2>1 DEF LessThan
    <2>3. QED
      BY <2>1, <2>2
  <1>4. QED
    BY <1>3

(* A set of numbers with 0 and, with each number but the last, the next.   *)
LEMMA UpTo ==
  ASSUME NEW N \in Nat, NEW S, 0 \in S, \A n \in 0 .. N - 1 : n \in S => n + 1 \in S
  PROVE  \A n \in 0 .. N : n \in S
  <1> DEFINE B == (0 .. N) \ S
  <1> SUFFICES ASSUME B # {}
               PROVE  FALSE
    OBVIOUS
  <1>1. PICK k \in B : \A m \in B : k <= m
    <2>1. B \in SUBSET Nat
      OBVIOUS
    <2>2. QED
      BY <2>1, LeastNumber
  <1>2. k \in 0 .. N /\ k \notin S /\ k # 0
    OBVIOUS
  <1>3. k - 1 \in 0 .. N - 1 /\ ~ (k <= k - 1)
    BY <1>2
  <1>4. k - 1 \in S
    BY <1>1, <1>3
  <1>5. k \in S
    BY <1>3, <1>4, <1>2
  <1>6. QED
    BY <1>2, <1>5

(* What the rounds of newReport's loop leave, as a function that is        *)
(* defined by what it holds one round earlier.                             *)
Rounds(q, N, g) ==
    g = [n \in 0 .. N |-> IF n = 0 THEN <<>> ELSE AddMutation(g[n - 1], q[n])]

(* Such a function exists, however many rounds there are.                  *)
LEMMA RoundsExist ==
  ASSUME NEW q, NEW N \in Nat
  PROVE  \E g : Rounds(q, N, g)
  <1> DEFINE S == {n \in 0 .. N : \E g : Rounds(q, n, g)}
  <1>1. 0 \in S
    <2> DEFINE g == [n \in 0 .. 0 |-> <<>>]
    <2>1. g = [n \in 0 .. 0 |-> IF n = 0 THEN <<>> ELSE AddMutation(g[n - 1], q[n])]
      OBVIOUS
    <2>2. Rounds(q, 0, g)
      BY <2>1 DEF Rounds
    <2>3. QED
      BY <2>2
  <1>2. ASSUME NEW n \in 0 .. N - 1, n \in S
        PROVE  n + 1 \in S
    <2>1. PICK h : Rounds(q, n, h)
      BY <1>2
    <2> DEFINE g == [k \in 0 .. n + 1 |-> IF k = n + 1 THEN AddMutation(h[n], q[n + 1]) ELSE h[k]]
    <2>2. ASSUME NEW k \in 0 .. n + 1
          PROVE  g[k] = IF k = 0 THEN <<>> ELSE AddMutation(g[k - 1], q[k])
      <3>1. CASE k = n + 1
        <4>1. k # 0 /\ k - 1 = n /\ n \in 0 .. n + 1 /\ n # n + 1
          BY <3>1
        <4>2. g[n] = h[n] /\ g[k] = AddMutation(h[n], q[n + 1])
          BY <3>1, <4>1
        <4>3. QED
          BY <3>1, <4>1, <4>2
      <3>2. CASE k # n + 1
        <4>1. k \in 0 .. n
          BY <3>2
        <4>2. g[k] = h[k]
          BY <3>2
        <4>3. h[k] = IF k = 0 THEN <<>> ELSE AddMutation(h[k - 1], q[k])
          BY <2>1, <4>1 DEF Rounds
        <4>4. k # 0 => k - 1 \in 0 .. n + 1 /\ k - 1 # n + 1
          BY <4>1
        <4>5. k # 0 => g[k - 1] = h[k - 1]
          BY <4>4
        <4>6. QED
          BY <4>2, <4>3, <4>5
      <3>3. QED
        BY <3>1, <3>2
    <2>3. g = [k \in 0 .. n + 1 |-> IF k = 0 THEN <<>> ELSE AddMutation(g[k - 1], q[k])]
      <3> HIDE DEF g
      <3>1. DOMAIN g = 0 .. n + 1 /\ g = [k \in DOMAIN g |-> g[k]]
        BY DEF g
      <3>2. QED
        BY <3>1, <2>2
    <2>4. Rounds(q, n + 1, g)
      BY <2>3 DEF Rounds
    <2>5. n + 1 \in 0 .. N
      OBVIOUS
    <2>6. QED
      BY <2>4, <2>5
  <1>3. N \in S
    <2> HIDE DEF S
    <2>1. N \in 0 .. N
      OBVIOUS
    <2>2. QED
      BY <1>1, <1>2, <2>1, UpTo
  <1>4. QED
    BY <1>3

(* newReport's loop is well defined: it returns what its last round left.  *)
LEMMA NewReportRounds ==
  ASSUME NEW q, Len(q) \in Nat
  PROVE  \E g : Rounds(q, Len(q), g) /\ newReport(q) = g[Len(q)]
  <1> DEFINE g == CHOOSE f : f = [n \in 0 .. Len(q) |-> IF n = 0 THEN <<>> ELSE AddMutation(f[n - 1], q[n])]
  <1>1. Rounds(q, Len(q), g)
    BY RoundsExist, Zenon DEF Rounds
  <1>2. newReport(q) = g[Len(q)]
    BY Zenon DEF newReport
  <1>3. QED
    BY <1>1, <1>2

(* How many of the first n mutants are in a file, and have a status.       *)
Held(q, n, file) == Cardinality({j \in 1 .. n : q[j].file = file})
Counted(q, n, s) == Cardinality({j \in 1 .. n : q[j].status = s})

(* Those of a list that have a status, and a list of the first n mutants.  *)
ListedAs(files, s) == {p \in Listing(files) : files[p[1]][p[2]].status = s}

ListsFirst(files, q, n) ==
    /\ DOMAIN files = {q[i].file : i \in 1 .. n}
    /\ \A f \in DOMAIN files : Len(files[f]) \in Nat /\ DOMAIN files[f] = 1 .. Len(files[f])
    /\ \A f \in DOMAIN files : files[f] \in Seq(Reported)
    /\ \A f \in DOMAIN files : Len(files[f]) = Held(q, n, f)
    /\ \A i \in 1 .. n : /\ Place(q, i) \in DOMAIN files[q[i].file]
                         /\ files[q[i].file][Place(q, i)] = q[i]
    /\ IsFiniteSet(Listing(files)) /\ Cardinality(Listing(files)) = n
    /\ \A s \in Status : Cardinality(ListedAs(files, s)) = Counted(q, n, s)

(* A list with one mutant more, at the k-th place of its file.             *)
OneMore(new, files, m, k) ==
    /\ k \in Nat /\ k > 0
    /\ DOMAIN new = DOMAIN files \cup {m.file}
    /\ \A f \in DOMAIN files : f # m.file => new[f] = files[f]
    /\ new[m.file] \in Seq(Reported) /\ Len(new[m.file]) = k /\ new[m.file][k] = m
    /\ m.file \in DOMAIN files =>
           /\ DOMAIN files[m.file] = 1 .. k - 1
           /\ \A j \in 1 .. k - 1 : new[m.file][j] = files[m.file][j]
    /\ m.file \notin DOMAIN files => k = 1

(* A round of the loop adds one place to the list, for its mutant.         *)
LEMMA AddedPlace ==
  ASSUME NEW q \in Seq(Reported), NEW n \in Nat, n + 1 \in 1 .. Len(q), NEW files,
         ListsFirst(files, q, n),
         NEW m, m = q[n + 1], NEW new, new = AddMutation(files, m),
         NEW k, k = Held(q, n, m.file) + 1
  PROVE  OneMore(new, files, m, k)
  <1> DEFINE before == IF m.file \in DOMAIN files THEN files[m.file] ELSE <<>>
             H == {j \in 1 .. n : q[j].file = m.file}
  <1>1. m \in Reported
    OBVIOUS
  <1>2. IsFiniteSet(H) /\ Cardinality(H) \in Nat
    <2>1. IsFiniteSet(1 .. n) /\ H \in SUBSET (1 .. n)
      BY FS_Interval
    <2>2. QED
      BY <2>1, FS_Subset, FS_CardinalityType
  <1>3. before \in Seq(Reported) /\ Len(before) = Cardinality(H)
    <2>1. CASE m.file \in DOMAIN files
      BY <2>1 DEF ListsFirst, Held
    <2>2. CASE m.file \notin DOMAIN files
      <3>1. H = {}
        BY <2>2 DEF ListsFirst
      <3>2. Cardinality(H) = 0
        BY <3>1, FS_EmptySet
      <3>3. QED
        BY <2>2, <3>2
    <2>3. QED
      BY <2>1, <2>2
  <1>4. /\ DOMAIN new = DOMAIN files \cup {m.file}
        /\ \A f \in DOMAIN files : f # m.file => new[f] = files[f]
        /\ new[m.file] = Append(before, m)
    BY DEF AddMutation
  <1>5. m.file \notin DOMAIN files => k = 1
    BY <1>3 DEF Held
  <1> HIDE DEF H
  <1>6. k = Len(before) + 1 /\ k \in Nat /\ k > 0 /\ k - 1 = Len(before)
    BY SMTT(30), <1>2, <1>3 DEF H, Held
  <1>7. /\ Append(before, m) \in Seq(Reported) /\ Len(Append(before, m)) = k
        /\ Append(before, m)[k] = m
        /\ \A j \in 1 .. k - 1 : Append(before, m)[j] = before[j]
    <2> HIDE DEF before
    <2>1. /\ Append(before, m) \in Seq(Reported)
          /\ Len(Append(before, m)) = Len(before) + 1
          /\ Append(before, m)[Len(before) + 1] = m
          /\ \A j \in 1 .. Len(before) : Append(before, m)[j] = before[j]
      BY <1>1, <1>3, AppendProperties
    <2>2. QED
      BY <1>6, <2>1
  <1>8. m.file \in DOMAIN files => DOMAIN files[m.file] = 1 .. k - 1 /\ before = files[m.file]
    BY <1>3, <1>6
  <1>9. QED
    BY <1>4, <1>5, <1>6, <1>7, <1>8 DEF OneMore

(* The list of all files grows by that place, and nothing else moves.      *)
LEMMA AddedListing ==
  ASSUME NEW q \in Seq(Reported), NEW n \in Nat, n + 1 \in 1 .. Len(q), NEW files,
         ListsFirst(files, q, n),
         NEW m, m = q[n + 1], NEW new, new = AddMutation(files, m),
         NEW k, k = Held(q, n, m.file) + 1
  PROVE  /\ Listing(new) = Listing(files) \cup {<<m.file, k>>}
         /\ <<m.file, k>> \notin Listing(files)
         /\ new[m.file][k] = m
         /\ \A p \in Listing(files) : new[p[1]][p[2]] = files[p[1]][p[2]]
  <1>0. OneMore(new, files, m, k)
    BY AddedPlace
  <1>1. /\ k \in Nat /\ k > 0
        /\ DOMAIN new = DOMAIN files \cup {m.file}
        /\ \A f \in DOMAIN files : f # m.file => new[f] = files[f]
        /\ new[m.file] \in Seq(Reported) /\ Len(new[m.file]) = k /\ new[m.file][k] = m
        /\ m.file \in DOMAIN files =>
               /\ DOMAIN files[m.file] = 1 .. k - 1
               /\ \A j \in 1 .. k - 1 : new[m.file][j] = files[m.file][j]
        /\ m.file \notin DOMAIN files => k = 1
    BY <1>0 DEF OneMore
  <1>2. DOMAIN new[m.file] = 1 .. k
    BY <1>1
  <1>3. \A f, j : <<f, j>> \in Listing(files) <=> f \in DOMAIN files /\ j \in DOMAIN files[f]
    BY DEF Listing
  <1>4. \A f, j : <<f, j>> \in Listing(new) <=> f \in DOMAIN new /\ j \in DOMAIN new[f]
    BY DEF Listing
  <1>5. \A p \in Listing(files) \cup Listing(new) : p = <<p[1], p[2]>>
    BY DEF Listing
  <1>6. <<m.file, k>> \notin Listing(files)
    BY <1>1, <1>3
  <1>7. ASSUME NEW f, NEW j
        PROVE  <<f, j>> \in Listing(new) <=> <<f, j>> \in Listing(files) \/ (f = m.file /\ j = k)
    <2>1. CASE f # m.file
      BY <2>1, <1>1, <1>3, <1>4
    <2>2. CASE f = m.file /\ m.file \in DOMAIN files
      <3>1. j \in 1 .. k <=> j \in 1 .. k - 1 \/ j = k
        BY <1>1
      <3>2. QED
        BY <2>2, <3>1, <1>1, <1>2, <1>3, <1>4
    <2>3. CASE f = m.file /\ m.file \notin DOMAIN files
      <3>1. j \in 1 .. k <=> j = k
        BY <1>1, <2>3
      <3>2. QED
        BY <2>3, <3>1, <1>1, <1>2, <1>3, <1>4
    <2>4. QED
      BY <2>1, <2>2, <2>3
  <1>8. Listing(new) = Listing(files) \cup {<<m.file, k>>}
    <2>1. ASSUME NEW p \in Listing(new)
          PROVE  p \in Listing(files) \cup {<<m.file, k>>}
      <3>1. p = <<p[1], p[2]>>
        BY <1>5
      <3>2. <<p[1], p[2]>> \in Listing(files) \/ (p[1] = m.file /\ p[2] = k)
        BY <1>7, <3>1
      <3>3. QED
        BY <3>1, <3>2
    <2>2. ASSUME NEW p \in Listing(files)
          PROVE  p \in Listing(new)
      <3>1. p = <<p[1], p[2]>>
        BY <1>5
      <3>2. QED
        BY <1>7, <3>1
    <2>3. <<m.file, k>> \in Listing(new)
      BY <1>7
    <2>4. QED
      BY <2>1, <2>2, <2>3
  <1>9. ASSUME NEW p \in Listing(files)
        PROVE  new[p[1]][p[2]] = files[p[1]][p[2]]
    <2>1. p[1] \in DOMAIN files /\ p[2] \in DOMAIN files[p[1]]
      BY <1>3, <1>5
    <2>2. CASE p[1] # m.file
      BY <2>1, <2>2, <1>1
    <2>3. CASE p[1] = m.file
      BY <2>1, <2>3, <1>1
    <2>4. QED
      BY <2>2, <2>3
  <1>10. QED
    BY <1>1, <1>6, <1>8, <1>9

(* One number more for those of the first n that are so and so.            *)
LEMMA FirstAndNext ==
  ASSUME NEW n \in Nat, NEW K \in SUBSET (1 .. n + 1), NEW H, H = K \ {n + 1}
  PROVE  /\ IsFiniteSet(H) /\ Cardinality(H) \in Nat
         /\ n + 1 \in K => Cardinality(K) = Cardinality(H) + 1
         /\ n + 1 \notin K => Cardinality(K) = Cardinality(H)
  <1>1. IsFiniteSet(H) /\ Cardinality(H) \in Nat
    <2>1. IsFiniteSet(1 .. n + 1) /\ H \in SUBSET (1 .. n + 1)
      BY FS_Interval
    <2>2. QED
      BY <2>1, FS_Subset, FS_CardinalityType
  <1>2. Cardinality(H \cup {n + 1}) = Cardinality(H) + 1
    BY <1>1, FS_AddElement
  <1>3. n + 1 \in K => K = H \cup {n + 1}
    OBVIOUS
  <1>4. n + 1 \notin K => K = H
    OBVIOUS
  <1>5. QED
    BY <1>1, <1>2, <1>3, <1>4

(* One mutant more in its own file, and none in the others.                *)
LEMMA HeldByOneMore ==
  ASSUME NEW q, NEW n \in Nat, NEW f
  PROVE  /\ Held(q, n, f) \in Nat
         /\ Held(q, n + 1, f) = IF q[n + 1].file = f THEN Held(q, n, f) + 1 ELSE Held(q, n, f)
  <1> DEFINE H == {j \in 1 .. n : q[j].file = f}
             K == {j \in 1 .. n + 1 : q[j].file = f}
  <1>1. K \in SUBSET (1 .. n + 1) /\ H = K \ {n + 1} /\ (n + 1 \in K <=> q[n + 1].file = f)
    OBVIOUS
  <1>2. Held(q, n, f) = Cardinality(H) /\ Held(q, n + 1, f) = Cardinality(K)
    BY DEF Held
  <1> HIDE DEF H, K
  <1>3. /\ Cardinality(H) \in Nat
        /\ n + 1 \in K => Cardinality(K) = Cardinality(H) + 1
        /\ n + 1 \notin K => Cardinality(K) = Cardinality(H)
    BY <1>1, FirstAndNext
  <1>4. QED
    BY <1>1, <1>2, <1>3

(* One mutant more of its own status, and none of the others.              *)
LEMMA CountedByOneMore ==
  ASSUME NEW q, NEW n \in Nat, NEW s
  PROVE  /\ Counted(q, n, s) \in Nat
         /\ Counted(q, n + 1, s) = IF q[n + 1].status = s THEN Counted(q, n, s) + 1 ELSE Counted(q, n, s)
  <1> DEFINE H == {j \in 1 .. n : q[j].status = s}
             K == {j \in 1 .. n + 1 : q[j].status = s}
  <1>1. K \in SUBSET (1 .. n + 1) /\ H = K \ {n + 1} /\ (n + 1 \in K <=> q[n + 1].status = s)
    OBVIOUS
  <1>2. Counted(q, n, s) = Cardinality(H) /\ Counted(q, n + 1, s) = Cardinality(K)
    BY DEF Counted
  <1> HIDE DEF H, K
  <1>3. /\ Cardinality(H) \in Nat
        /\ n + 1 \in K => Cardinality(K) = Cardinality(H) + 1
        /\ n + 1 \notin K => Cardinality(K) = Cardinality(H)
    BY <1>1, FirstAndNext
  <1>4. QED
    BY <1>1, <1>2, <1>3

(* A round keeps the list complete and in order.                           *)
LEMMA RoundListsOneMore ==
  ASSUME NEW q \in Seq(Reported), NEW n \in Nat, n + 1 \in 1 .. Len(q), NEW files,
         ListsFirst(files, q, n)
  PROVE  ListsFirst(AddMutation(files, q[n + 1]), q, n + 1)
  <1>0. DEFINE m == q[n + 1]
               k == Held(q, n, m.file) + 1
  <1>1. PICK new : new = AddMutation(files, m)
    OBVIOUS
  <1>2. OneMore(new, files, m, k)
    BY <1>1, AddedPlace
  <1>3. /\ Listing(new) = Listing(files) \cup {<<m.file, k>>}
        /\ <<m.file, k>> \notin Listing(files)
        /\ new[m.file][k] = m
        /\ \A p \in Listing(files) : new[p[1]][p[2]] = files[p[1]][p[2]]
    BY <1>1, AddedListing
  <1>4. \A f : /\ Held(q, n, f) \in Nat
               /\ Held(q, n + 1, f) = IF m.file = f THEN Held(q, n, f) + 1 ELSE Held(q, n, f)
    BY HeldByOneMore
  <1>5. 1 .. n + 1 = (1 .. n) \cup {n + 1}
    OBVIOUS
  <1> HIDE DEF m, k
  <1>6. DOMAIN new = {q[i].file : i \in 1 .. n + 1}
    BY <1>2, <1>5 DEF ListsFirst, OneMore, m
  <1>7. ASSUME NEW f \in DOMAIN new
        PROVE  /\ new[f] \in Seq(Reported) /\ Len(new[f]) \in Nat /\ DOMAIN new[f] = 1 .. Len(new[f])
               /\ Len(new[f]) = Held(q, n + 1, f)
    <2>1. CASE f = m.file
      BY <2>1, <1>2, <1>4 DEF OneMore, k
    <2>2. CASE f # m.file
      BY <2>2, <1>2, <1>4 DEF OneMore, ListsFirst
    <2>3. QED
      BY <2>1, <2>2
  <1>8. ASSUME NEW i \in 1 .. n + 1
        PROVE  Place(q, i) \in DOMAIN new[q[i].file] /\ new[q[i].file][Place(q, i)] = q[i]
    <2>1. CASE i = n + 1
      <3>1. Place(q, i) = k
        BY <2>1, <1>4 DEF Place, Held, m, k
      <3>2. k \in DOMAIN new[m.file]
        BY <1>2 DEF OneMore
      <3>3. QED
        BY <2>1, <3>1, <3>2, <1>3 DEF m
    <2>2. CASE i \in 1 .. n
      <3>1. /\ q[i].file \in DOMAIN files
            /\ Place(q, i) \in DOMAIN files[q[i].file]
            /\ files[q[i].file][Place(q, i)] = q[i]
        BY <2>2 DEF ListsFirst
      <3>2. CASE q[i].file # m.file
        BY <3>1, <3>2, <1>2 DEF OneMore
      <3>3. CASE q[i].file = m.file
        BY <3>1, <3>3, <1>2 DEF OneMore
      <3>4. QED
        BY <3>2, <3>3
    <2>3. QED
      BY <2>1, <2>2, <1>5
  <1>9. IsFiniteSet(Listing(new)) /\ Cardinality(Listing(new)) = n + 1
    <2>1. IsFiniteSet(Listing(files)) /\ Cardinality(Listing(files)) = n
      BY DEF ListsFirst
    <2>2. /\ IsFiniteSet(Listing(files) \cup {<<m.file, k>>})
          /\ Cardinality(Listing(files) \cup {<<m.file, k>>}) = Cardinality(Listing(files)) + 1
      BY <2>1, <1>3, FS_AddElement
    <2>3. QED
      BY <2>1, <2>2, <1>3
  <1>10. ASSUME NEW s \in Status
         PROVE  Cardinality(ListedAs(new, s)) = Counted(q, n + 1, s)
    <2>1. IsFiniteSet(ListedAs(files, s)) /\ <<m.file, k>> \notin ListedAs(files, s)
      <3>1. IsFiniteSet(Listing(files)) /\ ListedAs(files, s) \in SUBSET Listing(files)
        BY DEF ListsFirst, ListedAs
      <3>2. QED
        BY <3>1, <1>3, FS_Subset
    <2>2. Cardinality(ListedAs(files, s)) = Counted(q, n, s)
      BY DEF ListsFirst
    <2>3. CASE m.status = s
      <3>1. ListedAs(new, s) = ListedAs(files, s) \cup {<<m.file, k>>}
        BY <2>3, <1>3 DEF ListedAs
      <3>2. Cardinality(ListedAs(new, s)) = Cardinality(ListedAs(files, s)) + 1
        BY <3>1, <2>1, FS_AddElement
      <3>3. QED
        BY SMTT(30), <3>2, <2>2, <2>3, CountedByOneMore DEF m
    <2>4. CASE m.status # s
      <3>1. ListedAs(new, s) = ListedAs(files, s)
        BY <2>4, <1>3 DEF ListedAs
      <3>2. QED
        BY SMTT(30), <3>1, <2>2, <2>4, CountedByOneMore DEF m
    <2>5. QED
      BY <2>3, <2>4
  <1>11. ListsFirst(new, q, n + 1)
    BY <1>6, <1>7, <1>8, <1>9, <1>10 DEF ListsFirst
  <1>12. QED
    BY <1>11, <1>1 DEF m

(* newReport lists all mutants, for any number of them.                    *)
LEMMA NewReportListsAll ==
  ASSUME NEW q \in Seq(Reported)
  PROVE  ListsFirst(newReport(q), q, Len(q))
  <1>1. Len(q) \in Nat
    OBVIOUS
  <1>2. PICK g : Rounds(q, Len(q), g) /\ newReport(q) = g[Len(q)]
    BY <1>1, NewReportRounds
  <1> DEFINE S == {n \in 0 .. Len(q) : ListsFirst(g[n], q, n)}
  <1>3. 0 \in S
    <2>1. g[0] = <<>>
      BY <1>1, <1>2 DEF Rounds
    <2>2. Listing(<<>>) = {} /\ \A s : ListedAs(<<>>, s) = {}
      BY DEF Listing, ListedAs
    <2>3. IsFiniteSet({}) /\ Cardinality({}) = 0
      BY FS_EmptySet
    <2>4. \A s : Counted(q, 0, s) = 0
      <3>1. \A s : {i \in 1 .. 0 : q[i].status = s} = {}
        OBVIOUS
      <3>2. QED
        BY <3>1, <2>3 DEF Counted
    <2>5. ListsFirst(<<>>, q, 0)
      <3>1. DOMAIN <<>> = {} /\ 1 .. 0 = {}
        OBVIOUS
      <3>2. QED
        BY <2>2, <2>3, <2>4, <3>1 DEF ListsFirst
    <2>6. QED
      BY <2>1, <2>5, <1>1
  <1>4. ASSUME NEW n \in 0 .. Len(q) - 1, n \in S
        PROVE  n + 1 \in S
    <2>1. n \in Nat /\ n + 1 \in 1 .. Len(q) /\ n + 1 \in 0 .. Len(q) /\ n + 1 # 0 /\ (n + 1) - 1 = n
      BY <1>1
    <2>2. g[n + 1] = AddMutation(g[n], q[n + 1])
      BY <2>1, <1>2 DEF Rounds
    <2>3. ListsFirst(g[n + 1], q, n + 1)
      BY <1>4, <2>1, <2>2, RoundListsOneMore
    <2>4. QED
      BY <2>1, <2>3
  <1>5. Len(q) \in S
    <2> HIDE DEF S
    <2>1. Len(q) \in 0 .. Len(q)
      BY <1>1
    <2>2. QED
      BY <1>1, <1>3, <1>4, <2>1, UpTo
  <1>6. QED
    BY <1>2, <1>5

(* What is on the console at any time, and in the output file at the end.  *)
OutputInv ==
    /\ ConsoleTellsTheRun
    /\ IF exitCode # -1 /\ Configured /\ results # <<>> /\ src.output
       THEN IF src.outputFault = "none" THEN outputFile = fileReport(results)
            ELSE outputFile \in {Before, Truncated}
       ELSE outputFile = Before

(* MutantLogger.Mutant, for the mutant that is collected and those before  *)
(* it.                                                                     *)
LEMMA CollectedIsOnConsole ==
  ASSUME ReportInv, ConsoleTellsTheRun, NEW m \in Mutants, NEW s \in ReportedStatus, Collect(m, s)
  PROVE  ConsoleTellsTheRun'
  <1> DEFINE r == [file |-> m.file, type |-> m.type, status |-> s]
             n == Len(results) + 1
  <1>1. results \in Seq(Reported) /\ s \in Status
    BY DEF ReportInv, ReportedStatus, Status, FoundStatus, TestedStatus
  <1>2. r \in Reported
    BY <1>1 DEF Reported
  <1>3. /\ results' = Append(results, r) /\ src' = src /\ n \in Nat
        /\ DOMAIN results = 1 .. Len(results) /\ DOMAIN results' = 1 .. n
        /\ results'[n] = r /\ \A i \in DOMAIN results : results'[i] = results[i]
    <2>1. results' = Append(results, r) /\ src' = src
      BY DEF Collect
    <2> HIDE DEF r
    <2>2. QED
      BY <1>1, <1>2, <2>1, AppendProperties
  <1>4. printed \subseteq printed' /\ diffs' \subseteq printed'
    BY DEF Collect, LogMutant, Infof, ConsoleTellsTheRun
  <1>5. ~src.silent /\ n \notin printed' => s \notin ParseFilter(src.statuses)
    BY DEF Collect, LogMutant, Infof
  <1>6. s \notin ParseFilter(src.statuses) =>
            src.statuses \subseteq DOMAIN Letters /\ \A c \in src.statuses : Letters[c] # s
    BY <1>1 DEF ParseFilter
  <1>7. ASSUME NEW i \in DOMAIN results', ~src.silent, i \notin printed'
        PROVE  src.statuses \subseteq DOMAIN Letters
               /\ \A c \in src.statuses : Letters[c] # results'[i].status
    <2>1. CASE i = n
      <3>1. results'[i].status = s
        BY <2>1, <1>3
      <3>2. QED
        BY <2>1, <3>1, <1>5, <1>6, <1>7
    <2>2. CASE i # n
      <3>1. i \in DOMAIN results
        BY <2>2, <1>3, <1>1
      <3>2. QED
        BY <3>1, <1>3, <1>4, <1>7 DEF ConsoleTellsTheRun
    <2>3. QED
      BY <2>1, <2>2
  <1>8. QED
    BY <1>3, <1>4, <1>7 DEF ConsoleTellsTheRun, Letters

(* Every step keeps console and output file so.                            *)
LEMMA OutputStep == ReportInv /\ OutputInv /\ [Next]_vars => OutputInv'
  <1> SUFFICES ASSUME ReportInv, OutputInv, [Next]_vars
               PROVE  OutputInv'
    OBVIOUS
  <1>1. ASSUME UNCHANGED <<src, results, printed, diffs>>
        PROVE  ConsoleTellsTheRun'
    BY <1>1 DEF OutputInv, ConsoleTellsTheRun, Letters
  <1>2. ASSUME Configure
        PROVE  OutputInv'
    BY <1>1, <1>2 DEF Configure, OutputInv
  <1>3. ASSUME ConfigureFails
        PROVE  OutputInv'
    BY <1>1, <1>3 DEF ConfigureFails, OutputInv, Configured
  <1>4. ASSUME NEW m \in Mutants, NEW s \in ReportedStatus, Collect(m, s)
        PROVE  OutputInv'
    <2>1. exitCode = -1 /\ exitCode' = -1 /\ outputFile' = outputFile
      BY <1>4 DEF Collect
    <2>2. QED
      BY <1>4, <2>1, CollectedIsOnConsole DEF OutputInv
  <1>5. ASSUME UNCHANGED <<results, settings>>
        PROVE  fileReport(results)' = fileReport(results)
    BY <1>5 DEF fileReport, Statuses, Statistics, dryRun, Configured
  <1>6. ASSUME ReportAndAssess
        PROVE  OutputInv'
    <2>1. UNCHANGED <<src, results, printed, diffs, settings>>
      BY <1>6 DEF ReportAndAssess
    <2>2. outputFile = Before /\ Configured
      BY <1>6 DEF ReportAndAssess, OutputInv
    <2>3. CASE results # <<>> /\ src.output
      <3>1. IF src.outputFault = "none" THEN outputFile' = fileReport(results)
            ELSE outputFile' \in {Before, Truncated}
        <4>1. src.outputFault \in {"none", "create", "write"}
          BY ReportAssumption DEF ReportInv
        <4>2. QED
          BY <1>6, <2>2, <2>3, <4>1 DEF ReportAndAssess
      <3>2. exitCode' # -1
        <4>1. exitCode' = Do(Statuses(results), dryRun, settings.efficacy, settings.mcoverage)
          BY <1>6 DEF ReportAndAssess
        <4>2. exitCode' \in {ExitOK, ExitEfficacyThreshold, ExitMutantCoverageThreshold}
          BY <4>1 DEF Do, assess
        <4>3. QED
          BY <4>2 DEF ExitOK, ExitEfficacyThreshold, ExitMutantCoverageThreshold
      <3>3. QED
        BY <1>1, <1>5, <2>1, <2>2, <2>3, <3>1, <3>2 DEF OutputInv, Configured
    <2>4. CASE ~(results # <<>> /\ src.output)
      <3>1. outputFile' = Before
        BY <1>6, <2>2, <2>4 DEF ReportAndAssess
      <3>2. QED
        BY <1>1, <2>1, <2>4, <3>1 DEF OutputInv
    <2>5. QED
      BY <2>3, <2>4
  <1>7. ASSUME UNCHANGED vars
        PROVE  OutputInv'
    <2>1. UNCHANGED <<src, results, printed, diffs, settings, outputFile, exitCode>>
      BY SMTT(30), <1>7 DEF vars
    <2>2. QED
      BY <1>1, <1>5, <2>1 DEF OutputInv, Configured
  <1>8. QED
    BY <1>2, <1>3, <1>4, <1>6, <1>7 DEF Next, Terminated

(* What the file of the report says, at the end.                           *)
LEMMA FileOfTheReport ==
  ASSUME ReportInv, outputFile = fileReport(results)
  PROVE  LET files == outputFile.Files
             n(s)  == Cardinality({p \in Listing(files) : files[p[1]][p[2]].status = s})
         IN  /\ outputFile.run = "this"
             /\ ListsAll(files, results)
             /\ outputFile.MutantsKilled = n(Killed) /\ outputFile.MutantsLived = n(Lived)
             /\ outputFile.MutantsNotViable = n(NotViable)
             /\ outputFile.MutantsNotCovered = n(NotCovered)
             /\ ~dryRun => outputFile.TestEfficacy.num * (n(Killed) + n(Lived))
                           = n(Killed) * outputFile.TestEfficacy.den
  <1> DEFINE q == Statuses(results)
             files == newReport(results)
             N == Len(results)
             n(s) == Cardinality(ListedAs(files, s))
             k == countStatus(q, Killed)
             l == countStatus(q, Lived)
  <1>1. /\ N \in Nat /\ DOMAIN results = 1 .. N /\ results \in Seq(Reported)
        /\ DOMAIN q = 1 .. N /\ \A i \in 1 .. N : q[i] = results[i].status
    BY StatusesOfResults DEF ReportInv
  <1>2. ListsFirst(files, results, N)
    BY <1>1, NewReportListsAll
  <1>3. ListsAll(files, results)
    BY <1>1, <1>2 DEF ListsFirst, ListsAll
  <1>4. ASSUME NEW s \in Status
        PROVE  n(s) = countStatus(q, s)
    <2>1. n(s) = Counted(results, N, s)
      BY <1>2 DEF ListsFirst
    <2>2. {j \in 1 .. N : results[j].status = s} = {j \in DOMAIN q : q[j] = s}
      BY <1>1
    <2>3. QED
      BY <2>1, <2>2 DEF Counted, countStatus
  <1>5. /\ n(Killed) = k /\ n(Lived) = l
        /\ n(NotViable) = countStatus(q, NotViable) /\ n(NotCovered) = countStatus(q, NotCovered)
    BY <1>4 DEF Status
  <1>6. ~dryRun => tEfficacy(q, dryRun).num * (k + l) = k * tEfficacy(q, dryRun).den
    <2>1. k \in Nat /\ l \in Nat
      BY <1>1, CountsAreNat
    <2>2. ~dryRun => tEfficacy(q, dryRun) = IF k > 0 THEN Fraction(k, k + l) ELSE Zero
      BY DEF tEfficacy
    <2> HIDE DEF k, l, q
    <2>3. k > 0 \/ k = 0
      BY <2>1
    <2>4. QED
      BY <2>1, <2>2, <2>3 DEF Fraction, Zero
  <1>7. /\ outputFile.run = "this" /\ outputFile.Files = files
        /\ outputFile.TestEfficacy = tEfficacy(q, dryRun)
        /\ outputFile.MutantsKilled = k /\ outputFile.MutantsLived = l
        /\ outputFile.MutantsNotViable = countStatus(q, NotViable)
        /\ outputFile.MutantsNotCovered = countStatus(q, NotCovered)
    BY DEF fileReport
  <1> HIDE DEF q, files
  <1>8. QED
    BY <1>3, <1>5, <1>6, <1>7 DEF ListedAs

(* Only Do has an exit code that is not the failure's.                     *)
LEMMA OnlyDoJudges ==
  ASSUME ReportInv
  PROVE  exitCode \notin {-1, ExitFailure} <=> exitCode # -1 /\ Configured
  <1>1. Verdict(Statuses(results)) # ExitFailure
    BY DEF Verdict, Do, assess, ExitOK, ExitEfficacyThreshold, ExitMutantCoverageThreshold, ExitFailure
  <1>2. QED
    BY <1>1 DEF ReportInv

(* Console and output file agree with the results, for any number of       *)
(* mutants and files, any filter, any settings and any failure of the      *)
(* file: a file of this run lists every mutant, in order, and its counters *)
(* and its efficacy are those of the list; and any other file is the one   *)
(* of an earlier run, or truncated.                                        *)
THEOREM OutputsAgree == Spec => []OutputsTellTheRun
  <1>1. Init => OutputInv
    BY DEF Init, ConsoleTellsTheRun, OutputInv
  <1>2. ReportInv /\ OutputInv => OutputsTellTheRun
    <2> SUFFICES ASSUME ReportInv, OutputInv
                 PROVE  FileTellsTheRun
      BY DEF OutputInv, OutputsTellTheRun
    <2> DEFINE report == src.output /\ results # <<>> /\ exitCode \notin {-1, ExitFailure}
    <2>1. report <=> exitCode # -1 /\ Configured /\ results # <<>> /\ src.output
      BY OnlyDoJudges
    <2>2. CASE report /\ src.outputFault = "none"
      <3>1. outputFile = fileReport(results)
        BY <2>1, <2>2 DEF OutputInv
      <3>2. QED
        BY <2>2, <3>1, FileOfTheReport DEF FileTellsTheRun
    <2>3. CASE report /\ src.outputFault # "none"
      <3>1. outputFile \in {Before, Truncated}
        BY <2>1, <2>3 DEF OutputInv
      <3>2. QED
        BY <2>3, <3>1 DEF FileTellsTheRun
    <2>4. CASE ~report
      <3>1. outputFile = Before
        BY <2>1, <2>4 DEF OutputInv
      <3>2. QED
        BY <2>4, <3>1 DEF FileTellsTheRun
    <2>5. QED
      BY <2>2, <2>3, <2>4
  <1>3. QED
    BY <1>1, <1>2, OutputStep, ReportInvariance, PTL DEF Spec
=============================================================================
