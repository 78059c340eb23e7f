---------------------------- MODULE LimiterProofs ----------------------------
(***************************************************************************)
(* Theorems about Limiter, for every set of labels, every number of        *)
(* handlers and every limit.                                               *)
(***************************************************************************)
EXTENDS Limiter, FiniteSetTheorems, TLAPS

IInv ==
  /\ TypeOK
  /\ FailuresBounded
  /\ IsFiniteSet(Tracked) /\ TableBounded

\* Handlers are finitely many, and so are those that verify one label.
LEMMA VerifyingFinite ==
  ASSUME NEW l
  PROVE  /\ IsFiniteSet(Verifying(l))
         /\ Cardinality(Verifying(l)) \in Nat
         /\ Cardinality(Requests) \in Nat
         /\ Cardinality(Verifying(l)) <= Cardinality(Requests)
<1>1. Verifying(l) \subseteq Requests
  BY DEF Verifying
<1>2. IsFiniteSet(Verifying(l)) /\ Cardinality(Verifying(l)) <= Cardinality(Requests)
  BY <1>1, FS_Subset, LimiterAssumption
<1> QED BY <1>2, FS_CardinalityType, LimiterAssumption

\* Nothing is tracked and nobody verifies at the start.
LEMMA InitInv == Init => IInv
<1> SUFFICES ASSUME Init PROVE IInv
  OBVIOUS
<1>1. TypeOK
  BY DEF Init, TypeOK
<1>2. Tracked = {}
  BY DEF Init, Tracked, Untracked
<1>3. IsFiniteSet(Tracked) /\ TableBounded
  BY <1>2, FS_EmptySet, LimiterAssumption DEF TableBounded
<1>4. ASSUME NEW l \in Labels
      PROVE  m[l].count + Cardinality(Verifying(l)) < MaxFailures + Cardinality(Requests)
  <2>1. m[l].count = 0
    BY DEF Init, Untracked
  <2> QED BY <2>1, VerifyingFinite, LimiterAssumption
<1> QED BY <1>1, <1>3, <1>4 DEF IInv, FailuresBounded

\* Steps that only forget rows or end handlers keep both bounds.
LEMMA ShrinkStep ==
  ASSUME IInv, TypeOK',
         \A l \in Labels : m'[l].count <= m[l].count,
         \A r \in Requests, l \in Labels : req'[r] = l => req[r] = l
  PROVE  IInv'
<1>1. Tracked' \subseteq Tracked
  BY DEF Tracked, IInv, TypeOK, Attempts, Untracked
<1>2. IsFiniteSet(Tracked') /\ Cardinality(Tracked') <= Cardinality(Tracked)
  BY <1>1, FS_Subset DEF IInv
<1>3. TableBounded'
  BY <1>2, FS_CardinalityType, LimiterAssumption DEF IInv, TableBounded
<1>4. ASSUME NEW l \in Labels
      PROVE  m'[l].count + Cardinality(Verifying(l)') < MaxFailures + Cardinality(Requests)
  <2>1. Verifying(l)' \subseteq Verifying(l)
    BY DEF Verifying
  <2>2. Cardinality(Verifying(l)') <= Cardinality(Verifying(l))
        /\ Cardinality(Verifying(l)') \in Nat
    BY <2>1, VerifyingFinite, FS_Subset, FS_CardinalityType
  <2>3. m[l].count \in Nat /\ m'[l].count \in Nat
    BY DEF IInv, TypeOK, Attempts, Untracked
  <2> QED BY <2>2, <2>3, VerifyingFinite, LimiterAssumption DEF IInv, FailuresBounded
<1> QED BY <1>2, <1>3, <1>4 DEF IInv, FailuresBounded

\* Resets, restarts and time.
LEMMA QuietInv ==
  ASSUME IInv, (\E r \in Requests : Reset(r)) \/ Restart \/ Tick \/ UNCHANGED vars
  PROVE  IInv'
<1>1. TypeOK'
  BY LimiterAssumption
  DEF IInv, TypeOK, Reset, Restart, Tick, Ageing, Tracked, Without, Attempts, Untracked, vars
<1>2. \A l \in Labels : m'[l].count <= m[l].count
  BY DEF IInv, TypeOK, Reset, Restart, Tick, Without, Attempts, Untracked, vars
<1>3. \A r \in Requests, l \in Labels : req'[r] = l => req[r] = l
  BY LimiterAssumption DEF IInv, TypeOK, Reset, Restart, Tick, vars
<1> QED BY <1>1, <1>2, <1>3, ShrinkStep

\* blocked() lets a handler pass only while its label is below the limit.
LEMMA PassInv ==
  ASSUME IInv, NEW r \in Requests, NEW k \in Labels, Pass(r, k)
  PROVE  IInv'
<1>1. TypeOK'
  BY DEF IInv, TypeOK, Pass, Without
<1>2. \A l \in Labels : m'[l].count <= m[l].count
  <2>1. \A l \in Labels : m'[l] \in {m[l], Untracked} /\ m[l].count \in Nat
    BY DEF IInv, TypeOK, Pass, Without, Attempts, Untracked
  <2> QED BY <2>1 DEF Untracked
<1>3. Tracked' \subseteq Tracked
  <2>1. \A l \in Labels : m[l].count \in Nat /\ m'[l].count \in Nat
    BY <1>1 DEF IInv, TypeOK, Attempts, Untracked
  <2> QED BY <1>2, <2>1 DEF Tracked
<1>4. IsFiniteSet(Tracked') /\ Cardinality(Tracked') <= Cardinality(Tracked)
  BY <1>3, FS_Subset DEF IInv
<1>5. TableBounded'
  BY <1>4, FS_CardinalityType, LimiterAssumption DEF IInv, TableBounded
<1>6. ASSUME NEW l \in Labels
      PROVE  m'[l].count + Cardinality(Verifying(l)') < MaxFailures + Cardinality(Requests)
  <2>1. m[l].count \in Nat /\ m'[l].count \in Nat
    BY <1>1 DEF IInv, TypeOK, Attempts, Untracked
  <2>2. CASE l = k
    <3>1. m'[l].count < MaxFailures
      BY <2>1, <2>2, LimiterAssumption
      DEF Pass, Refused, Locked, Swept, Without, Tracked, Stale, Untracked
    <3>2. Cardinality(Verifying(l)') <= Cardinality(Requests)
          /\ Cardinality(Verifying(l)') \in Nat
      <4>1. Verifying(l)' \subseteq Requests
        BY DEF Verifying
      <4> QED BY <4>1, FS_Subset, FS_CardinalityType, LimiterAssumption
    <3> QED BY <2>1, <3>1, <3>2, VerifyingFinite, LimiterAssumption
  <2>3. CASE l # k
    <3>1. Verifying(l)' = Verifying(l)
      BY <2>3, LimiterAssumption DEF Verifying, Pass, IInv, TypeOK
    <3> QED BY <1>2, <2>1, <3>1, VerifyingFinite, LimiterAssumption DEF IInv, FailuresBounded
  <2> QED BY <2>2, <2>3
<1> QED BY <1>1, <1>4, <1>5, <1>6 DEF IInv, FailuresBounded

\* A failure moves one guess from those under way to those counted.
LEMMA FailInv ==
  ASSUME IInv, NEW r \in Requests, Fail(r)
  PROVE  IInv'
<1> DEFINE k == req[r]
<1>1. k \in Labels
  BY DEF Fail, IInv, TypeOK
<1> DEFINE new == OneMore(k)
<1>2. /\ k \notin Tracked /\ Full => m' = m
      /\ ~(k \notin Tracked /\ Full) => m' = [m EXCEPT ![k] = new]
      /\ req' = [req EXCEPT ![r] = Idle]
  BY DEF Fail
<1>3. new \in Attempts /\ new.count <= m[k].count + 1
  <2>1. CASE k \in Tracked \ Stale
    <3>1. m[k] \in Attempts
      BY <1>1, <2>1 DEF IInv, TypeOK, Tracked, Untracked
    <3> QED BY <2>1, <3>1 DEF Attempts, OneMore
  <2>2. CASE k \notin Tracked \ Stale
    <3>1. m[k].count \in Nat
      BY <1>1 DEF IInv, TypeOK, Attempts, Untracked
    <3> QED BY <2>2, <3>1, LimiterAssumption DEF Attempts, OneMore
  <2> QED BY <2>1, <2>2
<1> HIDE DEF new
<1>4. TypeOK'
  BY <1>2, <1>3 DEF IInv, TypeOK
<1>5. IsFiniteSet(Tracked') /\ TableBounded'
  <2>1. CASE k \in Tracked \/ Full
    <3>1. new.count > 0
      BY <1>3 DEF Attempts
    <3>2. Tracked' = Tracked
      BY <1>1, <1>2, <2>1, <3>1 DEF Tracked, IInv, TypeOK
    <3> QED BY <3>2 DEF IInv, TableBounded
  <2>2. CASE k \notin Tracked /\ ~Full
    <3>1. new.count > 0
      BY <1>3 DEF Attempts
    <3>2. Tracked' = Tracked \cup {k}
      BY <1>1, <1>2, <2>2, <3>1 DEF Tracked, IInv, TypeOK
    <3>3. IsFiniteSet(Tracked') /\ Cardinality(Tracked') = Cardinality(Tracked) + 1
      BY <2>2, <3>2, FS_AddElement DEF IInv
    <3> QED BY <2>2, <3>3, FS_CardinalityType, LimiterAssumption DEF IInv, TableBounded, Full
  <2> QED BY <2>1, <2>2
<1>6. ASSUME NEW l \in Labels
      PROVE  m'[l].count + Cardinality(Verifying(l)') < MaxFailures + Cardinality(Requests)
  <2>1. m[l].count \in Nat /\ m'[l].count \in Nat
    BY <1>4 DEF IInv, TypeOK, Attempts, Untracked
  <2>2. CASE l = k
    <3>1. Verifying(l)' = Verifying(l) \ {r} /\ r \in Verifying(l)
      BY <1>1, <2>2, LimiterAssumption DEF Verifying, Fail, IInv, TypeOK
    <3>2. Cardinality(Verifying(l)') = Cardinality(Verifying(l)) - 1
      BY <3>1, VerifyingFinite, FS_RemoveElement
    <3>3. m'[l].count <= m[l].count + 1
      BY <1>1, <1>2, <1>3, <2>1, <2>2 DEF IInv, TypeOK
    <3> QED BY <2>1, <3>2, <3>3, VerifyingFinite, LimiterAssumption DEF IInv, FailuresBounded
  <2>3. CASE l # k
    <3>1. Verifying(l)' = Verifying(l)
      BY <2>3, LimiterAssumption DEF Verifying, Fail, IInv, TypeOK
    <3>2. m'[l] = m[l]
      BY <1>2, <2>3 DEF IInv, TypeOK
    <3> QED BY <3>1, <3>2 DEF IInv, FailuresBounded
  <2> QED BY <2>2, <2>3
<1> QED BY <1>4, <1>5, <1>6 DEF IInv, FailuresBounded

LEMMA NextInv == IInv /\ [Next]_vars => IInv'
  BY QuietInv, PassInv, FailInv DEF Next

\* The inductive invariant holds throughout.
THEOREM Invariance == Spec => []IInv
  BY InitInv, NextInv, PTL DEF Spec

\* A row is an attempt with a count of at least one and an age in the window.
THEOREM TypeCorrect == Spec => []TypeOK
<1>1. IInv => TypeOK
  BY DEF IInv
<1> QED BY <1>1, Invariance, PTL

\* Concurrent handlers overrun the limit of guesses by their number at most.
THEOREM OverrunCorrect == Spec => []FailuresBounded
<1>1. IInv => FailuresBounded
  BY DEF IInv
<1> QED BY <1>1, Invariance, PTL

\* The table keeps its bound, whatever failures come back together.
THEOREM TableCorrect == Spec => []TableBounded
<1>1. IInv => TableBounded
  BY DEF IInv
<1> QED BY <1>1, Invariance, PTL
==============================================================================
