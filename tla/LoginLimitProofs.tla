--------------------------- MODULE LoginLimitProofs ---------------------------
(***************************************************************************)
(* Proofs about LoginLimit, for any failure limit, lock time, and number   *)
(* of usernames and concurrent logins.                                     *)
(***************************************************************************)
EXTENDS LoginLimit, FiniteSetTheorems, TLAPS

-----------------------------------------------------------------------------
(* Type correctness. *)

LEMMA TypeInit == Init => TypeOK
BY LockTicksAssumption, NoNameAssumption DEF Init, TypeOK, NoExpiry

LEMMA TypeNext == TypeOK /\ [Next]_vars => TypeOK'
<1> SUFFICES ASSUME TypeOK, [Next]_vars
             PROVE  TypeOK'
  OBVIOUS
<1> USE LockTicksAssumption, NoNameAssumption DEF TypeOK, NoExpiry
<1>1. CASE Tick
  BY <1>1 DEF Tick
<1>2. ASSUME NEW r \in Requests, NEW n \in Names, Begin(r, n)
      PROVE  TypeOK'
  BY <1>2 DEF Begin
<1>3. ASSUME NEW r \in Requests, Step(r)
      PROVE  TypeOK'
  <2>0. pc[r] # "idle" => name[r] \in Names
    OBVIOUS
  <2>1. CASE Check(r)
    BY <2>1 DEF Check, goto, finish
  <2>2. CASE Compare(r)
    BY <2>2 DEF Compare, goto
  <2>3. CASE Incr(r)
    BY <2>0, <2>3 DEF Incr, goto
  <2>4. CASE Expire(r)
    BY <2>0, <2>4 DEF Expire, finish
  <2>5. CASE Clear(r)
    BY <2>0, <2>5 DEF Clear, deleteCount, finish
  <2>6. QED
    BY <1>3, <2>1, <2>2, <2>3, <2>4, <2>5 DEF Step
<1>4. ASSUME NEW r \in Requests, Fail(r)
      PROVE  TypeOK'
  BY <1>4 DEF Fail, finish
<1>5. ASSUME NEW n \in Names, UnlockUser(n)
      PROVE  TypeOK'
  BY <1>5 DEF UnlockUser, deleteCount
<1>6. ASSUME NEW value \in BOOLEAN, SetConfig(value)
      PROVE  TypeOK'
  BY <1>6 DEF SetConfig
<1>7. CASE UNCHANGED vars
  BY <1>7 DEF vars
<1>8. QED
  BY <1>1, <1>2, <1>3, <1>4, <1>5, <1>6, <1>7 DEF Next

\* Counters, expiries and logins keep their types, and a counter is zero
\* exactly when its key does not exist, in every reachable state.
THEOREM TypeCorrect == Spec => []TypeOK
<1>1. QED
  BY TypeInit, TypeNext, PTL DEF Spec

-----------------------------------------------------------------------------
(* Concurrent logins exceed the limit by a bounded number. *)

LEMMA AttemptsFinite ==
    ASSUME NEW n \in Names
    PROVE  /\ IsFiniteSet(Attempts(n))
           /\ Cardinality(Attempts(n)) \in Nat
           /\ Cardinality(Attempts(n)) <= Cardinality(Requests)
<1>1. Attempts(n) \subseteq Requests
  BY DEF Attempts
<1>2. QED
  BY <1>1, RequestsAssumption, FS_Subset, FS_CardinalityType

\* A step that neither adds a failure nor lets a login through keeps the bound.
LEMMA BoundKept ==
    ASSUME TypeOK, TypeOK', OvershootIsBounded,
           \A n \in Names : count'[n] <= count[n],
           \A n \in Names : Attempts(n)' \subseteq Attempts(n)
    PROVE  OvershootIsBounded'
<1> SUFFICES ASSUME NEW n \in Names
             PROVE  count'[n] + Cardinality(Attempts(n)') <= MaxCount
  BY DEF OvershootIsBounded, MaxCount
<1>1. /\ Cardinality(Attempts(n)) \in Nat
      /\ Cardinality(Attempts(n)') \in Nat
      /\ Cardinality(Attempts(n)') <= Cardinality(Attempts(n))
  BY AttemptsFinite, FS_Subset, FS_CardinalityType
<1>2. count[n] \in Nat /\ count'[n] \in Nat /\ MaxCount \in Int
  BY RequestsAssumption, FS_CardinalityType, MaxFailuresAssumption DEF TypeOK, MaxCount
<1>3. QED
  BY <1>1, <1>2 DEF OvershootIsBounded

\* A login passes the check only below the limit, and then all that are in
\* progress may still fail.
LEMMA BoundCheck ==
    ASSUME TypeOK, TypeOK', OvershootIsBounded, NEW r \in Requests, Check(r)
    PROVE  OvershootIsBounded'
<1>1. CASE finish(r)
  BY <1>1, BoundKept DEF Check, finish, Attempts, TypeOK
<1>2. CASE count[name[r]] < MaxFailures /\ goto(r, "compare")
  <2> SUFFICES ASSUME NEW n \in Names
               PROVE  count'[n] + Cardinality(Attempts(n)') <= MaxCount
    BY DEF OvershootIsBounded, MaxCount
  <2>1. CASE n = name[r]
    <3>1. count'[n] \in Nat /\ count'[n] <= MaxFailures - 1
      BY <1>2, <2>1, MaxFailuresAssumption DEF Check, TypeOK
    <3>2. Attempts(n)' \subseteq Requests
      BY DEF Attempts
    <3>3. /\ Cardinality(Attempts(n)') \in Nat
          /\ Cardinality(Requests) \in Nat
          /\ Cardinality(Attempts(n)') <= Cardinality(Requests)
      BY <3>2, RequestsAssumption, FS_Subset, FS_CardinalityType
    <3>4. QED
      BY <3>1, <3>3, MaxFailuresAssumption DEF MaxCount
  <2>2. CASE n # name[r]
    <3>1. Attempts(n)' = Attempts(n)
      BY <1>2, <2>2 DEF Attempts, goto, TypeOK
    <3>2. QED
      BY <3>1 DEF Check, OvershootIsBounded
  <2>3. QED
    BY <2>1, <2>2
<1>3. QED
  BY <1>1, <1>2 DEF Check

\* A counted failure is one login fewer that may still fail.
LEMMA BoundIncr ==
    ASSUME TypeOK, TypeOK', OvershootIsBounded, NEW r \in Requests, Incr(r)
    PROVE  OvershootIsBounded'
<1> SUFFICES ASSUME NEW n \in Names
             PROVE  count'[n] + Cardinality(Attempts(n)') <= MaxCount
  BY DEF OvershootIsBounded, MaxCount
<1>1. CASE n = name[r]
  <2>1. r \in Attempts(n) /\ Attempts(n)' = Attempts(n) \ {r}
    BY <1>1 DEF Incr, goto, Attempts, TypeOK
  <2>2. IsFiniteSet(Attempts(n)) /\ Cardinality(Attempts(n)) \in Nat
    BY AttemptsFinite
  <2>3. Cardinality(Attempts(n)') = Cardinality(Attempts(n)) - 1
    BY <2>1, <2>2, FS_RemoveElement
  <2>4. count'[n] = count[n] + 1 /\ count[n] \in Nat
    BY <1>1 DEF Incr, TypeOK
  <2>5. count[n] + Cardinality(Attempts(n)) <= MaxCount
    BY DEF OvershootIsBounded
  <2>6. MaxCount \in Int
    BY RequestsAssumption, FS_CardinalityType, MaxFailuresAssumption DEF MaxCount
  <2>7. QED
    BY <2>2, <2>3, <2>4, <2>5, <2>6
<1>2. CASE n # name[r]
  <2>1. Attempts(n)' = Attempts(n) /\ count'[n] = count[n]
    BY <1>2 DEF Incr, goto, Attempts, TypeOK
  <2>2. QED
    BY <2>1 DEF OvershootIsBounded
<1>3. QED
  BY <1>1, <1>2

LEMMA BoundInit == Init => OvershootIsBounded
<1> SUFFICES ASSUME Init, NEW n \in Names
             PROVE  count[n] + Cardinality(Attempts(n)) <= MaxCount
  BY DEF OvershootIsBounded
<1>1. count[n] = 0
  BY DEF Init
<1>2. /\ Cardinality(Attempts(n)) \in Nat
      /\ Cardinality(Requests) \in Nat
      /\ Cardinality(Attempts(n)) <= Cardinality(Requests)
  BY AttemptsFinite, RequestsAssumption, FS_CardinalityType
<1>3. QED
  BY <1>1, <1>2, MaxFailuresAssumption DEF MaxCount

LEMMA BoundNext == TypeOK /\ OvershootIsBounded /\ [Next]_vars => OvershootIsBounded'
<1> SUFFICES ASSUME TypeOK, OvershootIsBounded, [Next]_vars
             PROVE  OvershootIsBounded'
  OBVIOUS
<1>0. TypeOK'
  BY TypeNext
<1>1. CASE Tick
  BY <1>0, <1>1, BoundKept DEF Tick, Attempts, TypeOK
<1>2. ASSUME NEW r \in Requests, NEW n \in Names, Begin(r, n)
      PROVE  OvershootIsBounded'
  BY <1>0, <1>2, BoundKept DEF Begin, Attempts, TypeOK
<1>3. ASSUME NEW r \in Requests, Step(r)
      PROVE  OvershootIsBounded'
  <2>1. CASE Check(r)
    BY <1>0, <2>1, BoundCheck
  <2>2. CASE Compare(r)
    BY <1>0, <2>2, BoundKept DEF Compare, goto, Attempts, TypeOK
  <2>3. CASE Incr(r)
    BY <1>0, <2>3, BoundIncr
  <2>4. CASE Expire(r)
    BY <1>0, <2>4, BoundKept DEF Expire, finish, Attempts, TypeOK
  <2>5. CASE Clear(r)
    <3>1. \A n \in Names : Attempts(n)' \subseteq Attempts(n)
      BY <2>5 DEF Clear, finish, Attempts, TypeOK
    <3>2. \A n \in Names : count'[n] <= count[n]
      BY <2>5 DEF Clear, deleteCount, TypeOK
    <3>3. QED
      BY <1>0, <3>1, <3>2, BoundKept
  <2>6. QED
    BY <1>3, <2>1, <2>2, <2>3, <2>4, <2>5 DEF Step
<1>4. ASSUME NEW r \in Requests, Fail(r)
      PROVE  OvershootIsBounded'
  BY <1>0, <1>4, BoundKept DEF Fail, finish, Attempts, TypeOK
<1>5. ASSUME NEW n \in Names, UnlockUser(n)
      PROVE  OvershootIsBounded'
  BY <1>0, <1>5, BoundKept DEF UnlockUser, deleteCount, Attempts, TypeOK
<1>6. ASSUME NEW value \in BOOLEAN, SetConfig(value)
      PROVE  OvershootIsBounded'
  BY <1>0, <1>6, BoundKept DEF SetConfig, Attempts, TypeOK
<1>7. CASE UNCHANGED vars
  BY <1>0, <1>7, BoundKept DEF vars, Attempts, TypeOK
<1>8. QED
  BY <1>1, <1>2, <1>3, <1>4, <1>5, <1>6, <1>7 DEF Next

\* However logins of one username interleave, their counted failures never
\* exceed MaxFailures - 1 plus the number of logins that can be in progress.
THEOREM OvershootBounded == Spec => []OvershootIsBounded
<1>1. QED
  BY TypeInit, TypeNext, BoundInit, BoundNext, PTL DEF Spec

-----------------------------------------------------------------------------
(* Counters without an expiry. *)

LEMMA PendingNext == TypeOK /\ ExpiryPending /\ [Next]_vars => ExpiryPending'
<1> SUFFICES ASSUME TypeOK, ExpiryPending, [Next]_vars
             PROVE  ExpiryPending'
  OBVIOUS
<1> USE LockTicksAssumption DEF TypeOK, ExpiryPending, NoExpiry
<1>1. CASE Tick
  BY <1>1 DEF Tick
<1>2. ASSUME NEW r \in Requests, NEW n \in Names, Begin(r, n)
      PROVE  ExpiryPending'
  BY <1>2 DEF Begin
<1>3. ASSUME NEW r \in Requests, Step(r)
      PROVE  ExpiryPending'
  <2>1. CASE Check(r)
    BY <2>1 DEF Check, goto, finish
  <2>2. CASE Compare(r)
    BY <2>2 DEF Compare, goto
  <2>3. CASE Incr(r)
    BY <2>3 DEF Incr, goto
  <2>4. CASE Expire(r)
    BY <2>4 DEF Expire, finish
  <2>5. CASE Clear(r)
    BY <2>5 DEF Clear, deleteCount, finish
  <2>6. QED
    BY <1>3, <2>1, <2>2, <2>3, <2>4, <2>5 DEF Step
<1>4. ASSUME NEW r \in Requests, Fail(r)
      PROVE  ExpiryPending'
  BY <1>4 DEF Fail, finish
<1>5. ASSUME NEW n \in Names, UnlockUser(n)
      PROVE  ExpiryPending'
  BY <1>5 DEF UnlockUser, deleteCount
<1>6. ASSUME NEW value \in BOOLEAN, SetConfig(value)
      PROVE  ExpiryPending'
  BY <1>6 DEF SetConfig
<1>7. CASE UNCHANGED vars
  BY <1>7 DEF vars
<1>8. QED
  BY <1>1, <1>2, <1>3, <1>4, <1>5, <1>6, <1>7 DEF Next

\* A counter is without an expiry only while a login is about to set it, or
\* after a login ended before it could.
THEOREM OnlyCutLoginsLeaveNoExpiry == Spec => []ExpiryPending
<1>1. Init => ExpiryPending
  BY DEF Init, ExpiryPending, NoExpiry
<1>2. QED
  BY <1>1, TypeInit, TypeNext, PendingNext, PTL DEF Spec

=============================================================================
