------------------------ MODULE LoginAttemptsProofs ------------------------
(***************************************************************************)
(* Proofs about LoginAttempts, for any finite set of requests, any set of  *)
(* addresses and any limit.                                                *)
(***************************************************************************)
EXTENDS LoginAttempts, FiniteSetTheorems, TLAPS

\* Every reachable state of the lockout is well typed, and no TTL outlives
\* its key, even when commands fail and keys are evicted.
THEOREM TypeCorrect == Spec => []TypeOK
<1>1. Init => TypeOK
  BY DEF Init, TypeOK, Stages
<1>2. TypeOK /\ [Next]_vars => TypeOK'
  <2> SUFFICES ASSUME TypeOK, [Next]_vars
               PROVE  TypeOK'
    OBVIOUS
  <2> USE DEF TypeOK, Stages, Goto
  <2>1. ASSUME NEW r \in Requests, NEW e \in Emails, Start(r, e)
        PROVE  TypeOK'
    BY <2>1 DEF Start
  <2>2. ASSUME NEW r \in Requests, IsLocked(r)
        PROVE  TypeOK'
    BY <2>2 DEF IsLocked
  <2>3. ASSUME NEW r \in Requests, FindUser(r)
        PROVE  TypeOK'
    BY <2>3 DEF FindUser
  <2>4. ASSUME NEW r \in Requests, Compare(r)
        PROVE  TypeOK'
    BY <2>4 DEF Compare
  <2>5. ASSUME NEW r \in Requests, Incr(r)
        PROVE  TypeOK'
    BY <2>5 DEF Incr
  <2>6. ASSUME NEW r \in Requests, Expire(r)
        PROVE  TypeOK'
    BY <2>6 DEF Expire
  <2>7. ASSUME NEW r \in Requests, Reset(r)
        PROVE  TypeOK'
    BY <2>7 DEF Reset, DropKey
  <2>8. ASSUME NEW r \in Requests, Abort(r)
        PROVE  TypeOK'
    BY <2>8 DEF Abort
  <2>9. ASSUME NEW e \in Emails, Elapse(e) \/ Evict(e)
        PROVE  TypeOK'
    <3>1. DropKey(e) /\ UNCHANGED <<pc, email>>
      BY <2>9 DEF Elapse, Evict
    <3>2. QED
      BY <3>1 DEF DropKey
  <2>10. CASE UNCHANGED vars
    BY <2>10 DEF vars
  <2>11. QED
    BY <2>1, <2>2, <2>3, <2>4, <2>5, <2>6, <2>7, <2>8, <2>9, <2>10
    DEF Next, Step
<1>3. QED
  BY <1>1, <1>2, PTL DEF Spec

-----------------------------------------------------------------------------
\* A set of requests is finite, and no larger than the set of all requests.
LEMMA InFlightFinite ==
  ASSUME NEW S, S \subseteq Requests
  PROVE  /\ IsFiniteSet(S)
         /\ Cardinality(S) \in Nat
         /\ Cardinality(Requests) \in Nat
         /\ Cardinality(S) <= Cardinality(Requests)
BY RequestsAssumption, FS_Subset, FS_CardinalityType

\* The bound of one address survives a step that neither raises its counter
\* nor brings another request before its INCR.
LEMMA BoundKept ==
  ASSUME TypeOK, TypeOK', NEW e \in Emails,
         attempts[e] + Cardinality(InFlight(BeforeIncr, e))
           <= MaxAttempts - 1 + Cardinality(Requests),
         attempts'[e] <= attempts[e],
         InFlight(BeforeIncr, e)' \subseteq InFlight(BeforeIncr, e)
  PROVE  attempts'[e] + Cardinality(InFlight(BeforeIncr, e)')
           <= MaxAttempts - 1 + Cardinality(Requests)
<1> DEFINE B == InFlight(BeforeIncr, e)
<1> DEFINE C == InFlight(BeforeIncr, e)'
<1>1. B \subseteq Requests
  BY DEF InFlight
<1>2. /\ IsFiniteSet(B)
      /\ Cardinality(B) \in Nat
      /\ Cardinality(Requests) \in Nat
  BY <1>1, InFlightFinite
<1>3. Cardinality(C) <= Cardinality(B) /\ Cardinality(C) \in Nat
  <2> HIDE DEF B, C
  <2>1. C \subseteq B
    BY DEF B, C
  <2>2. QED
    BY <1>2, <2>1, FS_Subset, FS_CardinalityType
<1>4. attempts[e] \in Nat /\ attempts'[e] \in Nat
  BY DEF TypeOK
<1> HIDE DEF B, C
<1>5. attempts[e] + Cardinality(B) <= MaxAttempts - 1 + Cardinality(Requests)
  BY DEF B
<1>6. attempts'[e] + Cardinality(C) <= MaxAttempts - 1 + Cardinality(Requests)
  BY <1>2, <1>3, <1>4, <1>5, MaxAttemptsAssumption
<1>7. QED
  BY <1>6 DEF C

\* No address counts more failures than MaxAttempts - 1 plus the number of
\* requests, although the check and the count are separate Redis commands.
THEOREM OverrunSafe == Spec => []OverrunBounded
<1>1. Init => OverrunBounded
  <2> SUFFICES ASSUME Init, NEW e \in Emails
               PROVE  attempts[e] + Cardinality(InFlight(BeforeIncr, e))
                        <= MaxAttempts - 1 + Cardinality(Requests)
    BY DEF OverrunBounded
  <2>1. InFlight(BeforeIncr, e) = {}
    BY DEF Init, InFlight, BeforeIncr
  <2>2. attempts[e] = 0
    BY DEF Init
  <2>3. QED
    BY <2>1, <2>2, FS_EmptySet, InFlightFinite, MaxAttemptsAssumption
<1>2. TypeOK /\ TypeOK' /\ OverrunBounded /\ [Next]_vars => OverrunBounded'
  <2> SUFFICES ASSUME TypeOK, TypeOK', OverrunBounded, [Next]_vars,
                      NEW e \in Emails
               PROVE  attempts'[e] + Cardinality(InFlight(BeforeIncr, e)')
                        <= MaxAttempts - 1 + Cardinality(Requests)
    BY DEF OverrunBounded
  <2> DEFINE Kept == /\ attempts'[e] <= attempts[e]
                     /\ InFlight(BeforeIncr, e)' \subseteq
                          InFlight(BeforeIncr, e)
             Goal == attempts'[e] + Cardinality(InFlight(BeforeIncr, e)')
                       <= MaxAttempts - 1 + Cardinality(Requests)
  <2>0. ASSUME Kept PROVE Goal
    BY <2>0, BoundKept DEF OverrunBounded
  <2>a. attempts[e] \in Nat /\ attempts'[e] \in Nat
    BY DEF TypeOK
  <2>b. /\ InFlight(BeforeIncr, e) \subseteq Requests
        /\ InFlight(BeforeIncr, e)' \subseteq Requests
    BY DEF InFlight
  <2>1. ASSUME NEW r \in Requests, NEW f \in Emails, Start(r, f)
        PROVE  Kept
    BY <2>1, <2>a DEF Start, Goto, InFlight, BeforeIncr, TypeOK
  <2>2. ASSUME NEW r \in Requests, IsLocked(r)
        PROVE  Goal
    <3>1. CASE email[r] = e /\ ~Locked(e)
      <4>1. attempts'[e] <= MaxAttempts - 1
        BY <2>2, <3>1, <2>a, MaxAttemptsAssumption DEF IsLocked, Locked
      <4>2. /\ Cardinality(InFlight(BeforeIncr, e)') <= Cardinality(Requests)
            /\ Cardinality(InFlight(BeforeIncr, e)') \in Nat
            /\ Cardinality(Requests) \in Nat
        BY <2>b, InFlightFinite
      <4>3. QED
        BY <4>1, <4>2, <2>a, MaxAttemptsAssumption
    <3>2. CASE email[r] # e \/ Locked(e)
      <4>1. Kept
        BY <2>2, <3>2, <2>a
        DEF IsLocked, Goto, InFlight, BeforeIncr, TypeOK
      <4>2. QED
        BY <4>1, <2>0
    <3>3. QED
      BY <3>1, <3>2
  <2>3. ASSUME NEW r \in Requests, FindUser(r)
        PROVE  Kept
    BY <2>3, <2>a DEF FindUser, Goto, InFlight, BeforeIncr, TypeOK
  <2>4. ASSUME NEW r \in Requests, Compare(r)
        PROVE  Kept
    BY <2>4, <2>a DEF Compare, Goto, InFlight, BeforeIncr, TypeOK
  <2>5. ASSUME NEW r \in Requests, Incr(r)
        PROVE  Goal
    <3>1. CASE email[r] = e
      <4> DEFINE B == InFlight(BeforeIncr, e)
                 C == InFlight(BeforeIncr, e)'
      <4>1. r \in B /\ C = B \ {r}
        BY <2>5, <3>1 DEF Incr, Goto, InFlight, BeforeIncr, TypeOK
      <4>2. IsFiniteSet(B) /\ Cardinality(B) \in Nat
            /\ Cardinality(Requests) \in Nat
        BY <2>b, InFlightFinite
      <4>3. attempts'[e] = attempts[e] + 1
        BY <2>5, <3>1 DEF Incr, TypeOK
      <4>4. attempts[e] + Cardinality(B)
              <= MaxAttempts - 1 + Cardinality(Requests)
        BY DEF OverrunBounded
      <4>5. Cardinality(C) = Cardinality(B) - 1
        <5> HIDE DEF B, C
        <5>1. QED
          BY <4>1, <4>2, FS_RemoveElement
      <4> HIDE DEF B, C
      <4>6. attempts'[e] + Cardinality(C)
              <= MaxAttempts - 1 + Cardinality(Requests)
        BY <4>2, <4>3, <4>4, <4>5, <2>a, MaxAttemptsAssumption
      <4>7. QED
        BY <4>6 DEF C
    <3>2. CASE email[r] # e
      <4>1. Kept
        BY <2>5, <3>2, <2>a DEF Incr, Goto, InFlight, BeforeIncr, TypeOK
      <4>2. QED
        BY <4>1, <2>0
    <3>3. QED
      BY <3>1, <3>2
  <2>6. ASSUME NEW r \in Requests, Expire(r)
        PROVE  Kept
    BY <2>6, <2>a DEF Expire, Goto, InFlight, BeforeIncr, TypeOK
  <2>7. ASSUME NEW r \in Requests, Reset(r)
        PROVE  Kept
    BY <2>7, <2>a DEF Reset, DropKey, Goto, InFlight, BeforeIncr, TypeOK
  <2>8. ASSUME NEW r \in Requests, Abort(r)
        PROVE  Kept
    BY <2>8, <2>a DEF Abort, Goto, InFlight, BeforeIncr, TypeOK
  <2>9. ASSUME NEW f \in Emails, Elapse(f) \/ Evict(f)
        PROVE  Kept
    BY <2>9, <2>a DEF Elapse, Evict, DropKey, InFlight, TypeOK
  <2>10. CASE UNCHANGED vars
    <3>1. Kept
      BY <2>10, <2>a DEF vars, InFlight
    <3>2. QED
      BY <3>1, <2>0
  <2> HIDE DEF Kept, Goal
  <2>11. ASSUME NEW r \in Requests, NEW f \in Emails, Start(r, f)
         PROVE  Goal
    BY <2>0, <2>1, <2>11
  <2>12. ASSUME NEW r \in Requests, Step(r) \/ Abort(r)
         PROVE  Goal
    BY <2>0, <2>2, <2>3, <2>4, <2>5, <2>6, <2>7, <2>8, <2>12 DEF Step
  <2>13. ASSUME NEW f \in Emails, Elapse(f) \/ Evict(f)
         PROVE  Goal
    BY <2>0, <2>9, <2>13
  <2>14. CASE Next
    BY <2>11, <2>12, <2>13, <2>14, Zenon DEF Next, Goal
  <2>15. QED
    BY <2>10, <2>14
<1>3. QED
  BY <1>1, <1>2, TypeCorrect, PTL DEF Spec

-----------------------------------------------------------------------------
\* A counter without a TTL has a request about to set it, or lost that
\* request: no interleaving of logins, expiries and evictions alone leaves an
\* address locked with nothing to end the lock.
THEOREM TtlAlwaysOwed == Spec => []TtlOwed
<1>1. Init => TtlOwed
  BY DEF Init, TtlOwed
<1>2. TypeOK /\ TtlOwed /\ [Next]_vars => TtlOwed'
  <2> SUFFICES ASSUME TypeOK, TtlOwed, [Next]_vars,
                      NEW e \in Emails, attempts'[e] > 0, ~ttl'[e],
                      e \notin orphaned'
               PROVE  \E q \in Requests : pc'[q] = "expire" /\ email'[q] = e
    BY DEF TtlOwed, InFlight
  <2>0. attempts[e] > 0 /\ ~ttl[e] /\ e \notin orphaned =>
          \E q \in Requests : pc[q] = "expire" /\ email[q] = e
    BY DEF TtlOwed, InFlight
  <2> USE DEF TypeOK, Goto
  <2>1. ASSUME NEW r \in Requests, NEW f \in Emails, Start(r, f)
        PROVE  \E q \in Requests : pc'[q] = "expire" /\ email'[q] = e
    BY <2>0, <2>1 DEF Start
  <2>2. ASSUME NEW r \in Requests, IsLocked(r)
        PROVE  \E q \in Requests : pc'[q] = "expire" /\ email'[q] = e
    BY <2>0, <2>2 DEF IsLocked
  <2>3. ASSUME NEW r \in Requests, FindUser(r)
        PROVE  \E q \in Requests : pc'[q] = "expire" /\ email'[q] = e
    BY <2>0, <2>3 DEF FindUser
  <2>4. ASSUME NEW r \in Requests, Compare(r)
        PROVE  \E q \in Requests : pc'[q] = "expire" /\ email'[q] = e
    BY <2>0, <2>4 DEF Compare
  <2>5. ASSUME NEW r \in Requests, Incr(r)
        PROVE  \E q \in Requests : pc'[q] = "expire" /\ email'[q] = e
    BY <2>0, <2>5 DEF Incr
  <2>6. ASSUME NEW r \in Requests, Expire(r)
        PROVE  \E q \in Requests : pc'[q] = "expire" /\ email'[q] = e
    BY <2>0, <2>6 DEF Expire
  <2>7. ASSUME NEW r \in Requests, Reset(r)
        PROVE  \E q \in Requests : pc'[q] = "expire" /\ email'[q] = e
    BY <2>0, <2>7 DEF Reset, DropKey
  <2>8. ASSUME NEW r \in Requests, Abort(r)
        PROVE  \E q \in Requests : pc'[q] = "expire" /\ email'[q] = e
    <3>1. e \notin orphaned /\ attempts[e] > 0 /\ ~ttl[e]
      BY <2>8 DEF Abort
    <3>2. PICK q \in Requests : pc[q] = "expire" /\ email[q] = e
      BY <2>0, <3>1
    <3>3. q # r
      BY <2>8, <3>2 DEF Abort
    <3>4. QED
      BY <2>8, <3>2, <3>3 DEF Abort
  <2>9. ASSUME NEW f \in Emails, Elapse(f) \/ Evict(f)
        PROVE  \E q \in Requests : pc'[q] = "expire" /\ email'[q] = e
    <3>1. DropKey(f) /\ UNCHANGED <<pc, email>>
      BY <2>9 DEF Elapse, Evict
    <3>2. QED
      BY <2>0, <3>1 DEF DropKey
  <2>10. CASE UNCHANGED vars
    BY <2>0, <2>10 DEF vars
  <2>11. QED
    BY <2>1, <2>2, <2>3, <2>4, <2>5, <2>6, <2>7, <2>8, <2>9, <2>10
    DEF Next, Step
<1>3. QED
  BY <1>1, <1>2, TypeCorrect, PTL DEF Spec

\* No request lifts a lock but a login that passed isLocked() before it and
\* had the right password.
THEOREM LockHeld == Spec => LockHolds
<1>1. TypeOK /\ TypeOK' /\ [Next]_vars =>
        [\A e \in Emails :
           Locked(e) /\ ~Locked(e)' =>
             \/ UNCHANGED pc
             \/ \E r \in InFlight({"reset"}, e) : pc'[r] = "idle"]_vars
  <2> SUFFICES ASSUME TypeOK, TypeOK', Next,
                      NEW e \in Emails, Locked(e), ~Locked(e)'
               PROVE  \/ UNCHANGED pc
                      \/ \E r \in InFlight({"reset"}, e) : pc'[r] = "idle"
    BY DEF vars
  <2>1. attempts'[e] < attempts[e]
    BY MaxAttemptsAssumption DEF Locked, TypeOK
  <2>2. ASSUME NEW r \in Requests,
               (\E f \in Emails : Start(r, f)) \/ Abort(r)
        PROVE  FALSE
    BY <2>1, <2>2 DEF Start, Abort, TypeOK
  <2>3. ASSUME NEW r \in Requests,
               IsLocked(r) \/ FindUser(r) \/ Compare(r) \/ Expire(r)
        PROVE  FALSE
    BY <2>1, <2>3 DEF IsLocked, FindUser, Compare, Expire, TypeOK
  <2>4. ASSUME NEW r \in Requests, Incr(r)
        PROVE  FALSE
    BY <2>1, <2>4 DEF Incr, TypeOK
  <2>5. ASSUME NEW r \in Requests, Reset(r)
        PROVE  r \in InFlight({"reset"}, e) /\ pc'[r] = "idle"
    BY <2>1, <2>5 DEF Reset, DropKey, Goto, InFlight, TypeOK
  <2>6. ASSUME NEW f \in Emails, Elapse(f) \/ Evict(f)
        PROVE  UNCHANGED pc
    BY <2>6 DEF Elapse, Evict
  <2>7. QED
    BY <2>2, <2>3, <2>4, <2>5, <2>6 DEF Next, Step, InFlight
<1>2. QED
  BY <1>1, TypeCorrect, PTL DEF Spec, LockHolds
=============================================================================
