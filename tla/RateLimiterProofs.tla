-------------------------- MODULE RateLimiterProofs --------------------------
(***************************************************************************)
(* What RateLimiter guarantees for any number of requests, any limit and    *)
(* window and any failures of Redis.                                       *)
(***************************************************************************)
EXTENDS RateLimiter, FiniteSetTheorems, TLAPS

\* What TTL says is less than half a second short, and not much too long.
LEMMA ToldIsNear ==
    ASSUME NEW left \in Nat, NEW told \in Told(left)
    PROVE  told \in Nat /\ told <= left + Second /\ 2 * told + Second > 2 * left
BY SecondAssumption DEF Told

\* A request that reads the time to wait is told nearly what the key has left.
LEMMA ReadTtlIsNear ==
    ASSUME TypeOK, KeyInv, NEW r \in Requests, ReadTtl(r)
    PROVE  \E told \in Nat :
              /\ told <= Window + Second
              /\ retryAt' = [retryAt EXCEPT ![r] = now + told]
              /\ counter > 0 => 2 * told + Second > 2 * (expires - now)
<1> DEFINE left == IF counter = 0 THEN 0 ELSE expires - now
<1>1. left \in 0..Window
  BY LimitAssumption DEF TypeOK, KeyInv, Times
<1>2. PICK told \in Told(left) : retryAt' = [retryAt EXCEPT ![r] = now + told]
  BY DEF ReadTtl
<1> HIDE DEF left
<1>3. told \in Nat /\ told <= left + Second /\ 2 * told + Second > 2 * left
  BY <1>1, ToldIsNear
<1>4. counter > 0 => left = expires - now
  BY DEF left, TypeOK
<1>5. told <= Window + Second
  BY <1>1, <1>3, LimitAssumption, SecondAssumption
<1> QED
  BY <1>2, <1>3, <1>4, <1>5

\* Every step keeps the types.
LEMMA StepTypeOK == BucketInv /\ [Next]_vars => TypeOK'
<1> SUFFICES ASSUME BucketInv, [Next]_vars PROVE TypeOK'
  OBVIOUS
<1> USE LimitAssumption, SecondAssumption
        DEF BucketInv, KeyInv, TypeOK, Times, At, Go, redis, check
<1>1. ASSUME NEW r \in Requests, Count(r)
      PROVE  TypeOK'
  BY <1>1 DEF Count, Incr
<1>2. ASSUME NEW r \in Requests, CountFails(r)
      PROVE  TypeOK'
  BY <1>2 DEF CountFails, FailOpen, Fault, Incr
<1>3. ASSUME NEW r \in Requests, ReadTtl(r)
      PROVE  TypeOK'
  <2>1. PICK told \in Nat :
           /\ told <= Window + Second
           /\ retryAt' = [retryAt EXCEPT ![r] = now + told]
    BY <1>3, ReadTtlIsNear
  <2>2. now + told \in 0..(MaxTime + Window + Second)
    BY <2>1
  <2>3. retryAt' \in [Requests -> 0..(MaxTime + Window + Second) \cup {Never}]
    BY <2>1, <2>2
  <2> QED
    BY <1>3, <2>3 DEF ReadTtl
<1>4. ASSUME NEW r \in Requests, TtlFails(r)
      PROVE  TypeOK'
  BY <1>4 DEF TtlFails, FailOpen, Fault
<1>5. ASSUME NEW r \in Requests, Handle(r) \/ HandlerRaises(r) \/ Answer(r)
      PROVE  TypeOK'
  BY <1>5 DEF Handle, HandlerRaises, Answer
<1>6. CASE Tick
  BY <1>6 DEF Tick
<1>7. CASE UNCHANGED vars
  BY <1>7 DEF vars
<1> QED
  BY <1>1, <1>2, <1>3, <1>4, <1>5, <1>6, <1>7 DEF Next

Rest == KeyInv /\ \A r \in Requests : WindowInv(r) /\ RefusalInv(r)

\* A count adds the request to the window of the key, which has then as many
\* requests as the key says, and to no other.
LEMMA IncrInWindow ==
    ASSUME BucketInv, NEW r \in Requests, At(r, "idle"), Incr(r)
    PROVE  /\ started' \in Times
           /\ \A t \in Times : t # started' => InWindow(t)' = InWindow(t)
           /\ \A t \in Times : IsFiniteSet(InWindow(t)') /\ InWindow(t) \subseteq InWindow(t)'
           /\ Cardinality(InWindow(started))' = counter'
<1> USE LimitAssumption DEF BucketInv, TypeOK, At
<1>1. started' \in Times /\ window[r] = Never /\ window' = [window EXCEPT ![r] = started']
  BY DEF Incr, KeyInv, WindowInv, Times
<1>2. \A t \in Times : t # started' => InWindow(t)' = InWindow(t)
  BY <1>1 DEF InWindow, Times
<1>3. \A t \in Times : t = started' => InWindow(t)' = InWindow(t) \cup {r}
  BY <1>1 DEF InWindow
<1>4. \A t \in Times : IsFiniteSet(InWindow(t)') /\ InWindow(t) \subseteq InWindow(t)'
  <2> TAKE t \in Times
  <2>1. IsFiniteSet(InWindow(t)) /\ IsFiniteSet(InWindow(t) \cup {r})
    BY FS_AddElement DEF CountInv
  <2> QED
    BY <1>2, <1>3, <2>1
<1>5. PICK t \in Times : t = started'
  BY <1>1
<1>6. r \notin InWindow(t) /\ IsFiniteSet(InWindow(t))
  BY <1>1 DEF InWindow, CountInv, Times
<1>7. Cardinality(InWindow(t)) = counter
  <2>1. CASE counter > 0
    BY <1>5, <2>1 DEF Incr, CountInv
  <2>2. CASE counter = 0
    <3>1. t = now
      BY <1>5, <2>2 DEF Incr
    <3>2. InWindow(t) = {}
      BY <2>2, <3>1 DEF InWindow, WindowInv, Times
    <3> QED
      BY <2>2, <3>2, FS_EmptySet
  <2> QED
    BY <2>1, <2>2
<1>8. Cardinality(InWindow(t) \cup {r}) = counter + 1
  BY <1>6, <1>7, FS_AddElement
<1>9. InWindow(started)' = InWindow(t) \cup {r}
  BY <1>1, <1>5 DEF InWindow
<1> QED
  BY <1>1, <1>2, <1>4, <1>8, <1>9 DEF Incr

\* A count moves no one from window to window, and windows stay apart.
LEMMA IncrSpan ==
    ASSUME BucketInv, NEW r \in Requests, At(r, "idle"), Incr(r)
    PROVE  SpanInv'
BY LimitAssumption DEF BucketInv, TypeOK, Times, At, Incr, KeyInv, WindowInv, SpanInv

\* Every step keeps what the bucket and its requests know of each other.
LEMMA StepRest == BucketInv /\ [Next]_vars => Rest'
<1> SUFFICES ASSUME BucketInv, [Next]_vars PROVE Rest'
  OBVIOUS
<1> USE LimitAssumption DEF BucketInv, TypeOK, Times, At, Go, redis, check
<1>1. ASSUME NEW r \in Requests, Count(r)
      PROVE  Rest'
  <2>1. KeyInv'
    BY <1>1 DEF Count, Incr, KeyInv
  <2>2. \A q \in Requests : WindowInv(q)'
    BY <1>1 DEF Count, Incr, KeyInv, WindowInv
  <2>3. \A q \in Requests : RefusalInv(q)'
    BY <1>1 DEF Count, Incr, WindowInv, RefusalInv
  <2> QED
    BY <2>1, <2>2, <2>3 DEF Rest
<1>2. ASSUME NEW r \in Requests, CountFails(r)
      PROVE  Rest'
  <2>1. KeyInv'
    BY <1>2 DEF CountFails, FailOpen, Incr, KeyInv
  <2>2. \A q \in Requests : WindowInv(q)'
    BY <1>2 DEF CountFails, FailOpen, Incr, KeyInv, WindowInv
  <2>3. \A q \in Requests : RefusalInv(q)'
    BY <1>2 DEF CountFails, FailOpen, Incr, WindowInv, RefusalInv
  <2> QED
    BY <2>1, <2>2, <2>3 DEF Rest
<1>3. ASSUME NEW r \in Requests, ReadTtl(r)
      PROVE  Rest'
  <2>1. KeyInv' /\ \A q \in Requests : WindowInv(q)'
    BY <1>3 DEF ReadTtl, KeyInv, WindowInv
  <2>2. RefusalInv(r)'
    <3>1. PICK told \in Nat :
             /\ retryAt' = [retryAt EXCEPT ![r] = now + told]
             /\ counter > 0 => 2 * told + Second > 2 * (expires - now)
      BY <1>3, ReadTtlIsNear
    <3>2. retryAt'[r] = now + told /\ retryAt'[r] # Never
      BY <3>1
    <3>3. window[r] # Never /\ status[r] = "none" /\ window[r] \in Times
      BY <1>3 DEF ReadTtl, WindowInv
    <3>4. 2 * (now + told) + Second > 2 * (window[r] + Window)
      <4>1. CASE counter = 0
        BY <3>3, <4>1, SecondAssumption DEF WindowInv
      <4>2. CASE counter > 0
        <5>1. expires \in Int /\ expires >= window[r] + Window
          BY <3>3, <4>2 DEF KeyInv, WindowInv
        <5> QED
          BY <3>1, <3>3, <4>2, <5>1, SecondAssumption
      <4> QED
        BY <4>1, <4>2
    <3> QED
      BY <1>3, <3>2, <3>3, <3>4 DEF ReadTtl, RefusalInv
  <2>3. \A q \in Requests \ {r} : RefusalInv(q)'
    BY <1>3 DEF ReadTtl, RefusalInv
  <2> QED
    BY <2>1, <2>2, <2>3 DEF Rest
<1>4. ASSUME NEW r \in Requests, TtlFails(r)
      PROVE  Rest'
  BY <1>4 DEF TtlFails, FailOpen, KeyInv, WindowInv, RefusalInv, Rest
<1>5. ASSUME NEW r \in Requests, Handle(r) \/ HandlerRaises(r) \/ Answer(r)
      PROVE  Rest'
  BY <1>5 DEF Handle, HandlerRaises, Answer, KeyInv, WindowInv, RefusalInv, Rest
<1>6. CASE Tick
  <2>1. KeyInv'
    BY <1>6 DEF Tick, KeyInv
  <2>2. \A q \in Requests : WindowInv(q)'
    BY <1>6 DEF Tick, KeyInv, WindowInv
  <2>3. \A q \in Requests : RefusalInv(q)'
    BY <1>6 DEF Tick, RefusalInv
  <2> QED
    BY <2>1, <2>2, <2>3 DEF Rest
<1>7. CASE UNCHANGED vars
  BY <1>7 DEF vars, KeyInv, WindowInv, RefusalInv, Rest
<1> QED
  BY <1>1, <1>2, <1>3, <1>4, <1>5, <1>6, <1>7 DEF Next

\* A step that counts no request, and refuses none, keeps the counts.
LEMMA QuietCounts ==
    ASSUME BucketInv, window' = window, counted' = counted,
           counter' = 0 \/ UNCHANGED <<counter, started>>,
           faults' = 0 => faults = 0 /\ allowed' = allowed,
           \A r \in Requests : Refused(r)' => Refused(r)
    PROVE  SpanInv' /\ CountInv'
<1>1. SpanInv'
  BY DEF BucketInv, SpanInv
<1>2. \A t : InWindow(t)' = InWindow(t)
  BY DEF InWindow
<1>3. faults' = 0 => \A t : AllowedIn(t)' = AllowedIn(t)
  BY <1>2 DEF AllowedIn
<1>4. \A t \in Times : IsFiniteSet(InWindow(t)')
  BY <1>2 DEF BucketInv, CountInv
<1>5. counter' > 0 => Cardinality(InWindow(started))' = counter'
  <2> SUFFICES ASSUME counter' > 0 PROVE Cardinality(InWindow(started))' = counter'
    OBVIOUS
  <2>1. UNCHANGED <<counter, started>>
    OBVIOUS
  <2>2. InWindow(started)' = InWindow(started)
    BY <2>1 DEF InWindow
  <2> QED
    BY <2>1, <2>2 DEF BucketInv, CountInv
<1>6. ASSUME NEW r \in Requests, Refused(r)'
      PROVE  (Cardinality(InWindow(window[r])) > MaxRequests)'
  <2>1. InWindow(window[r])' = InWindow(window[r])
    BY DEF InWindow
  <2> QED
    BY <1>6, <2>1 DEF BucketInv, CountInv
<1>7. faults' = 0 => \A t \in Times : Cardinality(AllowedIn(t)') <= MaxRequests
  BY <1>3 DEF BucketInv, CountInv
<1> QED
  BY <1>1, <1>4, <1>5, <1>6, <1>7 DEF CountInv, Times

\* A request that is counted keeps the counts, if it is refused only over the
\* limit and allowed, without a failure, only within it.
LEMMA IncrCounts ==
    ASSUME BucketInv, NEW r \in Requests, At(r, "idle"), Incr(r),
           Refused(r)' => counter' > MaxRequests,
           faults' = 0 => /\ faults = 0
                          /\ \A q \in Requests \ {r} : allowed'[q] = allowed[q]
                          /\ allowed'[r] => counter' <= MaxRequests,
           \A q \in Requests \ {r} : Refused(q)' => Refused(q)
    PROVE  SpanInv' /\ CountInv'
<1> USE LimitAssumption
<1>1. SpanInv'
  BY IncrSpan
<1>2. PICK t \in Times : t = started'
  BY IncrInWindow
<1>3. IsFiniteSet(InWindow(t)') /\ Cardinality(InWindow(t)') = counter'
  <2>1. InWindow(started)' = InWindow(t)'
    BY <1>2 DEF InWindow
  <2> QED
    BY <2>1, IncrInWindow
<1>4. window' = [window EXCEPT ![r] = t] /\ window \in [Requests -> Times \cup {Never}]
  BY <1>2 DEF Incr, BucketInv, TypeOK
<1>5. ASSUME NEW q \in Requests, Refused(q)'
      PROVE  (Cardinality(InWindow(window[q])) > MaxRequests)'
  <2>1. CASE q = r
    <3>1. InWindow(window[q])' = InWindow(t)'
      BY <1>4, <2>1 DEF InWindow
    <3> QED
      BY <1>3, <1>5, <2>1, <3>1
  <2>2. CASE q # r
    <3>1. Refused(q) /\ window[q] \in Times
      BY <1>4, <1>5, <2>2 DEF BucketInv, WindowInv, RefusalInv, Refused
    <3>2. PICK s \in Times : s = window[q]
      BY <3>1
    <3>3. InWindow(window[q])' = InWindow(s)' /\ InWindow(window[q]) = InWindow(s)
      BY <1>4, <2>2, <3>2 DEF InWindow
    <3>4. Cardinality(InWindow(s)) > MaxRequests
      BY <3>1, <3>3 DEF BucketInv, CountInv
    <3>5. /\ IsFiniteSet(InWindow(s)') /\ IsFiniteSet(InWindow(s))
          /\ InWindow(s) \subseteq InWindow(s)'
      BY IncrInWindow DEF BucketInv, CountInv
    <3>6. Cardinality(InWindow(s)) <= Cardinality(InWindow(s)')
      BY <3>5, FS_Subset
    <3>7. Cardinality(InWindow(s)) \in Nat /\ Cardinality(InWindow(s)') \in Nat
      BY <3>5, FS_CardinalityType
    <3> QED
      BY <3>3, <3>4, <3>6, <3>7
  <2> QED
    BY <2>1, <2>2
<1>6. ASSUME faults' = 0, NEW s \in Times
      PROVE  Cardinality(AllowedIn(s)') <= MaxRequests
  <2>1. IsFiniteSet(InWindow(s)) /\ Cardinality(AllowedIn(s)) <= MaxRequests
    BY <1>6 DEF BucketInv, CountInv
  <2>2. CASE s = t /\ allowed'[r]
    <3>1. AllowedIn(s)' \subseteq InWindow(t)'
      BY <2>2 DEF AllowedIn
    <3>2. /\ Cardinality(AllowedIn(s)') <= Cardinality(InWindow(t)')
          /\ Cardinality(AllowedIn(s)') \in Nat
      BY <1>3, <3>1, FS_Subset, FS_CardinalityType
    <3>3. counter' <= MaxRequests /\ counter' \in Nat
      BY <1>6, <2>2 DEF Incr, BucketInv, TypeOK
    <3> QED
      BY <1>3, <3>2, <3>3
  <2>3. CASE ~(s = t /\ allowed'[r])
    <3>1. AllowedIn(s)' \subseteq AllowedIn(s)
      BY <1>4, <1>6, <2>3 DEF AllowedIn, InWindow
    <3>2. IsFiniteSet(AllowedIn(s))
      BY <2>1, FS_Subset DEF AllowedIn
    <3>3. /\ Cardinality(AllowedIn(s)') <= Cardinality(AllowedIn(s))
          /\ Cardinality(AllowedIn(s)') \in Nat /\ Cardinality(AllowedIn(s)) \in Nat
      BY <3>1, <3>2, FS_Subset, FS_CardinalityType
    <3> QED
      BY <2>1, <3>3
  <2> QED
    BY <2>2, <2>3
<1>7. \A s \in Times : IsFiniteSet(InWindow(s)')
  BY IncrInWindow
<1>8. Cardinality(InWindow(started))' = counter'
  BY IncrInWindow
<1> QED
  BY <1>1, <1>5, <1>6, <1>7, <1>8 DEF CountInv, Times

\* Every step keeps what windows know of the requests in them.
LEMMA StepCounts == BucketInv /\ [Next]_vars => SpanInv' /\ CountInv'
<1> SUFFICES ASSUME BucketInv, [Next]_vars PROVE SpanInv' /\ CountInv'
  OBVIOUS
<1> USE LimitAssumption DEF At, Go, redis, check
<1>0. TypeOK /\ \A r \in Requests : WindowInv(r)
  BY DEF BucketInv
<1>1. ASSUME NEW r \in Requests, Count(r)
      PROVE  SpanInv' /\ CountInv'
  <2>1. At(r, "idle") /\ Incr(r)
    BY <1>1 DEF Count
  <2>2. Refused(r)' => counter' > MaxRequests
    <3>1. status'[r] = "none" /\ counter' \in Nat
      BY <1>0, <1>1 DEF Count, Incr, TypeOK, WindowInv
    <3>2. Refused(r)' => ~allowed'[r]
      BY <3>1 DEF Refused
    <3>3. counter' <= MaxRequests => allowed'[r]
      BY <1>0, <1>1 DEF Count, TypeOK
    <3> QED
      BY <3>1, <3>2, <3>3
  <2>3. faults' = 0 => /\ faults = 0
                       /\ \A q \in Requests \ {r} : allowed'[q] = allowed[q]
                       /\ allowed'[r] => counter' <= MaxRequests
    BY <1>0, <1>1 DEF Count, TypeOK
  <2>4. \A q \in Requests \ {r} : Refused(q)' => Refused(q)
    BY <1>0, <1>1 DEF Count, TypeOK, Refused
  <2> QED
    BY <2>1, <2>2, <2>3, <2>4, IncrCounts
<1>2. ASSUME NEW r \in Requests, CountFails(r)
      PROVE  SpanInv' /\ CountInv'
  <2>1. At(r, "idle") /\ faults' # 0
    BY <1>0, <1>2 DEF CountFails, Fault, TypeOK
  <2>2. ~Refused(r)'
    BY <1>0, <1>2 DEF CountFails, FailOpen, TypeOK, WindowInv, Refused
  <2>3. \A q \in Requests \ {r} : Refused(q)' => Refused(q)
    BY <1>0, <1>2 DEF CountFails, FailOpen, TypeOK, Refused
  <2>4. CASE Incr(r)
    BY <2>1, <2>2, <2>3, <2>4, IncrCounts
  <2>5. CASE UNCHANGED <<redis, counted, window>>
    <3>1. \A q \in Requests : Refused(q)' => Refused(q)
      BY <2>2, <2>3
    <3> QED
      BY <2>1, <2>5, <3>1, QuietCounts
  <2> QED
    BY <1>2, <2>4, <2>5 DEF CountFails
<1>3. ASSUME NEW r \in Requests, ReadTtl(r) \/ Handle(r) \/ HandlerRaises(r) \/ Answer(r)
      PROVE  SpanInv' /\ CountInv'
  <2>1. \A q \in Requests : Refused(q)' => Refused(q)
    BY <1>0, <1>3 DEF ReadTtl, Handle, HandlerRaises, Answer, TypeOK, Refused
  <2>2. UNCHANGED <<redis, counted, window, allowed, faults>>
    BY <1>3 DEF ReadTtl, Handle, HandlerRaises, Answer
  <2> QED
    BY <2>1, <2>2, QuietCounts
<1>4. ASSUME NEW r \in Requests, TtlFails(r)
      PROVE  SpanInv' /\ CountInv'
  <2>1. \A q \in Requests : Refused(q)' => Refused(q)
    BY <1>0, <1>4 DEF TtlFails, FailOpen, TypeOK, Refused, WindowInv
  <2>2. UNCHANGED <<redis, counted, window>> /\ faults' # 0
    BY <1>0, <1>4 DEF TtlFails, Fault, TypeOK
  <2> QED
    BY <2>1, <2>2, QuietCounts
<1>5. CASE Tick
  <2>1. \A q \in Requests : Refused(q)' => Refused(q)
    BY <1>5 DEF Tick, Refused
  <2>2. /\ UNCHANGED <<counted, window, allowed, faults>>
        /\ counter' = 0 \/ UNCHANGED <<counter, started>>
    BY <1>5 DEF Tick
  <2> QED
    BY <2>1, <2>2, QuietCounts
<1>6. CASE UNCHANGED vars
  <2>1. \A q \in Requests : Refused(q)' => Refused(q)
    BY <1>6 DEF vars, Refused
  <2> QED
    BY <1>6, <2>1, QuietCounts DEF vars
<1> QED
  BY <1>1, <1>2, <1>3, <1>4, <1>5, <1>6 DEF Next

\* The inductive invariant always holds.
THEOREM RateInv == Spec => []BucketInv
<1>1. ASSUME Init PROVE BucketInv
  <2> USE <1>1, LimitAssumption DEF Init
  <2>1. TypeOK
    BY DEF TypeOK, Times
  <2>2. KeyInv /\ (\A r \in Requests : WindowInv(r) /\ RefusalInv(r)) /\ SpanInv
    BY DEF KeyInv, WindowInv, RefusalInv, SpanInv
  <2>3. \A t \in Times : InWindow(t) = {} /\ AllowedIn(t) = {}
    BY DEF InWindow, AllowedIn, Times
  <2>4. CountInv
    BY <2>3, FS_EmptySet DEF CountInv, Refused
  <2> QED
    BY <2>1, <2>2, <2>4 DEF BucketInv
<1>2. BucketInv /\ [Next]_vars => BucketInv'
  BY StepTypeOK, StepRest, StepCounts DEF BucketInv, Rest
<1> QED
  BY <1>1, <1>2, PTL DEF Spec

\* A bucket that counts always has an expiry at most one window away.
THEOREM RateNoLockout == Spec => []NoLockout
<1>1. BucketInv => NoLockout
  BY LimitAssumption DEF BucketInv, TypeOK, Times, KeyInv, NoLockout
<1> QED
  BY <1>1, RateInv, PTL

\* The waiting time of a 429, with the half second that TTL may round away, outlasts
\* the window of the refusal.
THEOREM RateRetryAfterIsEnough == Spec => []RetryAfterIsEnough
<1>1. BucketInv => RetryAfterIsEnough
  BY DEF BucketInv, RefusalInv, RetryAfterIsEnough
<1> QED
  BY <1>1, RateInv, PTL

\* A request is refused only when the window it was counted in was full without it,
\* whatever fails.
THEOREM RateRefusedOnlyWhenFull == Spec => []RefusedOnlyWhenFull
<1>1. ASSUME BucketInv PROVE RefusedOnlyWhenFull
  <2> SUFFICES ASSUME NEW r \in Requests, status[r] = "429"
               PROVE  Cardinality({q \in Requests \ {r} : window[q] = window[r]})
                        >= MaxRequests
    BY DEF RefusedOnlyWhenFull
  <2> USE <1>1, LimitAssumption DEF BucketInv
  <2>1. window[r] \in Times /\ Refused(r)
    BY DEF TypeOK, RefusalInv, Refused
  <2>2. IsFiniteSet(InWindow(window[r])) /\ Cardinality(InWindow(window[r])) > MaxRequests
    BY <2>1 DEF CountInv
  <2>3. {q \in Requests \ {r} : window[q] = window[r]} = InWindow(window[r]) \ {r}
    BY DEF InWindow
  <2>4. Cardinality(InWindow(window[r]) \ {r}) >= Cardinality(InWindow(window[r])) - 1
    BY <2>2, FS_RemoveElement, FS_CardinalityType
  <2>5. Cardinality(InWindow(window[r])) \in Nat /\ Cardinality(InWindow(window[r]) \ {r}) \in Nat
    BY <2>2, FS_RemoveElement, FS_CardinalityType
  <2> QED
    BY <2>2, <2>3, <2>4, <2>5
<1> QED
  BY <1>1, RateInv, PTL

\* As long as Redis answers, no window admits more than the limit and no span of a
\* window's length more than twice that.
THEOREM RateAdmissionIsBounded == Spec => []AdmissionIsBounded
<1>1. ASSUME BucketInv PROVE AdmissionIsBounded
  <2> SUFFICES ASSUME faults = 0, NEW t \in 0..MaxTime
               PROVE  /\ Cardinality({r \in Admitted : window[r] = t}) <= MaxRequests
                      /\ Cardinality({r \in Admitted : counted[r] \in t..(t + Window - 1)})
                           <= 2 * MaxRequests
    BY DEF AdmissionIsBounded
  <2> USE <1>1, LimitAssumption DEF BucketInv
  <2>1. \A w \in Times : IsFiniteSet(AllowedIn(w)) /\ Cardinality(AllowedIn(w)) <= MaxRequests
    <3> TAKE w \in Times
    <3>1. IsFiniteSet(InWindow(w)) /\ AllowedIn(w) \subseteq InWindow(w)
      BY DEF CountInv, AllowedIn
    <3> QED
      BY <3>1, FS_Subset DEF CountInv
  <2>2. Cardinality({r \in Admitted : window[r] = t}) <= MaxRequests
    <3>1. t \in Times
      BY DEF Times
    <3>2. {r \in Admitted : window[r] = t} \subseteq AllowedIn(t)
      BY DEF Admitted, AllowedIn, InWindow
    <3>3. /\ Cardinality({r \in Admitted : window[r] = t}) <= Cardinality(AllowedIn(t))
          /\ Cardinality({r \in Admitted : window[r] = t}) \in Nat
          /\ Cardinality(AllowedIn(t)) \in Nat
      BY <2>1, <3>1, <3>2, FS_Subset, FS_CardinalityType
    <3> QED
      BY <2>1, <3>1, <3>3
  <2>3. Cardinality({r \in Admitted : counted[r] \in t..(t + Window - 1)}) <= 2 * MaxRequests
    <3> DEFINE Span == {r \in Admitted : counted[r] \in t..(t + Window - 1)}
    <3>1. CASE Span = {}
      BY <3>1, FS_EmptySet
    <3>2. ASSUME NEW p \in Span
          PROVE  Cardinality(Span) <= 2 * MaxRequests
      <4>1. \A r \in Span : window[r] \in Times /\ r \in AllowedIn(window[r])
        BY DEF TypeOK, Admitted, AllowedIn, InWindow
      <4>2. PICK q \in Span : window[q] # window[p] \/ \A r \in Span : window[r] = window[p]
        BY <3>2
      <4>3. ASSUME NEW r \in Span
            PROVE  window[r] = window[p] \/ window[r] = window[q]
        <5>1. \A x \in {p, q, r} :
                 /\ x \in Requests /\ window[x] \in Int
                 /\ counted[x] \in window[x]..(window[x] + Window - 1)
                 /\ counted[x] \in t..(t + Window - 1)
          BY <3>2, <4>1, <4>2, <4>3 DEF Admitted, SpanInv, Times
        <5> QED
          BY <4>2, <5>1 DEF SpanInv
      <4>4. Span \subseteq AllowedIn(window[p]) \cup AllowedIn(window[q])
        BY <4>1, <4>3
      <4>5. /\ IsFiniteSet(AllowedIn(window[p])) /\ IsFiniteSet(AllowedIn(window[q]))
            /\ Cardinality(AllowedIn(window[p])) <= MaxRequests
            /\ Cardinality(AllowedIn(window[q])) <= MaxRequests
        BY <2>1, <3>2, <4>1, <4>2
      <4> DEFINE Both == AllowedIn(window[p]) \cup AllowedIn(window[q])
      <4>6. /\ IsFiniteSet(Both)
            /\ Cardinality(Both) <= Cardinality(AllowedIn(window[p]))
                                       + Cardinality(AllowedIn(window[q]))
        <5>1. IsFiniteSet(AllowedIn(window[p]) \cap AllowedIn(window[q]))
          BY <4>5, FS_Subset
        <5>2. /\ Cardinality(AllowedIn(window[p]) \cap AllowedIn(window[q])) \in Nat
              /\ Cardinality(AllowedIn(window[p])) \in Nat
              /\ Cardinality(AllowedIn(window[q])) \in Nat
          BY <4>5, <5>1, FS_CardinalityType
        <5>3. /\ IsFiniteSet(Both)
              /\ Cardinality(Both) =
                   Cardinality(AllowedIn(window[p])) + Cardinality(AllowedIn(window[q]))
                     - Cardinality(AllowedIn(window[p]) \cap AllowedIn(window[q]))
          BY <4>5, FS_Union
        <5> HIDE DEF Both
        <5> QED
          BY <5>2, <5>3
      <4>7. Cardinality(Span) <= Cardinality(Both) /\ Cardinality(Span) \in Nat
        BY <4>4, <4>6, FS_Subset, FS_CardinalityType
      <4> QED
        BY <4>5, <4>6, <4>7, FS_CardinalityType
    <3> QED
      BY <3>1, <3>2
  <2> QED
    BY <2>2, <2>3
<1> QED
  BY <1>1, RateInv, PTL
=============================================================================
