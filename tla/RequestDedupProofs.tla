-------------------------- MODULE RequestDedupProofs --------------------------
(***************************************************************************)
(* What RequestDedup guarantees for any number of callers, any times to     *)
(* live and any failures.                                                  *)
(***************************************************************************)
EXTENDS RequestDedup, TLAPS

Prompt == HolderWorks /\ WaitersHaveAReason /\ LockMirrorsWork /\ OneAtATimeIfPrompt

\* Every step keeps the types.
LEMMA StepTypeOK == DedupInv /\ [Next]_vars => TypeOK'
<1> SUFFICES ASSUME DedupInv, [Next]_vars PROVE TypeOK'
  OBVIOUS
<1> USE DedupAssumption
    DEF DedupInv, KeysInv, TypeOK, Times, At, Go, Proceed, Publish, NoResult
<1>1. ASSUME NEW c \in Callers, Check(c)
      PROVE  TypeOK'
  BY <1>1 DEF Check, Duplicate
<1>2. ASSUME NEW c \in Callers, TryLock(c)
      PROVE  TypeOK'
  BY <1>2 DEF TryLock
<1>3. ASSUME NEW c \in Callers, WaitHit(c)
      PROVE  TypeOK'
  BY <1>3 DEF WaitHit, Duplicate
<1>4. ASSUME NEW c \in Callers, WaitTimeout(c)
      PROVE  TypeOK'
  BY <1>4 DEF WaitTimeout
<1>5. ASSUME NEW c \in Callers, Compute(c)
      PROVE  TypeOK'
  BY <1>5 DEF Compute
<1>6. ASSUME NEW c \in Callers, Store(c)
      PROVE  TypeOK'
  BY <1>6 DEF Store
<1>7. ASSUME NEW c \in Callers, CheckFails(c)
      PROVE  TypeOK'
  BY <1>7 DEF CheckFails, Fault
<1>8. ASSUME NEW c \in Callers, StoreFails(c)
      PROVE  TypeOK'
  BY <1>8 DEF StoreFails, Fault
<1>9. ASSUME NEW c \in Callers, Die(c)
      PROVE  TypeOK'
  BY <1>9 DEF Die, Fault
<1>10. CASE Tick
  <2>1. late' \in BOOLEAN
    BY <1>10, Zenon DEF Tick
  <2>2. result' \in [by : Callers \cup {NoCaller}, expires : Times \cup {Never}]
    BY <1>10 DEF Tick
  <2> QED
    BY <1>10, <2>1, <2>2 DEF Tick
<1>11. CASE UNCHANGED vars
  BY <1>11 DEF vars
<1> QED
  BY <1>1, <1>2, <1>3, <1>4, <1>5, <1>6, <1>7, <1>8, <1>9, <1>10, <1>11
     DEF Next, Step

\* Every step keeps what the keys say, and what a caller knows of itself.
LEMMA StepKeys ==
    DedupInv /\ [Next]_vars => KeysInv' /\ \A c \in Callers : CallerInv(c)'
<1> SUFFICES ASSUME DedupInv, [Next]_vars
             PROVE  KeysInv' /\ \A c \in Callers : CallerInv(c)'
  OBVIOUS
<1> USE DedupAssumption
    DEF DedupInv, TypeOK, Times, At, Go, Proceed, Publish, NoResult, Busy,
        KeysInv, CallerInv
<1>1. ASSUME NEW c \in Callers, Check(c)
      PROVE  KeysInv' /\ \A d \in Callers : CallerInv(d)'
  BY <1>1 DEF Check, Duplicate
<1>2. ASSUME NEW c \in Callers, TryLock(c)
      PROVE  KeysInv' /\ \A d \in Callers : CallerInv(d)'
  BY <1>2 DEF TryLock
<1>3. ASSUME NEW c \in Callers, WaitHit(c)
      PROVE  KeysInv' /\ \A d \in Callers : CallerInv(d)'
  BY <1>3 DEF WaitHit, Duplicate
<1>4. ASSUME NEW c \in Callers, WaitTimeout(c)
      PROVE  KeysInv' /\ \A d \in Callers : CallerInv(d)'
  BY <1>4 DEF WaitTimeout
<1>5. ASSUME NEW c \in Callers, Compute(c)
      PROVE  KeysInv' /\ \A d \in Callers : CallerInv(d)'
  BY <1>5 DEF Compute
<1>6. ASSUME NEW c \in Callers, Store(c)
      PROVE  KeysInv' /\ \A d \in Callers : CallerInv(d)'
  BY <1>6 DEF Store
<1>7. ASSUME NEW c \in Callers, CheckFails(c)
      PROVE  KeysInv' /\ \A d \in Callers : CallerInv(d)'
  BY <1>7 DEF CheckFails, Fault
<1>8. ASSUME NEW c \in Callers, StoreFails(c)
      PROVE  KeysInv' /\ \A d \in Callers : CallerInv(d)'
  BY <1>8 DEF StoreFails, Fault
<1>9. ASSUME NEW c \in Callers, Die(c)
      PROVE  KeysInv' /\ \A d \in Callers : CallerInv(d)'
  BY <1>9 DEF Die, Fault
<1>10. CASE Tick
  <2>1. KeysInv'
    BY <1>10 DEF Tick
  <2>2. \A d \in Callers : CallerInv(d)'
    BY <1>10 DEF Tick
  <2> QED
    BY <2>1, <2>2
<1>11. CASE UNCHANGED vars
  BY <1>11 DEF vars
<1> QED
  BY <1>1, <1>2, <1>3, <1>4, <1>5, <1>6, <1>7, <1>8, <1>9, <1>10, <1>11
     DEF Next, Step

\* Every step keeps what the lock and the result say of who computes.
LEMMA StepPrompt == DedupInv /\ [Next]_vars => Prompt'
<1> SUFFICES ASSUME DedupInv, [Next]_vars PROVE Prompt'
  OBVIOUS
<1> USE DedupAssumption
    DEF DedupInv, TypeOK, Times, At, Go, Proceed, Publish, NoResult, Busy,
        KeysInv, CallerInv, HolderWorks, WaitersHaveAReason, LockMirrorsWork,
        OneAtATimeIfPrompt, Prompt
<1>1. ASSUME NEW c \in Callers, Check(c) \/ WaitHit(c)
      PROVE  Prompt'
  BY <1>1 DEF Check, WaitHit, Duplicate
<1>2. ASSUME NEW c \in Callers, TryLock(c)
      PROVE  Prompt'
  <2>1. HolderWorks'
    BY <1>2 DEF TryLock
  <2>2. WaitersHaveAReason'
    BY <1>2 DEF TryLock
  <2>3. LockMirrorsWork'
    BY <1>2 DEF TryLock
  <2>4. OneAtATimeIfPrompt'
    BY <1>2 DEF TryLock
  <2> QED
    BY <2>1, <2>2, <2>3, <2>4
<1>3. ASSUME NEW c \in Callers, WaitTimeout(c)
      PROVE  Prompt'
  <2>1. HolderWorks'
    BY <1>3 DEF WaitTimeout
  <2>2. WaitersHaveAReason'
    BY <1>3 DEF WaitTimeout
  <2>3. late \/ faults # 0
    BY <1>3 DEF WaitTimeout
  <2> QED
    BY <1>3, <2>1, <2>2, <2>3 DEF WaitTimeout
<1>4. ASSUME NEW c \in Callers, Compute(c)
      PROVE  Prompt'
  BY <1>4 DEF Compute
<1>5. ASSUME NEW c \in Callers, Store(c)
      PROVE  Prompt'
  BY <1>5 DEF Store
<1>6. ASSUME NEW c \in Callers, CheckFails(c) \/ StoreFails(c) \/ Die(c)
      PROVE  Prompt'
  <2>1. faults' # 0
    BY <1>6 DEF CheckFails, StoreFails, Die, Fault
  <2> QED
    BY <2>1
<1>7. CASE Tick
  <2>1. HolderWorks'
    BY <1>7 DEF Tick
  <2>2. WaitersHaveAReason'
    BY <1>7 DEF Tick, Polled
  <2>3. LockMirrorsWork'
    <3> SUFFICES ASSUME ~late', faults' = 0, NEW c \in Busy'
                 PROVE  lock' = since'[c] + Ttl
      BY Zenon DEF LockMirrorsWork
    <3>1. c \in Callers /\ c \in Busy /\ faults = 0 /\ since' = since /\ now \in Int
      BY <1>7 DEF Tick
    <3>2. ~late /\ ~(now + 1 >= since[c] + Ttl)
      BY <1>7, <3>1, Zenon DEF Tick
    <3>3. lock = since[c] + Ttl
      BY <3>1, <3>2
    <3>4. lock # now + 1
      BY <3>1, <3>2, <3>3
    <3> QED
      BY <1>7, <3>1, <3>3, <3>4 DEF Tick
  <2>4. OneAtATimeIfPrompt'
    BY <1>7 DEF Tick
  <2> QED
    BY <2>1, <2>2, <2>3, <2>4
<1>8. CASE UNCHANGED vars
  BY <1>8 DEF vars
<1> QED
  BY <1>1, <1>2, <1>3, <1>4, <1>5, <1>6, <1>7, <1>8 DEF Next, Step

\* The inductive invariant always holds: whoever set the lock is computing, and
\* nobody waits in vain, while nothing fails.
THEOREM DedupInvariant == Spec => []DedupInv
<1>1. ASSUME Init PROVE DedupInv
  <2> USE <1>1 DEF Init
  <2>1. TypeOK
    <3>1. now \in 0..MaxTime /\ faults \in 0..MaxFaults
      BY DedupAssumption
    <3>2. result \in [by : Callers \cup {NoCaller}, expires : Times \cup {Never}]
      BY DEF NoResult
    <3> QED
      BY <3>1, <3>2 DEF TypeOK
  <2>2. KeysInv /\ \A c \in Callers : CallerInv(c)
    BY DEF KeysInv, CallerInv, Busy
  <2>3. HolderWorks /\ WaitersHaveAReason /\ LockMirrorsWork /\ OneAtATimeIfPrompt
    BY DEF HolderWorks, WaitersHaveAReason, LockMirrorsWork, OneAtATimeIfPrompt, Busy
  <2> QED
    BY <2>1, <2>2, <2>3 DEF DedupInv
<1>2. DedupInv /\ [Next]_vars => DedupInv'
  BY StepTypeOK, StepKeys, StepPrompt DEF DedupInv, Prompt
<1> QED
  BY <1>1, <1>2, PTL DEF Spec

\* Prompt callers never compute at the same time, for any number of callers.
THEOREM DedupOneAtATime == Spec => []OneAtATimeIfPrompt
<1>1. DedupInv => OneAtATimeIfPrompt
  BY DEF DedupInv
<1> QED
  BY <1>1, DedupInvariant, PTL

\* A duplicate is given what another caller computed, whatever fails.
THEOREM DedupDuplicate == Spec => []DuplicateGetsResult
<1>1. DedupInv => DuplicateGetsResult
  BY DedupAssumption DEF DedupInv, TypeOK, CallerInv, DuplicateGetsResult
<1> QED
  BY <1>1, DedupInvariant, PTL
=============================================================================
