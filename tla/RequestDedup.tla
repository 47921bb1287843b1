---------------------------- MODULE RequestDedup ----------------------------
(***************************************************************************)
(* Request deduplication of app/db/redis.py: dedup_check and                *)
(* dedup_store_result around an expensive computation, for the callers that *)
(* share one request_key.  A caller that finds no result takes a lock with  *)
(* a time to live; who does not get the lock polls for the result as long   *)
(* as that, and then computes all the same.                                *)
(*                                                                         *)
(* No route of the application calls the two functions yet, so that the     *)
(* caller (compute, then store) is the one their docstrings describe.       *)
(***************************************************************************)
EXTENDS Integers, FiniteSets

CONSTANTS Callers,
          Ttl,        \* ttl of the lock, and the longest wait, in ticks
          ResultTtl,  \* ttl of a stored result
          MaxTime,    \* bound: ticks of the clock
          MaxFaults,  \* bound: calls of Redis that raise, and callers that die
          Never, NoCaller

ASSUME DedupAssumption ==
    /\ {Ttl, ResultTtl} \subseteq Nat \ {0}
    /\ {MaxTime, MaxFaults} \subseteq Nat
    /\ Never \notin Int
    /\ NoCaller \notin Callers

VARIABLES now,
          lock,      \* when the lock key expires, Never if there is no lock
          result,    \* the stored result: who computed it, and when it expires
          pc,        \* pc[c]: what caller c does next
          since,     \* since[c]: when c began to wait, or to compute
          got,       \* got[c]: whose result c was given as a duplicate
          computed,  \* the callers that began to compute
          late,      \* has a computation outlived the lock?
          faults     \* failures so far

vars == <<now, lock, result, pc, since, got, computed, late, faults>>

NoResult == [by |-> NoCaller, expires |-> Never]
Times == 0..(MaxTime + Ttl + ResultTtl)

TypeOK ==
    /\ now \in 0..MaxTime
    /\ lock \in Times \cup {Never}
    /\ result \in [by : Callers \cup {NoCaller}, expires : Times \cup {Never}]
    /\ pc \in [Callers -> {"check", "lock", "wait", "compute", "store", "done", "dead"}]
    /\ since \in [Callers -> Times \cup {Never}]
    /\ got \in [Callers -> Callers \cup {NoCaller}]
    /\ computed \in SUBSET Callers
    /\ late \in BOOLEAN
    /\ faults \in 0..MaxFaults

Init ==
    /\ now = 0
    /\ lock = Never
    /\ result = NoResult
    /\ pc = [c \in Callers |-> "check"]
    /\ since = [c \in Callers |-> Never]
    /\ got = [c \in Callers |-> NoCaller]
    /\ computed = {}
    /\ late = FALSE
    /\ faults = 0

-----------------------------------------------------------------------------

At(c, here) == pc[c] = here
Go(c, next) == pc' = [pc EXCEPT ![c] = next]

Fault ==
    /\ faults < MaxFaults
    /\ faults' = faults + 1

\* (True, result): the caller returns what another one computed.
Duplicate(c) ==
    /\ result # NoResult
    /\ got' = [got EXCEPT ![c] = result.by]
    /\ Go(c, "done")
    /\ UNCHANGED <<since, computed>>

\* (False, None): the caller goes on with the request.
Proceed(c) ==
    /\ Go(c, "compute")
    /\ since' = [since EXCEPT ![c] = now]
    /\ computed' = computed \cup {c}
    /\ UNCHANGED got

\* GET dedup:result:key
Check(c) ==
    /\ At(c, "check")
    /\ \/ Duplicate(c)
       \/ result = NoResult /\ Go(c, "lock") /\ UNCHANGED <<since, got, computed>>
    /\ UNCHANGED <<now, lock, result, late, faults>>

\* Mutant: the ttl of the lock is given in milliseconds.
TryLockMillis(c) ==
    /\ At(c, "lock")
    /\ \/ lock = Never /\ lock' = now + 1000 * Ttl /\ Proceed(c)
       \/ /\ lock # Never
          /\ since' = [since EXCEPT ![c] = now]
          /\ Go(c, "wait")
          /\ UNCHANGED <<lock, got, computed>>
    /\ UNCHANGED <<now, result, late, faults>>

\* Mutant: SET without NX always succeeds.
TryLockAlways(c) ==
    /\ At(c, "lock")
    /\ lock' = now + Ttl
    /\ Proceed(c)
    /\ UNCHANGED <<now, result, late, faults>>

\* SET dedup:lock:key NX EX ttl, which does not look at the result again.
TryLock(c) ==
    /\ At(c, "lock")
    /\ \/ /\ lock = Never
          /\ lock' = now + Ttl
          /\ Proceed(c)
       \/ /\ lock # Never
          /\ since' = [since EXCEPT ![c] = now]
          /\ Go(c, "wait")
          /\ UNCHANGED <<lock, got, computed>>
    /\ UNCHANGED <<now, result, late, faults>>

\* A poll of the waiting loop finds the result.
WaitHit(c) ==
    /\ At(c, "wait")
    /\ Duplicate(c)
    /\ UNCHANGED <<now, lock, result, late, faults>>

\* Mutant: a loop without an end, that only a result leaves.
WaitForever(c) ==
    /\ At(c, "wait")
    /\ result # NoResult
    /\ Proceed(c)
    /\ UNCHANGED <<now, lock, result, late, faults>>

\* The last poll finds nothing: "treat as not duplicate", without the lock.
WaitTimeout(c) ==
    /\ At(c, "wait")
    /\ now >= since[c] + Ttl
    /\ result = NoResult
    /\ Proceed(c)
    /\ UNCHANGED <<now, lock, result, late, faults>>

\* One of these calls of Redis raises: (False, None).  A lock may have been
\* taken.
CheckFails(c) ==
    /\ pc[c] \in {"check", "lock", "wait"}
    /\ Fault
    /\ Proceed(c)
    /\ \/ UNCHANGED lock
       \/ At(c, "lock") /\ lock = Never /\ lock' = now + Ttl
    /\ UNCHANGED <<now, result, late>>

\* Mutant: the caller publishes a result before it has one.
ComputeAnnounced(c) ==
    /\ At(c, "compute")
    /\ Go(c, "store")
    /\ result' = [by |-> c, expires |-> now + ResultTtl]
    /\ UNCHANGED <<now, lock, since, got, computed, late, faults>>

\* The computation of the caller ends.
Compute(c) ==
    /\ At(c, "compute")
    /\ Go(c, "store")
    /\ UNCHANGED <<now, lock, result, since, got, computed, late, faults>>

\* Mutant: the lock is released, the result is not stored.
PublishNothing(c) == lock' = Never /\ UNCHANGED result

\* Mutant: the result is stored, the lock left to expire.
PublishKeepsLock(c) ==
    /\ result' = [by |-> c, expires |-> now + ResultTtl]
    /\ UNCHANGED lock

\* SETEX result, DEL lock in one transaction, whoever holds the lock by now.
Publish(c) ==
    /\ result' = [by |-> c, expires |-> now + ResultTtl]
    /\ lock' = Never

Store(c) ==
    /\ At(c, "store")
    /\ Publish(c)
    /\ Go(c, "done")
    /\ UNCHANGED <<now, since, got, computed, late, faults>>

\* The transaction raises, done or not; the caller has its own result.
StoreFails(c) ==
    /\ At(c, "store")
    /\ Fault
    /\ Publish(c) \/ UNCHANGED <<result, lock>>
    /\ Go(c, "done")
    /\ UNCHANGED <<now, since, got, computed, late>>

\* The process of the caller ends; its lock stays until it expires.
Die(c) ==
    /\ pc[c] \notin {"done", "dead"}
    /\ Fault
    /\ Go(c, "dead")
    /\ UNCHANGED <<now, lock, result, since, got, computed, late>>

\* A waiting caller polls ten times a second for at most Ttl and a result
\* lives much longer, so that no result goes by unseen.
Polled == \A c \in Callers : pc[c] = "wait" => result.expires # now + 1

\* Time passes, and Redis drops what has expired.
Tick ==
    /\ now < MaxTime
    /\ Polled
    /\ now' = now + 1
    /\ lock' = IF lock = now + 1 THEN Never ELSE lock
    /\ result' = IF result.expires = now + 1 THEN NoResult ELSE result
    /\ late' = (late \/ \E c \in Callers : /\ pc[c] \in {"compute", "store"}
                                           /\ now + 1 >= since[c] + Ttl)
    /\ UNCHANGED <<pc, since, got, computed, faults>>

\* A step of caller c that is not a failure.
Step(c) ==
    \/ Check(c) \/ TryLock(c) \/ WaitHit(c) \/ WaitTimeout(c)
    \/ Compute(c) \/ Store(c)

Next ==
    \/ \E c \in Callers :
          \/ Step(c) \/ CheckFails(c) \/ StoreFails(c) \/ Die(c)
    \/ Tick

Spec == Init /\ [][Next]_vars

\* Time goes on, and the event loop resumes every caller that is not dead.
FairSpec == Spec /\ WF_vars(Tick) /\ \A c \in Callers : WF_vars(Step(c))

-----------------------------------------------------------------------------

\* The callers that compute or are about to store.
Busy == {c \in Callers : pc[c] \in {"compute", "store"}}

\* As long as every computation is done before its lock expires and nothing
\* fails, no two callers compute at the same time, although a waiting caller
\* that loses patience goes on without a lock and a store deletes the lock of
\* whoever has it.
OneAtATimeIfPrompt ==
    (~late /\ faults = 0) => \A c, d \in Busy : c = d

\* A duplicate is given the result of a caller that computed, and never its own.
DuplicateGetsResult ==
    \A c \in Callers :
        got[c] # NoCaller =>
            /\ got[c] \in computed \ {c}
            /\ pc[got[c]] \in {"done", "dead"}
            /\ c \notin computed

\* Who waits gets an answer or goes on alone, also when the caller it waits for
\* died or could not store its result: dedup_check always returns.  (A wait
\* that the bounded clock cuts off says nothing.)
NobodyWaitsForever ==
    \A c \in Callers :
        (pc[c] = "wait" /\ since[c] + Ttl <= MaxTime) ~> pc[c] \in {"done", "dead"}

-----------------------------------------------------------------------------
(* The inductive invariant.                                                 *)

\* Neither key has expired, and a result is that of a caller that stored it.
KeysInv ==
    /\ lock # Never => now < lock /\ lock <= now + Ttl
    /\ result # NoResult =>
          /\ result.by \in computed /\ pc[result.by] = "done"
          /\ result.expires # Never /\ now < result.expires

\* A caller computes or is a duplicate, and neither before its check is over.
CallerInv(c) ==
    /\ c \in Busy => c \in computed
    /\ pc[c] \in {"check", "lock", "wait"} => c \notin computed /\ got[c] = NoCaller
    /\ c \in Busy \/ pc[c] = "wait" => since[c] \in 0..now
    /\ got[c] # NoCaller =>
          got[c] \in computed /\ pc[got[c]] = "done" /\ c \notin computed

\* As long as nothing fails, whoever set the lock is computing, however late: a
\* lock is never left behind.
HolderWorks ==
    (faults = 0 /\ lock # Never) => \E c \in Busy : lock = since[c] + Ttl

\* As long as nothing fails, no caller waits in vain: while there is no result,
\* somebody computes who began before the wait did.
WaitersHaveAReason ==
    faults = 0 =>
        \A c \in Callers :
            (pc[c] = "wait" /\ result = NoResult) => \E d \in Busy : since[d] <= since[c]

\* As long as every computation is prompt and nothing fails, the lock is that of
\* the caller that computes: neither a store nor an expiry takes it from under a
\* computation.
LockMirrorsWork ==
    (~late /\ faults = 0) => \A c \in Busy : lock = since[c] + Ttl

DedupInv ==
    /\ TypeOK
    /\ KeysInv
    /\ \A c \in Callers : CallerInv(c)
    /\ HolderWorks
    /\ WaitersHaveAReason
    /\ LockMirrorsWork
    /\ OneAtATimeIfPrompt
=============================================================================
