----------------------------- MODULE RateLimiter -----------------------------
(***************************************************************************)
(* The rate limiter: dispatch of app/core/rate_limiter.py around            *)
(* rate_limit_check of app/db/redis.py, for the requests that share one     *)
(* bucket (the API key or address of a client and the third segment of the  *)
(* path).  All workers count in the same Redis; a counter lives for one     *)
(* window from its first request on and is then gone.                      *)
(*                                                                         *)
(* Redis may fail at either of the two calls of a check, before or after it *)
(* did what it was asked; the limiter then lets the request pass.          *)
(***************************************************************************)
EXTENDS RedisTime, FiniteSets

CONSTANTS Requests,    \* requests of one bucket
          MaxRequests, \* max_requests of the path
          Window,      \* window_seconds, in ticks
          MaxTime,     \* bound: ticks of the clock
          MaxFaults,   \* bound: calls of Redis that raise
          Never        \* no time

ASSUME LimitAssumption ==
    /\ MaxRequests \in Nat
    /\ Window \in Nat \ {0}
    /\ MaxTime \in Nat
    /\ MaxFaults \in Nat
    /\ Never \notin Int

VARIABLES now,        \* the time
          counter,    \* the value of the bucket's key, 0 when there is no key
          expires,    \* when Redis drops the key
          started,    \* when the key was made
          pc,         \* pc[r]: what request r waits for
          allowed,    \* allowed[r]: is_allowed
          remaining,  \* remaining[r]: the X-RateLimit-Remaining of r
          retryAt,    \* retryAt[r]: the time at which reset_in runs out
          counted,    \* counted[r]: when r was counted, Never if it was not
          window,     \* window[r]: the `started` of the key r was counted in
          status,     \* status[r]: the status code of the response
          faults      \* calls of Redis that raised

redis == <<counter, expires, started>>
check == <<allowed, remaining, retryAt>>
vars == <<now, redis, pc, check, counted, window, status, faults>>

Times == 0..(MaxTime + Window)

TypeOK ==
    /\ now \in 0..MaxTime
    /\ counter \in Nat
    /\ expires \in Times \cup {Never}
    /\ started \in Times \cup {Never}
    /\ pc \in [Requests -> {"idle", "ttl", "handle", "answer", "done"}]
    /\ allowed \in [Requests -> BOOLEAN]
    /\ remaining \in [Requests -> 0..MaxRequests]
    /\ retryAt \in [Requests -> 0..(MaxTime + Window + Second) \cup {Never}]
    /\ counted \in [Requests -> Times \cup {Never}]
    /\ window \in [Requests -> Times \cup {Never}]
    /\ status \in [Requests -> {"none", "ok", "429", "500"}]
    /\ faults \in 0..MaxFaults

Init ==
    /\ now = 0
    /\ counter = 0 /\ expires = Never /\ started = Never
    /\ pc = [r \in Requests |-> "idle"]
    /\ allowed = [r \in Requests |-> FALSE]
    /\ remaining = [r \in Requests |-> 0]
    /\ retryAt = [r \in Requests |-> Never]
    /\ counted = [r \in Requests |-> Never]
    /\ window = [r \in Requests |-> Never]
    /\ status = [r \in Requests |-> "none"]
    /\ faults = 0

-----------------------------------------------------------------------------

At(r, here) == pc[r] = here
Go(r, next) == pc' = [pc EXCEPT ![r] = next]

Fault ==
    /\ faults < MaxFaults
    /\ faults' = faults + 1

\* Mutant: EXPIRE without NX, so that every request moves the expiry.
IncrExtends(r) ==
    /\ counter' = counter + 1
    /\ expires' = now + Window
    /\ started' = IF counter = 0 THEN now ELSE started
    /\ counted' = [counted EXCEPT ![r] = now]
    /\ window' = [window EXCEPT ![r] = started']

\* Mutant: the expiry is not part of the transaction and gets lost.
IncrForever(r) ==
    /\ counter' = counter + 1
    /\ started' = IF counter = 0 THEN now ELSE started
    /\ counted' = [counted EXCEPT ![r] = now]
    /\ window' = [window EXCEPT ![r] = started']
    /\ UNCHANGED expires

\* The pipeline, one transaction: INCR key, EXPIRE key window NX.  The expiry
\* is set when the key is made and not moved afterwards.
Incr(r) ==
    /\ counter' = counter + 1
    /\ IF counter = 0
       THEN expires' = now + Window /\ started' = now
       ELSE UNCHANGED <<expires, started>>
    /\ counted' = [counted EXCEPT ![r] = now]
    /\ window' = [window EXCEPT ![r] = started']

\* The except branch: let the request pass, with a full allowance.
FailOpen(r) ==
    /\ allowed' = [allowed EXCEPT ![r] = TRUE]
    /\ remaining' = [remaining EXCEPT ![r] = MaxRequests]
    /\ retryAt' = [retryAt EXCEPT ![r] = now]
    /\ Go(r, "handle")

\* Count with another verdict, for the mutants below.
CountIf(r, verdict) ==
    /\ At(r, "idle")
    /\ Incr(r)
    /\ allowed' = [allowed EXCEPT ![r] = verdict]
    /\ remaining' = [remaining EXCEPT ![r] =
                       IF counter' > MaxRequests THEN 0 ELSE MaxRequests - counter']
    /\ Go(r, "ttl")
    /\ UNCHANGED <<now, retryAt, status, faults>>

\* Mutant: the verdict looks at the count before this request.
CountBefore(r) == CountIf(r, counter <= MaxRequests)

\* Mutant: the last request of the limit is refused.
CountStrict(r) == CountIf(r, counter' < MaxRequests)

\* dispatch counts a request whose path is not excluded.
Count(r) ==
    /\ At(r, "idle")
    /\ Incr(r)
    /\ allowed' = [allowed EXCEPT ![r] = counter' <= MaxRequests]
    /\ remaining' = [remaining EXCEPT ![r] =
                       IF counter' > MaxRequests THEN 0 ELSE MaxRequests - counter']
    /\ Go(r, "ttl")
    /\ UNCHANGED <<now, retryAt, status, faults>>

\* No client, or the pipeline raises, with the transaction done or not.
CountFails(r) ==
    /\ At(r, "idle")
    /\ Fault
    /\ FailOpen(r)
    /\ Incr(r) \/ UNCHANGED <<redis, counted, window>>
    /\ UNCHANGED <<now, status>>

\* Mutant: the time to wait is cut to whole seconds and not rounded.
ReadTtlRounded(r) ==
    /\ At(r, "ttl")
    /\ retryAt' = [retryAt EXCEPT ![r] =
                     IF counter = 0 THEN now ELSE expires - ((expires - now) % Second)]
    /\ Go(r, "handle")
    /\ UNCHANGED <<now, redis, allowed, remaining, counted, window, status, faults>>

\* TTL key: the key may be gone by now (reset_in is 0), or another one, and what it has
\* left is told in whole seconds.
ReadTtl(r) ==
    /\ At(r, "ttl")
    /\ LET left == IF counter = 0 THEN 0 ELSE expires - now
       IN  \E told \in Told(left) : retryAt' = [retryAt EXCEPT ![r] = now + told]
    /\ Go(r, "handle")
    /\ UNCHANGED <<now, redis, allowed, remaining, counted, window, status, faults>>

\* The same except branch: also a request over the limit passes.
TtlFails(r) ==
    /\ At(r, "ttl")
    /\ Fault
    /\ FailOpen(r)
    /\ UNCHANGED <<now, redis, counted, window, status>>

\* response = await call_next(request): the endpoint runs, allowed or not.
Handle(r) ==
    /\ At(r, "handle")
    /\ Go(r, "answer")
    /\ UNCHANGED <<now, redis, check, counted, window, status, faults>>

\* The endpoint raises: its exception goes on, and there is no answer of ours.
HandlerRaises(r) ==
    /\ At(r, "handle")
    /\ Go(r, "done")
    /\ status' = [status EXCEPT ![r] = "500"]
    /\ UNCHANGED <<now, redis, check, counted, window, faults>>

\* The endpoint's response, or a 429 in its place.
Answer(r) ==
    /\ At(r, "answer")
    /\ status' = [status EXCEPT ![r] = IF allowed[r] THEN "ok" ELSE "429"]
    /\ Go(r, "done")
    /\ UNCHANGED <<now, redis, check, counted, window, faults>>

\* Time passes; Redis drops the key when its time has come.
Tick ==
    /\ now < MaxTime
    /\ now' = now + 1
    /\ IF expires = now + 1
       THEN counter' = 0 /\ expires' = Never /\ started' = Never
       ELSE UNCHANGED redis
    /\ UNCHANGED <<pc, check, counted, window, status, faults>>

Next ==
    \/ \E r \in Requests :
          \/ Count(r) \/ CountFails(r) \/ ReadTtl(r) \/ TtlFails(r)
          \/ Handle(r) \/ HandlerRaises(r) \/ Answer(r)
    \/ Tick

Spec == Init /\ [][Next]_vars

-----------------------------------------------------------------------------

\* Requests that Redis admitted, with no failure to thank for it.
Admitted == {r \in Requests : window[r] # Never /\ allowed[r] /\ retryAt[r] # Never}

\* The requests that were counted, by the time they were counted at.
CountedIn(from, to) ==
    {r \in Requests : counted[r] # Never /\ counted[r] \in from..to}

\* As long as Redis answers, no window admits more requests than the limit, and
\* no span of one window's length, wherever it begins, more than twice the
\* limit: the price of counting in fixed windows.
AdmissionIsBounded ==
    faults = 0 =>
        \A t \in 0..MaxTime :
            /\ Cardinality({r \in Admitted : window[r] = t}) <= MaxRequests
            /\ Cardinality({r \in Admitted : counted[r] \in t..(t + Window - 1)})
                 <= 2 * MaxRequests

\* Nobody is locked out: a bucket that counts has an expiry that is at most one
\* window away, however many requests came and whatever call failed.
NoLockout ==
    counter > 0 =>
        /\ expires # Never
        /\ now < expires
        /\ expires <= now + Window
        /\ expires = started + Window

\* A request is turned away only when as many others as the limit allows were
\* counted in its own window.
RefusedOnlyWhenFull ==
    \A r \in Requests :
        status[r] = "429" =>
            Cardinality({q \in Requests \ {r} : window[q] = window[r]}) >= MaxRequests

\* Who waits as long as the 429 says, and half a second more, finds the window it was
\* refused in over, although the time to wait is read after the verdict, when the key
\* may be gone or be that of a later window, and although TTL rounds it.
RetryAfterIsEnough ==
    \A r \in Requests :
        status[r] = "429" => 2 * retryAt[r] + Second > 2 * (window[r] + Window)

-----------------------------------------------------------------------------
(* The inductive invariant of the bucket.                                   *)

\* A key has a value, a start and an expiry, or none of them.
KeyInv ==
    /\ counter = 0 <=> expires = Never
    /\ counter = 0 <=> started = Never
    /\ counter > 0 => /\ started <= now
                      /\ now < expires
                      /\ expires = started + Window

\* The window a request was counted in is the present one, or is over, and was
\* over when the present one began.
WindowInv(r) ==
    /\ pc[r] = "idle" => status[r] = "none" /\ window[r] = Never
    /\ pc[r] # "done" => status[r] = "none"
    /\ pc[r] = "ttl" => window[r] # Never
    /\ window[r] # Never =>
          /\ window[r] <= now
          /\ counter = 0 => now >= window[r] + Window
          /\ counter > 0 => \/ started = window[r]
                            \/ started >= window[r] + Window

\* Who is going to be refused was counted, and waits long enough but for the rounding.
RefusalInv(r) ==
    (pc[r] \in {"handle", "answer"} /\ ~allowed[r]) \/ status[r] = "429" =>
        /\ window[r] # Never
        /\ retryAt[r] # Never
        /\ 2 * retryAt[r] + Second > 2 * (window[r] + Window)

\* A request was counted in its window, and windows do not overlap.
SpanInv ==
    /\ \A r \in Requests :
          window[r] # Never => counted[r] \in window[r]..(window[r] + Window - 1)
    /\ \A q, r \in Requests :
          (window[q] # Never /\ window[r] # Never) =>
              \/ window[q] = window[r]
              \/ window[q] >= window[r] + Window
              \/ window[r] >= window[q] + Window

\* Who was, or is going to be, answered 429.
Refused(r) ==
    (pc[r] \in {"ttl", "handle", "answer"} /\ ~allowed[r]) \/ status[r] = "429"

InWindow(t) == {r \in Requests : window[r] = t}
AllowedIn(t) == {r \in InWindow(t) : allowed[r]}

\* The key counts the requests of its window; whoever is refused was one too many
\* in its own; and while nothing fails, no more are allowed than the limit.
CountInv ==
    /\ \A t \in Times : IsFiniteSet(InWindow(t))
    /\ counter > 0 => Cardinality(InWindow(started)) = counter
    /\ \A r \in Requests :
          Refused(r) => Cardinality(InWindow(window[r])) > MaxRequests
    /\ faults = 0 => \A t \in Times : Cardinality(AllowedIn(t)) <= MaxRequests

BucketInv ==
    /\ TypeOK
    /\ KeyInv
    /\ \A r \in Requests : WindowInv(r) /\ RefusalInv(r)
    /\ SpanInv
    /\ CountInv

=============================================================================
