------------------------------ MODULE JobClients ------------------------------
(***************************************************************************)
(* The rate limiter and the jobs together, as the clients of one API key    *)
(* see them: each posts a job of its own and then polls for its outcome,    *)
(* and waits when it is answered 429.  By its path a poll falls in the same *)
(* bucket as POST /jobs, and a POST runs before its verdict is looked at,   *)
(* so that a refused client has a job that it does not know of.             *)
(*                                                                         *)
(* A job is here what AccountingJobs makes of it with a unique task_id and  *)
(* no failure of a database or a worker.  Clients and server are prompt: no *)
(* time passes while a request is under way or due.  The counters of        *)
(* RateLimiter run by the time they have left, so that time has no bound.   *)
(* A second has several ticks: TTL tells whole seconds only, and a client   *)
(* that waits as told may come back before the end of its window.           *)
(***************************************************************************)
EXTENDS RedisTime, SequencesExt

CONSTANTS Clients,      \* those who use one API key, each for a period of its own
          JobsLimit,    \* max_requests of /api/accounting/jobs
          DefaultLimit, \* default_max_requests
          Window,       \* window_seconds, in ticks
          Pause         \* the ticks from one poll to the next: over half a second

ASSUME ClientAssumption ==
    /\ IsFiniteSet(Clients)
    /\ {JobsLimit, DefaultLimit, Window} \subseteq Nat \ {0}
    /\ Pause \in 1..(Window - 1) /\ Second < 2 * Pause

VARIABLES counter, ttl, \* the bucket: its requests, and the time until it is dropped
          record,  \* record[c]: the status that the tenant database shows of c's job
          phase,   \* phase[c]: what client c wants next, or was told in the end
          rest,    \* rest[c]: the time until its next request
          verdict, \* verdict[c]: is_allowed of its request that is under way
          late     \* late[c]: for how long its job has been over, with few clients about

redis == <<counter, ttl>>
vars == <<redis, record, phase, rest, verdict, late>>

-----------------------------------------------------------------------------
(* Paths, split at their slashes.                                           *)

PostPath == <<"api", "accounting", "jobs">>
PollPath == <<"api", "accounting", "jobs", "task_id">>

\* The paths of the routers.
Routes == {<<>>, PostPath, PollPath, <<"api", "accounting", "taxes", "business_id", "year">>,
           <<"api", "metrics">>, <<"api", "alerts">>, <<"api", "health">>}

\* exclude_paths; the others are those of the documentation.
Excluded(path) ==
    \E exclude \in {<<"api", "health">>, <<"api", "alerts">>} : IsPrefix(exclude, path)

\* The bucket of an API key that a path falls in.
Bucket(path) == IF Len(path) > 2 THEN path[3] ELSE "default"

\* _get_limit_for_path; the other patterns are of no route, or of excluded ones.
LimitFor(path) == IF IsPrefix(PostPath, path) THEN JobsLimit ELSE DefaultLimit

PathOf(c) == IF phase[c] = "job" THEN PostPath ELSE PollPath

-----------------------------------------------------------------------------

Asking == {"job", "result"}
Phases == Asking \cup {"idle", "toldResult", "toldFailure", "toldError"}
Over == {"completed", "failed"}

TypeOK ==
    /\ counter \in 0..(JobsLimit + 1)
    /\ ttl \in 0..Window
    /\ counter = 0 <=> ttl = 0
    /\ record \in [Clients -> {"none", "pending", "processing"} \cup Over]
    /\ phase \in [Clients -> Phases]
    /\ rest \in [Clients -> 0..(Window + Pause)]
    /\ verdict \in [Clients -> {"none", "pass", "refuse"}]
    /\ late \in [Clients -> 0..(2 * Window + Pause)]

Init ==
    /\ counter = 0 /\ ttl = 0
    /\ record = [c \in Clients |-> "none"]
    /\ phase = [c \in Clients |-> "idle"]
    /\ rest = [c \in Clients |-> 0]
    /\ verdict = [c \in Clients |-> "none"]
    /\ late = [c \in Clients |-> 0]

Least(a, b) == IF a < b THEN a ELSE b
Most(a, b) == IF a < b THEN b ELSE a

\* Mutant: every request moves the expiry.
IncrExtends(limit) ==
    /\ counter' = Least(counter, limit) + 1
    /\ ttl' = Window

\* Mutant: the expiry is set when the limit is passed, and not with the key.
IncrLate(limit) ==
    /\ counter' = Least(counter, limit) + 1
    /\ ttl' = IF counter = limit THEN Window ELSE ttl

\* Mutant: the expiry gets lost.
IncrForever(limit) ==
    /\ counter' = Least(counter, limit) + 1
    /\ UNCHANGED ttl

\* INCR and EXPIRE NX; more than the limit is not told from one more.
Incr(limit) ==
    /\ counter' = Least(counter, limit) + 1
    /\ ttl' = IF counter = 0 THEN Window ELSE ttl

Due(c) == phase[c] \in Asking /\ rest[c] = 0

Came == {c \in Clients : phase[c] # "idle"}

\* No more clients have come than the limit admits in one window.
Few == Cardinality(Came) <= JobsLimit

\* Client c begins.
Ask(c) ==
    /\ phase[c] = "idle"
    /\ phase' = [phase EXCEPT ![c] = "job"]
    /\ late' = [d \in Clients |-> IF Few' THEN late[d] ELSE 0]
    /\ UNCHANGED <<redis, record, rest, verdict>>

\* rate_limit_check before its request, which passes where Redis fails.
Check(c) ==
    /\ Due(c) /\ verdict[c] = "none"
    /\ LET limit == LimitFor(PathOf(c))
       IN  \/ /\ Incr(limit)
              /\ verdict' = [verdict EXCEPT ![c] =
                    IF counter' > limit THEN "refuse" ELSE "pass"]
           \/ /\ Incr(limit) \/ UNCHANGED redis
              /\ verdict' = [verdict EXCEPT ![c] = "pass"]
    /\ UNCHANGED <<record, phase, rest, late>>

\* The answer to c, or a 429 in its place; c waits as TTL told, and for its next poll
\* at least.  TTL is read with the verdict, and no time has passed since then.
Answer(c, next) ==
    /\ verdict' = [verdict EXCEPT ![c] = "none"]
    /\ \/ /\ verdict[c] = "pass"
          /\ phase' = [phase EXCEPT ![c] = next]
          /\ rest' = [rest EXCEPT ![c] = IF next \in Asking THEN Pause ELSE 0]
       \/ /\ verdict[c] = "refuse"
          /\ \E told \in Told(ttl) : rest' = [rest EXCEPT ![c] = Most(told, Pause)]
          /\ UNCHANGED phase
    /\ UNCHANGED <<redis, late>>

\* create_accounting_job: a job that is done or under way is told of, a new one
\* is made, and a second document for the task is refused.
Post(c) ==
    /\ phase[c] = "job" /\ verdict[c] # "none"
    /\ \/ record[c] \in {"processing", "completed"} /\ Answer(c, "result") /\ UNCHANGED record
       \/ record[c] \in {"pending", "failed"} /\ Answer(c, "toldError") /\ UNCHANGED record
       \/ /\ record[c] = "none" /\ Answer(c, "result")
          /\ record' = [record EXCEPT ![c] = "pending"]

\* get_job_results: the results of a completed job, and otherwise its status.
Poll(c) ==
    /\ phase[c] = "result" /\ verdict[c] # "none"
    /\ Answer(c, CASE record[c] = "completed" -> "toldResult"
                   [] record[c] = "failed" -> "toldFailure"
                   [] OTHER -> "result")
    /\ UNCHANGED record

\* The background task goes on, as slowly as it likes.
Run(c) ==
    /\ \/ /\ record[c] = "pending"
          /\ record' = [record EXCEPT ![c] = "processing"]
       \/ /\ record[c] = "processing"
          /\ \E outcome \in Over : record' = [record EXCEPT ![c] = outcome]
    /\ UNCHANGED <<redis, phase, rest, verdict, late>>

\* Time passes; what expires is gone.
Tick ==
    /\ \A c \in Clients : ~Due(c)
    /\ ttl' = Most(ttl - 1, 0)
    /\ counter' = IF ttl = 1 THEN 0 ELSE counter
    /\ rest' = [c \in Clients |-> Most(rest[c] - 1, 0)]
    /\ late' = [c \in Clients |->
                  IF record[c] \in Over /\ phase[c] \in Asking /\ Few
                  THEN Least(late[c] + 1, 2 * Window + Pause) ELSE 0]
    /\ UNCHANGED <<record, phase, verdict>>

Serve(c) == Check(c) \/ Post(c) \/ Poll(c)

Next ==
    \/ \E c \in Clients : Ask(c) \/ Serve(c) \/ Run(c)
    \/ Tick

Spec == Init /\ [][Next]_vars

\* Requests are served, jobs come to an end, and time goes on.
FairSpec == Spec /\ WF_vars(Tick) /\ \A c \in Clients : WF_vars(Serve(c)) /\ WF_vars(Run(c))

-----------------------------------------------------------------------------

\* The bucket is chosen by one line and the limit by another: routes that share a
\* bucket share its limit, so that no request is refused for requests that a higher
\* limit admitted to the same bucket.
OneLimitPerBucket ==
    \A c \in Clients, path \in Routes :
        ~Excluded(path) /\ Bucket(path) = Bucket(PathOf(c)) =>
            LimitFor(path) = LimitFor(PathOf(c))

\* The time until the present window ends, or one that begins now.
Left == IF ttl = 0 THEN Window ELSE ttl

\* How long a window has run, in which the key was made.
Age == Window - ttl

\* Who came and has asked in this window, or could not have before now.
Counted ==
    {c \in Came :
        phase[c] \in Asking /\ verdict[c] = "none" => rest[c] + Age >= Pause}

\* Before anyone can ask twice each client has asked once at most.
BeginInv == counter > 0 /\ Age < Pause => counter <= Cardinality(Counted)

\* How long c may still be refused: until its next request if a new window will then
\* have begun, not long ago, and else until the first poll after the present window:
\* who comes back before its end is refused in it again.
Until(c) == IF rest[c] + Window - Left < Pause THEN rest[c] ELSE Left + Pause - 1

\* A request is refused only later in a window; its client comes back near the end
\* of the window, and a POST that is made again finds a new one.
RestInv(c) ==
    /\ phase[c] = "idle" => rest[c] = 0 /\ record[c] = "none"
    /\ verdict[c] # "none" => Due(c)
    /\ verdict[c] = "refuse" => ttl \in 1..(Window - Pause)
    /\ phase[c] \in Asking => rest[c] <= (IF ttl = 0 THEN Pause ELSE ttl + Pause - 1)
    /\ phase[c] = "job" /\ record[c] # "none" => Until(c) < Window

\* How long c still waits at most.
Ahead(c) ==
    CASE phase[c] = "result" -> Until(c)
      [] phase[c] = "job" -> Until(c) + Window + Pause - 1
      [] OTHER -> 0

\* Only who waits for a job that is over is late, and with what is still ahead of
\* it not for two windows and a poll.
LateInv(c) ==
    /\ record[c] \notin Over => late[c] = 0
    /\ record[c] \in Over => late[c] + Ahead(c) < 2 * Window + Pause

\* The types, limits that fit their buckets, and how long clients wait while they
\* are few.
ClientsInv ==
    /\ TypeOK
    /\ OneLimitPerBucket
    /\ Few => BeginInv /\ \A c \in Clients : RestInv(c) /\ LateInv(c)
    /\ ~Few => \A c \in Clients : late[c] = 0

\* In the end no client is left asking: each is told how its job ended, or an error when
\* its first POST was refused and it asks again.  Although refused requests count, and
\* although there are more clients than the limit, as with the jobs the crowd in the
\* bucket ends.
EveryClientSettles == <>[](\A c \in Clients : phase[c] \notin Asking)

\* As long as no more clients have come than the limit of the bucket, none of them
\* waits two windows and a poll for the outcome of a job that is over: it waits for the
\* end of the one it was refused in and, if that was its POST, of the next, which polls
\* may fill before it polls itself; the poll more is for TTL, which may tell it to come
\* back before that end.
OutcomeInTime == \A c \in Clients : late[c] < 2 * Window + Pause
=============================================================================
