# Accountia AI: a formal model

TLA+ modules, TLC runs and TLAPS proofs for the accounting service of this
repository. The code is the reference: each definition says what it models, and
`PROJECT.json` maps it to its lines. Paths below are relative to the repository.

## 1. The system

A FastAPI service behind gunicorn, with several worker processes that share
nothing but MongoDB and Redis. MongoDB has one platform database and one database
for each tenant. Redis holds counters, caches and locks, and is optional.

| Component | State it keeps | Operations | What makes it correct |
|---|---|---|---|
| Job lifecycle, `app/routers/accounting.py`, `app/services/accounting_service.py` | task object in the worker, platform document, tenant record | `POST /jobs`, `process_accounting_task`, `GET /jobs`, `GET /jobs/{id}` | one run for a task at a time; stores that do not contradict each other; results that match the status; an outcome for every acknowledged job |
| Engine, `app/services/accounting_engine.py` | fields of the task | fetch, journal (model or rules), tax entries, summary, reports, analysis | balanced entries; figures that agree with each other and with the invoices |
| Tax service, `app/services/tax_service.py` | none | VAT, corporate tax, withholding, due dates | what is listed is what is owed; dates right at the turn of the year |
| Rate limiter, `app/core/rate_limiter.py`, `rate_limit_check` | a Redis counter with an expiry | `dispatch` | never more than the limit in a window; no lockout; an honest Retry-After; fail open; every client of a bucket gets its turn |
| Deduplication, `dedup_check`, `dedup_store_result` | Redis result and lock | check, wait, store | one computation at a time; no vain waiting; a lock that a dead caller does not keep |
| Tax results, `/taxes` endpoints | `tax_results` document | compute and persist, read | an acknowledged result can be read |
| Business lookup, `app/services/business_service.py` | cached database name | lookup, cache | no job writes to a database the business left long ago; no business reported missing without a reason |
| Analyzer, `app/services/tiny_analyzer.py` | cached analysis | analyze, cache | an analysis belongs to the invoices it is shown with |
| Language model, `app/services/llm_service.py` | HTTP client | generate, three attempts | bounded retries |
| Start and health, `app/main.py`, `app/db/mongodb.py`, `app/routers/health.py` | connections of a worker, its model | connect, load, ping | a worker that reports ready can serve; no outage leaves a worker useless for ever |
| Model files, `app/services/tf_analyzer.py`, `app/services/tf_model_scaffold.py` | two files that workers share | load, train, write | who loads a model loads a whole one |
| Process management, `gunicorn.conf.py`, `Dockerfile` | worker processes | kill, replace, probe | a worker that does not start is replaced |
| Metrics, alerts, security helpers, configuration, request models | none | | not modelled |

How they interact: a request goes through the rate limiter, then to a route. `POST
/jobs` looks the business up, reads the tenant record, inserts a platform document,
upserts the tenant record, answers, and the same worker then runs the engine as a
background task. The engine calls the tax service, the language model and the
analyzer. The results go to the tenant record, which is all the read endpoints look at.

What is hard: every `await` is a point where other calls, on the same and on other
workers, go on; two stores are written one after the other, most writes swallow their
exceptions, and some of them are not protected at all; workers are killed by a timeout
or after a number of requests, and their background tasks with them; Redis may fail
between two calls of one check; time to live and waiting time run out independently;
workers that start together write the same files; nothing reconnects a worker that
started without a server.
`PROJECT.json` lists the hazards at their lines with the properties that cover them.

## 2. Modules

| Module | Content |
|---|---|
| `JobContract` | abstract: what the API promises to clients of the jobs |
| `AccountingJobs` | the two coroutines, the two stores, failures and worker deaths |
| `AccountingJobsProofs` | theorems about `AccountingJobs` |
| `TaxService` | the tax calculator as operators |
| `AccountingEngine`, `AccountingEngineProofs` | `process_period`, uses `TaxService`; and its theorems |
| `RedisTime` | what `TTL` of Redis tells of the time a key has left: whole seconds, the nearest ones |
| `RateLimiter`, `RateLimiterProofs` | one bucket of the limiter, and its theorems |
| `JobClients`, `JobClientsProofs` | the limiter and the jobs composed: clients that post, poll and wait out a 429; and its theorems |
| `RequestDedup`, `RequestDedupProofs` | callers that share one request key, and their theorems |
| `TaxResults`, `TaxResultsProofs` | the `/taxes` endpoints for one business and year, and their theorems |
| `RecentName` | abstract: what a lookup promises, whatever it caches |
| `BusinessLookup`, `BusinessLookupProofs` | `get_database_name` for one business, its theorems, the refinement included |
| `ServiceStart`, `ServiceStartProofs` | the life of the workers: start, model files, health, replacement; and its theorems |
| `MC...` | the instances TLC checks |

Definitions whose comment starts with "Mutant:" are not part of any specification. Each
is a plausible bug, put in the place of a definition to see that a property notices it.

### AccountingJobs

`pc[c]` names the `await` call `c` stands at: `check` (lookup and `find_one`), `save`,
`sync`, `respond` in the request; `bgsave`, `bgsync`, `compute`, `finish`, `failsave`,
`failsync` in the background task. `obj[c]` is the `AccountingTask` object, `plat[c]` its
platform document, `tenant[t]` the tenant record of task `t`; a record remembers in `by`
which call wrote it last, which the code does not store and only properties use.

- A write may succeed, or raise before or after it was applied. `SwallowedSync` goes on in
  all three cases, as the `try`/`except` around every tenant upsert does.
- `FailSave`, the `save()` in the except branch, is the unprotected one: it ends the task.
- `ComputeFails` leaves the object with no or with some result fields. In the engine these
  are an exception before, or after, `task.journal_entries` is assigned.
- `PlatformUnique` is a parameter. `Indexed(str, unique=True)` (`app/db/schemas.py:69`) asks
  for a unique index, the list of plain indexes (line 106) names the same field
  without `unique`, and which one is built depends on the library. Both cases are checked.
- Two facts follow from the code and are visible in the model: a finished job stays
  `processing` in the platform database, since `finish` writes only the tenant record, and
  where the index is unique a failed task cannot be created again (`SaveDuplicate`).

### AccountingEngine and TaxService

One action for each `await`, or block that leaves a task field behind it. An invoice is a
record of status, amounts and lines; a product is its cost and the keyword groups its
text hits. The code computes with `Decimal`; the model with integers in thousandths, on
amounts that make every share exact. The language model gives the right journal of what it
was shown, or any journal of a given set, or none (`JournalByRules`). A status is one the code names, or `OTHER` for
any other and for none at all (`accounting_engine.py:344`), of which the rules book nothing. `journal` is one list:
the code extends the very list object from which it then makes the reports. `LedgerInv` says where everything a job
holds came from. `BillsAreSane` is what the engine relies on and does not check: no negative amounts, nobody paid more than
the total, no tax above it. TLC evaluates it for the instance, the theorems below name it where they need it. That it is not checked
is a hazard which no property sees: an overpaid invoice gives a job whose results cannot be served.

### RateLimiter and RequestDedup

Time is a tick counter; Redis drops a key in the tick it expires. `INCR` with `EXPIRE NX`
and `SETEX` with `DEL` are transactions (a pipeline), one step each. `TTL` is a step of its own,
so the key may be gone, or be a new one, by then; and it gives whole seconds (`Told` of `RedisTime`), so that a second has several ticks here. `counted`, `window`, `computed` and `late` are history
variables for the properties. In `RequestDedup`, `Polled` keeps a result from passing
unseen by a waiting caller: it polls ten times a second, and a result lives an hour.
No route calls the two functions, although README.md and DEPLOY.md say they are used;
the caller that computes and then stores is external to the code.

### TaxResults

`pc[c]` names the `await` a `POST /taxes` stands at; a `GET` is one step. What is computed is a function of
the invoices and products read, so a result is that set and that version. An upsert is two steps, as on the
server: it matches a document, or goes on to an insert, which the unique index may refuse. What
follows then is the server's choice: it tries the update again, or raises, and the code swallows that. Time is in
halves of a day, which tells midnight and noon of 31 December apart. The model assumes that invoices are added and
not taken away. `past` is a history variable: what was there when a call came.

### BusinessLookup

`pc[c]` names what lookup `c` waits for: the cache, the read by ObjectId, the read by string, the write of the
cache. `Move` is the platform, which owns the businesses. The store happens at a time of its own, so that a
name may change between its read and its store; `Lag` is the longest time between the two, a
timing assumption the code does not check and the driver's timeouts make small. `NoDatabase` is a call in a worker that went on
without MongoDB. `RecentName` has no cache: it
says an answer is a name the business has or had within `Window` ticks, `missing` if there was none or a read
failed, `error` after a failed read or where there is no database to read. `change` (which change of the business a name came with), `before` and `raced` are
history variables.

### ServiceStart

`proc[w]` is the process of worker `w`: where it is in `lifespan`, and what it has. A step is an `await` or a change of
a file. An attempt to connect, or `init_beanie` in it, fails after any of the times of `AttemptTimes`: at once, at the end of the
driver's 20 seconds, or in between. Then the worker waits 2, 4, 8, 16, 30 seconds, also after the last one, and gunicorn kills a worker that takes more than 120 seconds to start. A request
that is analyzed in a worker without a model loads it again (`Analyze`). Both files can be missing, half written (`torn`)
or whole; a writer that dies leaves its file torn. The Dockerfile copies `app/` and makes an empty
directory for the model, so that every container trains it. When two workers write `weights.h5` at once, the second one
fails on the lock of the file, or does not: the library's version and the file system decide. Making or loading a model may
also fail at any point for another reason (`LoadFails`: the directory, the training, a file that cannot be opened, written or
parsed, `create_and_save_model` that returns `False`); the callers swallow that, and the files stay as they are by then. Redis
failing is a choice of `ConnectRedis`. `clean` are the workers whose last `load_model` ran while no other worker was in it and met no such
failure; `calm` says that from now on nothing fails, and only gunicorn ends workers. Keep-alive of `lifespan` itself,
`close_mongodb` at the end of a worker and requests under way change nothing that another worker sees.

### JobClients

All calls come with one API key ("Only the Accountia API should have this key", `app/core/security.py:22`), so that
all businesses share a bucket. `Bucket` and `LimitFor` are computed from the path, a sequence of its
segments; `GET /jobs/{id}` falls in the bucket of `POST /jobs`. A client posts, polls every `Pause` ticks, and after a 429 waits as
told, a `Pause` at least. What it is told is a rounded `TTL`, so that it may come back before its window ends and is refused in it once
more. `TTL` is read with the verdict; that no time passes between them and the answer is part of the promptness the module states. The counter runs by the time it has left and stops at one more than the limit, which are the only counts the
verdict tells apart; this keeps the model finite with no bound on time. `late` is a history variable, and `Ahead` (how long a
client still waits at most) a measure for the proof. A job is what the contract of `AccountingJobs`
makes of it, without failures of databases.

## 3. Runs

| Run | Question | Instance |
|---|---|---|
| `jobs_unique` | With a unique index, is there one job for a task, and is the contract implemented? | 3 calls, 2 tasks, 2 workers, 2 failures, 1 death |
| `jobs_open` | Without it, what still holds, and does every acknowledged job settle? | 3 calls, 1 task, 1 worker, 1 failure, 1 death, fairness |
| `jobs_orphan` | Does "already in progress" mean that somebody works on it? No. | 2 calls, 1 failure |
| `ledger` | Do the figures agree with each other and with the invoices? | up to 2 invoices, every status class, payment, tax and shape of lines, statuses the code does not name, odd documents, a prompt of 1 invoice in place of 20, a threshold some revenues pass |
| `ledger_double_entry` | Do debits equal credits? No. | as `ledger` |
| `rate_limit` | Are windows, refusals and waiting times right? | 4 requests, limit 1, window of one second, which is 3 ticks, 3 ticks of time, 1 failure |
| `dedup` | One computation at a time, no vain waiting, an end for every waiting caller? | 3 callers, lock 2 ticks, result 4, 5 ticks, 2 failures or deaths, fairness |
| `tax_results` | Is there one result for a year, current and never lost? | 3 calls, 2 readers, 2 invoices, 1 edit, 1 failure |
| `tax_year` | Does a year hold all its invoices? No. | 1 call, 2 invoices of 31 December |
| `lookup` | How old can a database name be, and is a 404 true? | 3 lookups, 2 names, cache 2 ticks, lag 1, 4 ticks, 2 changes, 1 failure |
| `service_start` | Is a ready worker of use, and does every worker become so? | 2 workers, 5 attempts of 0, 10 or 20 s, the real waits and timeout, 1 request for a life, any outages, failures and deaths, fairness |
| `job_clients` | Does everybody learn the outcome of a job, and how late? | 3 clients, limit 2, window of two seconds of 3 ticks, a poll every 2 ticks, unbounded time, fairness |

The runs that answer "No" check what a comment, a message or a document of the repository
says, and give the counterexample:

- `jobs_orphan`: the last write of a run fails, the exception is logged, the record stays
  `processing`; the next call is told the job is in progress, and so is every later one.
- `ledger_double_entry`: `accounting_engine.py:95-103` appends a credit for each tax and no debit.
- `tax_year`: an invoice of noon on 31 December is after the end of its year and before the next one.

Four more disagreements with comments or messages are seen in the passing runs, as the exceptions
their properties have to make:

- The prompt for the language model holds `invoices[:20]` and the answer is taken as the whole journal: a model that
  errs in nothing leaves the others without entries (`BookedUnlessBeyondSample`).
- `call_next` comes before the verdict (`rate_limiter.py:75`): a `POST /jobs` that is answered 429 creates its job. In
  `JobClients` its client asks again and is told of the job, or gets an error while it is pending (`toldError`).
- "Get TTL for accurate reset time" (`redis.py:225`): `TTL` may be half a second short, and is 0 for a
  window that has less than that to run (`RetryAfterIsEnough`).
- The exception of the upsert in `POST /taxes` is swallowed (`accounting.py:521`): the answer is `success: true` and a `GET`
  may find nothing (`PersistFails`). `TaxInv` speaks of the documents there are.

What the passing properties say is in the comment above each. The less obvious ones:

- `PublishedIsFinal` holds even where two runs of a task can overlap: a call that reads
  `completed` stops, and only a call that read something else before can still overwrite it.
- `ResultsMatchStatus` rests on `$set` of the whole object; a `$set` of the non-null fields breaks it.
- `AckedSettles` is conditional on no failure; `jobs_orphan` shows the condition is needed.
- `LiabilityIsBooked` has to allow for a loss: its negative corporate tax lowers
  the total of the breakdown and is neither listed nor booked.
- `RetryAfterIsEnough`: who waits as told finds its window over but for less than half a second that `TTL` may round away. That the time is
  read late does no harm, because a later window ends later; if the key is gone, the answer is 0 and the window is over.
- `RevenueReconciles` counts what the tax service has as revenue and the ledger does not: tax of paid invoices, archived invoices, and those
  whose status is missing or unknown. `BookedUnlessBeyondSample` is about the statuses the engine names; it books no others.
- `LaterCallWins` and `ResultIsCurrent` are as much as holds: of two computations that overlap, the one that
  read first may write last, and `created_at` is that of the last writer.
- Deduplication does not process a request once: a caller that reads no result (`redis.py:135`) and takes the lock
  (line 142) after another one stored and unlocked computes again. `OneAtATimeIfPrompt` is what holds.
- `OneAtATimeIfPrompt` and `LockMirrorsWork` (in `DedupInv`) need every computation to end within the life of its lock; the code checks no such thing.

- `TaxServiceAgrees`: the rate shown is the one charged because `is_sme` is always true: with a company that is not, the rate shown (`tax_service.py:252`)
  and the rate charged (line 167) differ below the threshold. Its mutant is that company.
- `ImplementsRecentName` has the window `Ttl + Lag - 1`: a name read just before the business moved and stored `Lag` ticks later
  lives for a whole `Ttl`. An hour is therefore not quite the bound.
- `NoGoingBack` needs that no change fell between a read and its store; otherwise the later of two stores wins, whichever name it has.
- A 404 for a business has a reason, which may be a failure: a failed read by ObjectId is swallowed and turns into "Business not found".
- `ReadyCanServe` has one exception: `health` pings, which says nothing of Beanie. After an `init_beanie` that raised in all of its
  tries, the worker answers 200 and cannot insert a document. `GaveUpInTime`: five attempts that all time out take 160
  seconds, so that such a worker is killed first; only with failures that come before the driver's timeout (five of 10 seconds take 110)
  does it go on without MongoDB.
- `NotReadyHasAReason` is about the workers in `clean`. A worker without a model has met a failure in `load_model`, or another worker
  that was in it too, or a file left half written. The last is for good: the file exists, so nobody makes it anew, and `health`, which demands
  the model although the analysis has a fallback by rules, answers 503 in every worker for ever. `tf_analyzer.py:52` makes the files "so health
  checks don't fail".
- `Recovers` is about what follows once nothing fails any more (`calm`) and no file is left half written: workers that race for the model,
  requests that load it and recycling go on, and every worker is nevertheless of use again and again. `calm` is no assumption on
  recycling, which is what the property rests on.
- `Recovers` rests on `max_requests`: only the replacement of a worker connects to what it missed at its start.
- `OutcomeInTime` counts from the end of a job, while no more clients have come than the limit. Two windows are not quite enough: a client
  that a rounded `TTL` calls back too early is refused again and asks once more after the window began anew. With more of them, a result that is
  there may be out of reach as long as the jobs of the others run: their polls fill each window. `EveryClientSettles` still holds.

**Bounds.** `MaxFaults`, `MaxCrashes`, `MaxEdits` and `MaxTime` bound failures, deaths, changes of the products and ticks. Three
calls are enough for two that race and one that comes after; two tasks show that they do not
disturb each other. Four requests overfill two windows of limit 1, three ticks hold a
window, its end and the next, and as the ticks of a second they tell a `TTL` that is rounded up from one that is rounded down. Five ticks hold two lives of a lock, one after the other, and the end of a result. Four ticks hold the life of a cached name, its
end and a second fill; two changes move a business and back, or remove it and make it again. In `service_start` no bound is on outages or deaths;
a life of one request (`MaxRequests`) shows a worker before and after it, and two workers any pair of writers and readers of a file.
Attempts of 0, 10 and 20 seconds fail at once, halfway and at the driver's timeout, and five of them with their waits fall on both sides of gunicorn's 120. Three clients against a limit
of two are one too many, and a window of two seconds has room for a `TTL` of 0, 1 and 2 and for two polls before its end. Invoices meet
only in sums, so two of them show each pair of cases. The theorems below do not depend on these bounds.

**Symmetry** is used only in runs without liveness, over model values no definition tells apart.

**Deadlock** is checked in `service_start` and `job_clients`, whose systems never stop. It is off elsewhere:
requests, jobs and the clock are finite there, so every instance stops.

**Fairness.** `FairSpec` of `AccountingJobs` is weak fairness of the steps of each call: the
event loop resumes every ready coroutine and every driver call returns or raises. Nothing is
assumed of clients (`Receive`) or of workers dying (`Crash`). `ComputeOk` and `ComputeFails` are
one choice of one fair step: `process_period` ends, but may always end with an exception. `FairSpec` of
`RequestDedup` adds that the clock goes on; a caller's computation ends, and its process may die instead. `FairSpec` of `ServiceStart`: every step of a worker
ends, gunicorn replaces a worker whose requests are used up, and requests come, as the `HEALTHCHECK` of the Dockerfile sends one every 30
seconds. Nothing is assumed of outages, failures, deaths or analyses, nor that they ever stop (`CalmDown`); `Recovers` names what it needs of them. `FairSpec` of `JobClients`:
requests are served, jobs end, time goes on; no client has to come.

## 4. Proofs

`AccountingJobsProofs` proves, for any sets of calls, tasks and workers and any bounds, from
`SentinelAssumption` and `BoundAssumption` alone:

- `JobsTypeOK`, `JobsInv`: the inductive invariant `JobInv`. The safety properties are not
  inductive: that no record is completed with missing results needs to know which object is written at `finish`. So
  `CallInv` ties the position of a call to its object, reply and platform document, `RecordInv` ties
  a tenant record to the position of the call that wrote it last, and `UniqueInv` says that documents of one task are one
  document. `UniqueInv` is inductive because only `SavePending` and a half-done `SaveFails` create a document.
- `JobsResultsMatchStatus`, `JobsStoresAgree`, `JobsOrphanOnlyAfterFault`, `JobsAtMostOneRun`: consequences of `JobInv`.
- `JobsPublishedIsFinal`: an action property, from `JobInv` and a case for each action.
- `JobsImplementContract`: if `PlatformUnique`, then `Spec` implies `ContractSpec` under the mapping
  of `AccountingJobs!Contract`. `StepRefines` maps every step to `Ask`, `Answer`, `Progress` or a stutter;
  `SyncIsProgress` treats the four tenant upserts, each of which moves the record forward.

`RateLimiterProofs` proves, from `LimitAssumption` and, of `RedisTime`, `SecondAssumption`, the inductive `BucketInv` (`RateInv`) and its
consequences `RateNoLockout`, `RateRetryAfterIsEnough`, `RateRefusedOnlyWhenFull` and `RateAdmissionIsBounded`. `WindowInv` is the first strengthening: the
window a request was counted in is the present one or is over, and was over when the present one began. `CountInv` is the second: the key
holds the cardinality of its window (`IncrInWindow` shows a count adds one request to that set and to no other). `SpanInv` says that windows
do not overlap, so that a span of one window's length meets at most two of them, which is where the factor 2 of `AdmissionIsBounded` comes from.
The set of requests need not be finite.

`RequestDedupProofs` proves, from `DedupAssumption`, the inductive `DedupInv` (`DedupInvariant`), from it `DedupOneAtATime` and `DedupDuplicate`.
`OneAtATimeIfPrompt` is not inductive: that the waiting of a caller never ends before a computation does, unless that one is late, needs
`WaitersHaveAReason`, that somebody began to compute before the wait did; and that a lock never stands without its computation is `HolderWorks`.

`TaxResultsProofs` proves, from `YearAssumption`, the inductive `TaxInv` (`TaxesInv`), and from it `TaxesResultIsCurrent` and
`TaxesLaterCallWins`. `PersistSteps` shows first that every step of the upsert, its exceptions included, stores the call's own
result, keeps what there is, or goes on to an insert; this needs `DocsInv`, that the index exists and the year has at
most one document. The last conjunct of `DocsInv` is the strengthening for `LaterCallWins`: a call that comes after an
acknowledged one never stands before an insert, so its result is never the one that a duplicate key drops.
`TaxesFoundStaysFound` is about steps: `DocsStay` says that none, failing ones included, takes the year's document away, and `FoundIsThere`
that whoever was shown a result was shown one of a document that is still there.

`BusinessLookupProofs` proves, from `LookupAssumption`, the inductive `LookupInv`, its consequences `LookupNotFound` and
`LookupNoGoingBack`, and that `Spec` implements `RecentName` (`LookupImplementsRecentName`). `CacheInv` is why the refinement holds: a cached name was right at
most `Lag` before it got there, and expires `Ttl` after. `FillInv` says the same of a name on its way. `OrderInv` strengthens
`NoGoingBack`: no call was given a later name than the cache has. The refinement maps `Hit` and `Store` to `Reply`,
failing reads to `ReadFails` or `Reply`, and reads that go on to a stutter.

`ServiceStartProofs` proves, from `StartAssumption` and for any set of workers, any times and attempts of any length, the inductive `StartInv`
and its consequences `StartReadyCanServe` and `StartNotReady`. `Connected` ties `_platform_db` to Beanie; `FilesFit` says what the files
are for a worker in `clean`, which is alone in `load_model`; and `JsonFirst` that weights never come before `model.json`, which a worker that
died or failed between the two would otherwise contradict. `TornForGood` is what the exception of `NotReadyHasAReason` has to be to stay: a torn
file alone could still be written anew, one that stands next to the other with nobody making a model is there for good.
`StartGaveUpInTime` holds for all waits and timeouts for which
attempts that all run into the driver's timeout outlast gunicorn's: `SlowTriesOutlast(spent)` is that hypothesis, for a table `spent` of the time that
so many attempts take, and `MCServiceStart` has TLC evaluate it for the code's numbers (22, 46, 74, 110, 160 seconds, of 120). It is not
true of all numbers, so that it is a hypothesis and no assumption. `NoTimeLost` is the strengthening: an attempt that comes after slow ones has their time on its clock.

`AccountingEngineProofs` proves, from `EngineAssumption` (the types of what is read) and for any documents, catalogues, prompt sizes and
journals of a model, the inductive `LedgerInv` (`LedgerInvariant`), and from it `LedgerBookedUnlessBeyondSample` and `LedgerTaxServiceAgrees`;
and, where also `BillsAreSane`, `LedgerEveryInvoiceBalances`, `LedgerLiabilityIsBooked`, `LedgerReportsAgree`, `LedgerResultsAreServable` and
`LedgerRevenueReconciles`. The properties speak of a journal after several stages; what makes them provable is that `JournalIsAccounted` and
`ResultsAreCurrent` give journal, taxes and reports as functions of the invoices, which later stages do not change. What is left are sums over sequences, by
induction on their length: the library's induction theorems take an operator and cannot be instantiated, so `SeqInduction` states it
for a set that holds the empty sequence and is closed under `Append` (`NatByCases`, from the well-foundedness of the naturals, and
`SubsetInduction` do the same for numbers and finite sets), and the lemmas about sums quantify over all functions of a set.
From it come the sum of a concatenation, of a flattened sequence, and that sums keep order and equality; with these, what the journal holds on an
account is a sum over invoices of what the rules write for one of them.

`JobClientsProofs` proves, from `ClientAssumption` and `SecondAssumption`, that is for any finite number of clients, any limits, any window and
a pause between polls of more than half a second and less than a window, the inductive `ClientsInv`
(`ClientsInvariant`) and `OutcomeInTime` (`ClientsOutcomeInTime`). `BeginInv` is why a request that is repeated when its window is over passes: before
anybody can have asked twice in a window (`Age < Pause`) everybody has asked once at most, so that its count is no more than the clients who have, and
these no more than the limit. `RestInv` says that who was refused comes back near the end of the window, at the latest a poll after it, and
`Until` how long it may still be refused: to its next request if a new window will then have just begun, or to the first poll after the present
one. `LateInv` bounds the lateness of a client together with what is still ahead of it, which each tick makes less.

**Only model-checked.** `AckedSettles`, `NobodyWaitsForever`, `Recovers` and `EveryClientSettles`, which are liveness and out of the prover's
reach. That `InProgressMeansRunning`, `DoubleEntry` and `YearIsWhole` fail, which is a
matter of one counterexample each.

**Not modelled, and why.** Contents of messages and logs; the text of the analysis; the general
ledger report, which only regroups the journal; the cache of the analyzer, whose key is `hash(str(summary))`, which
differs from worker to worker and of which no document says what it may be shared by; the retries of the language model, which
change no state; the training of the model, which is numeric; task ids, which identify periods by their days; sanitizing of
database types; `RateLimitByAPIKey`, `rate_limit_reset`, `get_business_info` and `list_businesses`, which nothing calls; pure input
and output (metrics, alerts); configuration.

## 5. Plan

Order of what is left, the most important first.

1. An abstract specification of `JobClients`, what a client is told whatever the limiter counts, that the detailed one refines.
2. `TaxService` for the endpoints: invoices that are not normalized, as `/taxes` reads them, against those of the engine.
3. Task ids and validation: periods that map to one id, 365 days and hours, as operators checked over bounded inputs.
4. `LlmCalls`: three attempts inside a job, with the client's timeout, as part of the time a job takes.
