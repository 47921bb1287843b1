--------------------------- MODULE AccountingJobs ---------------------------
(***************************************************************************)
(* The life of an accounting job: POST /jobs (create_accounting_job), the   *)
(* background task it starts (process_accounting_task) and the status that  *)
(* GET /jobs and GET /jobs/{task_id} read, in app/routers/accounting.py and *)
(* app/services/accounting_service.py.                                      *)
(*                                                                         *)
(* Every `await` of the two coroutines ends a step, so calls on the same    *)
(* and on different gunicorn workers interleave there.  Two stores keep the *)
(* job: the platform database, with one document for each AccountingTask    *)
(* object that was saved, and the tenant database, with one document for    *)
(* each task_id, which every run of that task overwrites ($set + upsert).   *)
(*                                                                         *)
(* A database operation may raise; the write it carried may or may not have *)
(* been applied (the acknowledgement was lost).  A worker may die (a        *)
(* timeout, max_requests or a deployment): its coroutines end where they    *)
(* were and nothing restarts them.                                         *)
(***************************************************************************)
EXTENDS Naturals

CONSTANTS Calls,            \* POST /jobs requests
          Tasks,            \* task ids (business, first day, last day)
          Workers,          \* gunicorn worker processes
          NoTask, NoWorker, NoCall,
          PlatformUnique,   \* is task_id unique in the platform collection?
          MaxFaults,        \* bound: database operations that raise
          MaxCrashes        \* bound: worker deaths

ASSUME SentinelAssumption ==
    /\ NoTask \notin Tasks
    /\ NoWorker \notin Workers
    /\ NoCall \notin Calls

ASSUME BoundAssumption ==
    /\ PlatformUnique \in BOOLEAN
    /\ MaxFaults \in Nat
    /\ MaxCrashes \in Nat

VARIABLES pc,        \* pc[c]: the await that call c stands at
          task,      \* task[c]: the task_id of call c
          worker,    \* worker[c]: the process that serves call c
          obj,       \* obj[c]: the AccountingTask object of call c
          reply,     \* reply[c]: the `status` of the response, or how it failed
          plat,      \* plat[c]: status of the platform document of obj[c]
          tenant,    \* tenant[t]: the tenant document of task t
          faults,    \* database operations that raised so far
          crashes    \* workers that died so far

vars == <<pc, task, worker, obj, reply, plat, tenant, faults, crashes>>

-----------------------------------------------------------------------------

Statuses == {"pending", "processing", "completed", "failed"}

Replies == {"none", "rejected", "error", "pending", "processing", "completed"}

\* "partial": process_period raised after it had set some of the result fields.
Results == {"none", "partial", "full"}

TaskObjects == [status : Statuses, results : Results]

TenantDocs == [status : Statuses \cup {"none"}, results : Results,
               by : Calls \cup {NoCall}]

NewTask == [status |-> "pending", results |-> "none"]

\* No document: find_one returns None.
NoDoc == [status |-> "none", results |-> "none", by |-> NoCall]

RequestSteps == {"check", "save", "sync", "respond"}
BackgroundSteps == {"bgsave", "bgsync", "compute", "finish", "failsave", "failsync"}
Running == RequestSteps \cup BackgroundSteps

TypeOK ==
    /\ pc \in [Calls -> Running \cup {"idle", "done", "dead"}]
    /\ task \in [Calls -> Tasks \cup {NoTask}]
    /\ worker \in [Calls -> Workers \cup {NoWorker}]
    /\ obj \in [Calls -> TaskObjects]
    /\ reply \in [Calls -> Replies]
    /\ plat \in [Calls -> Statuses \cup {"none"}]
    /\ tenant \in [Tasks -> TenantDocs]
    /\ faults \in 0..MaxFaults
    /\ crashes \in 0..MaxCrashes

Init ==
    /\ pc = [c \in Calls |-> "idle"]
    /\ task = [c \in Calls |-> NoTask]
    /\ worker = [c \in Calls |-> NoWorker]
    /\ obj = [c \in Calls |-> NewTask]
    /\ reply = [c \in Calls |-> "none"]
    /\ plat = [c \in Calls |-> "none"]
    /\ tenant = [t \in Tasks |-> NoDoc]
    /\ faults = 0
    /\ crashes = 0

-----------------------------------------------------------------------------
(* Steps shared by the two coroutines.                                      *)

At(c, here) == pc[c] = here

Go(c, next) == pc' = [pc EXCEPT ![c] = next]

\* The request coroutine ends with response r.
End(c, r) ==
    /\ Go(c, "done")
    /\ reply' = [reply EXCEPT ![c] = r]

\* A database operation raises.
Fault ==
    /\ faults < MaxFaults
    /\ faults' = faults + 1

\* Mutant: a $set without the fields that are null.
TenantWriteNonNull(c, o) ==
    tenant' = [tenant EXCEPT ![task[c]] =
                 [status |-> o.status,
                  results |-> IF o.results = "none" THEN @.results ELSE o.results,
                  by |-> c]]

\* update_one({"task_id": ...}, {"$set": <the whole object>}, upsert=True).
TenantWrite(c, o) ==
    tenant' = [tenant EXCEPT ![task[c]] =
                 [status |-> o.status, results |-> o.results, by |-> c]]

\* task.save(): the object's own document, by its _id, upserted.
PlatWrite(c, o) == plat' = [plat EXCEPT ![c] = o.status]

\* Mutant: a partial index that covers the documents of waiting jobs only.
DuplicateIfPending(c) ==
    /\ PlatformUnique
    /\ \E d \in Calls \ {c} : task[d] = task[c] /\ plat[d] = "pending"

\* Mutant: a partial index without failed documents, so that a job can be retried.
DuplicateUnlessFailed(c) ==
    /\ PlatformUnique
    /\ \E d \in Calls \ {c} : task[d] = task[c] /\ plat[d] \notin {"none", "failed"}

\* A new document whose task_id another document has.
Duplicate(c) ==
    /\ PlatformUnique
    /\ \E d \in Calls \ {c} : task[d] = task[c] /\ plat[d] # "none"

\* The sync of obj[c] to the tenant database inside a try whose except only
\* logs: the coroutine goes on whether or not the write was applied.
SwallowedSync(c, next) ==
    /\ Go(c, next)
    /\ \/ TenantWrite(c, obj[c]) /\ UNCHANGED faults
       \/ TenantWrite(c, obj[c]) /\ Fault
       \/ Fault /\ UNCHANGED tenant
    /\ UNCHANGED <<task, worker, obj, reply, plat, crashes>>

-----------------------------------------------------------------------------
(* create_accounting_job                                                    *)

\* A worker accepts the request.
Receive(c, t, w) ==
    /\ At(c, "idle")
    /\ task' = [task EXCEPT ![c] = t]
    /\ worker' = [worker EXCEPT ![c] = w]
    /\ Go(c, "check")
    /\ UNCHANGED <<obj, reply, plat, tenant, faults, crashes>>

\* The period is longer than 365 days or negative (400), or the business has
\* no database (404).
Reject(c) ==
    /\ At(c, "check")
    /\ End(c, "rejected")
    /\ UNCHANGED <<task, worker, obj, plat, tenant, faults, crashes>>

\* Mutant: a completed job is created anew, like a failed one.
CheckExistingInProgress(c) ==
    /\ At(c, "check")
    /\ LET found == tenant[task[c]].status
       IN  \/ found = "processing" /\ End(c, found) /\ UNCHANGED obj
           \/ /\ found # "processing"
              /\ obj' = [obj EXCEPT ![c] = NewTask]
              /\ Go(c, "save")
              /\ UNCHANGED reply
    /\ UNCHANGED <<task, worker, plat, tenant, faults, crashes>>

\* find_one in the tenant database: the job is done, or under way, or a new
\* AccountingTask is built (also when the last run failed or never started).
CheckExisting(c) ==
    /\ At(c, "check")
    /\ LET found == tenant[task[c]].status
       IN  \/ /\ found \in {"completed", "processing"}
              /\ End(c, found)
              /\ UNCHANGED obj
           \/ /\ found \notin {"completed", "processing"}
              /\ obj' = [obj EXCEPT ![c] = NewTask]
              /\ Go(c, "save")
              /\ UNCHANGED reply
    /\ UNCHANGED <<task, worker, plat, tenant, faults, crashes>>

\* The business lookup or find_one raises: an unhandled 500.
CheckFails(c) ==
    /\ At(c, "check")
    /\ Fault
    /\ End(c, "error")
    /\ UNCHANGED <<task, worker, obj, plat, tenant, crashes>>

\* await task.save() inserts the platform document.
SavePending(c) ==
    /\ At(c, "save")
    /\ ~Duplicate(c)
    /\ PlatWrite(c, obj[c])
    /\ Go(c, "sync")
    /\ UNCHANGED <<task, worker, obj, reply, tenant, faults, crashes>>

\* Mutant: a refused insert is taken for a job that is there, and goes on.
SaveDuplicateGoesOn(c) ==
    /\ At(c, "save")
    /\ Duplicate(c)
    /\ Go(c, "sync")
    /\ UNCHANGED <<task, worker, obj, reply, plat, tenant, faults, crashes>>

\* The insert violates the unique index: 500, and the job is not started.
SaveDuplicate(c) ==
    /\ At(c, "save")
    /\ Duplicate(c)
    /\ End(c, "error")
    /\ UNCHANGED <<task, worker, obj, plat, tenant, faults, crashes>>

\* Mutant: the failed insert is logged and the job started all the same.
SaveFailsSwallowed(c) ==
    /\ At(c, "save")
    /\ Fault
    /\ Go(c, "sync")
    /\ UNCHANGED plat \/ (~Duplicate(c) /\ PlatWrite(c, obj[c]))
    /\ UNCHANGED <<task, worker, obj, reply, tenant, crashes>>

\* The insert raises for another reason: 500, applied or not.
SaveFails(c) ==
    /\ At(c, "save")
    /\ Fault
    /\ End(c, "error")
    /\ \/ UNCHANGED plat
       \/ ~Duplicate(c) /\ PlatWrite(c, obj[c])
    /\ UNCHANGED <<task, worker, obj, tenant, crashes>>

\* The copy in the tenant database.
SyncPending(c) == At(c, "sync") /\ SwallowedSync(c, "respond")

\* The response leaves, and the worker goes on with the background task, in
\* which the object is PROCESSING from the first line on.
Respond(c) ==
    /\ At(c, "respond")
    /\ Go(c, "bgsave")
    /\ reply' = [reply EXCEPT ![c] = "pending"]
    /\ obj' = [obj EXCEPT ![c].status = "processing"]
    /\ UNCHANGED <<task, worker, plat, tenant, faults, crashes>>

-----------------------------------------------------------------------------
(* process_accounting_task                                                  *)

\* The except branch: the object is FAILED and keeps the results it has.
ToFailed(c, results) ==
    /\ obj' = [obj EXCEPT ![c] = [status |-> "failed", results |-> results]]
    /\ Go(c, "failsave")

\* await task.save() with status PROCESSING.
BgSave(c) ==
    /\ At(c, "bgsave")
    /\ \/ /\ PlatWrite(c, obj[c])
          /\ Go(c, "bgsync")
          /\ UNCHANGED <<obj, faults>>
       \/ /\ Fault
          /\ ToFailed(c, obj[c].results)
          /\ PlatWrite(c, obj[c]) \/ UNCHANGED plat
    /\ UNCHANGED <<task, worker, reply, tenant, crashes>>

\* PROCESSING becomes visible to the tenant's readers.
BgSync(c) == At(c, "bgsync") /\ SwallowedSync(c, "compute")

\* engine.process_period returns the same object, completed.
ComputeOk(c) ==
    /\ At(c, "compute")
    /\ obj' = [obj EXCEPT ![c] = [status |-> "completed", results |-> "full"]]
    /\ Go(c, "finish")
    /\ UNCHANGED <<task, worker, reply, plat, tenant, faults, crashes>>

\* Mutant: the except clause does not catch what process_period raises.
ComputeFailsUncaught(c) ==
    /\ At(c, "compute")
    /\ Go(c, "done")
    /\ UNCHANGED <<task, worker, obj, reply, plat, tenant, faults, crashes>>

\* engine.process_period raises (a malformed invoice, a failed read), before
\* or after it has set the first result fields of the object.
ComputeFails(c) ==
    /\ At(c, "compute")
    /\ \E r \in {"none", "partial"} : ToFailed(c, r)
    /\ UNCHANGED <<task, worker, reply, plat, tenant, faults, crashes>>

\* The results go to the tenant database only; the platform document stays
\* as BgSave left it.
Finish(c) == At(c, "finish") /\ SwallowedSync(c, "done")

\* Mutant: the except branch saves the object and forgets the tenant's copy.
FailSaveOnly(c) ==
    /\ At(c, "failsave")
    /\ Go(c, "done")
    /\ \/ PlatWrite(c, obj[c]) /\ UNCHANGED faults
       \/ Fault /\ (PlatWrite(c, obj[c]) \/ UNCHANGED plat)
    /\ UNCHANGED <<task, worker, obj, reply, tenant, crashes>>

\* await task.save() in the except branch, which nothing protects: if it
\* raises, the coroutine ends and the tenant document is not updated.
FailSave(c) ==
    /\ At(c, "failsave")
    /\ \/ /\ PlatWrite(c, obj[c])
          /\ Go(c, "failsync")
          /\ UNCHANGED faults
       \/ /\ Fault
          /\ Go(c, "done")
          /\ PlatWrite(c, obj[c]) \/ UNCHANGED plat
    /\ UNCHANGED <<task, worker, obj, reply, tenant, crashes>>

\* FAILED becomes visible to the tenant's readers.
FailSync(c) == At(c, "failsync") /\ SwallowedSync(c, "done")

-----------------------------------------------------------------------------

\* Worker w dies; its request and background coroutines are lost.
Crash(w) ==
    /\ crashes < MaxCrashes
    /\ \E c \in Calls : worker[c] = w /\ pc[c] \in Running
    /\ pc' = [c \in Calls |-> IF worker[c] = w /\ pc[c] \in Running
                              THEN "dead" ELSE pc[c]]
    /\ crashes' = crashes + 1
    /\ UNCHANGED <<task, worker, obj, reply, plat, tenant, faults>>

\* A step of the server on behalf of call c.
Step(c) ==
    \/ Reject(c) \/ CheckExisting(c) \/ CheckFails(c)
    \/ SavePending(c) \/ SaveDuplicate(c) \/ SaveFails(c)
    \/ SyncPending(c) \/ Respond(c)
    \/ BgSave(c) \/ BgSync(c)
    \/ ComputeOk(c) \/ ComputeFails(c)
    \/ Finish(c) \/ FailSave(c) \/ FailSync(c)

Next ==
    \/ \E c \in Calls, t \in Tasks, w \in Workers : Receive(c, t, w)
    \/ \E c \in Calls : Step(c)
    \/ \E w \in Workers : Crash(w)

Spec == Init /\ [][Next]_vars

\* The event loop of a live worker resumes every coroutine, and every await
\* returns or raises.  Nothing obliges a client to call or a worker to die.
FairSpec == Spec /\ \A c \in Calls : WF_vars(Step(c))

-----------------------------------------------------------------------------
(* Properties for every way the two databases and the workers can fail.     *)

\* The record that GET /jobs reads shows results exactly when it is completed:
\* a rerun, which rewrites the record from "pending" on, never leaves the
\* results of an earlier run under a status of its own (the $set of the whole
\* object), and a failed run shows at most partial results.
ResultsMatchStatus ==
    \A t \in Tasks :
        /\ tenant[t].status = "completed" <=> tenant[t].results = "full"
        /\ tenant[t].results = "partial" => tenant[t].status = "failed"

\* The two stores do not contradict each other: a tenant record was written
\* for its own task by a call that was not refused and whose job is in the
\* platform database, and no job is failed there and completed here.
StoresAgree ==
    \A t \in Tasks : tenant[t].status # "none" =>
        LET c == tenant[t].by
        IN  /\ c \in Calls
            /\ task[c] = t
            /\ plat[c] # "none"
            /\ reply[c] \in {"none", "pending"}
            /\ plat[c] = "failed" => tenant[t].status # "completed"

\* The only way a record is left in "processing", where it blocks every later
\* POST for the period, is a worker that died or a database operation that
\* raised: the program itself always carries its runs to an end.
OrphanOnlyAfterFault ==
    \A t \in Tasks :
        (tenant[t].status = "processing" /\ faults = 0 /\ crashes = 0) =>
            \E c \in Calls : task[c] = t /\ pc[c] \in BackgroundSteps

\* A client that was told "pending" and polls sees an outcome, unless a
\* database operation raised or a worker died; this with any number of runs
\* of the same task overwriting each other's record.
AckedSettles ==
    \A c \in Calls : \A t \in Tasks :
        (reply[c] = "pending" /\ task[c] = t) ~>
            \/ tenant[t].status \in {"completed", "failed"}
            \/ faults + crashes > 0

\* A published result that no run is under way to overwrite is final: later
\* calls for the period are turned away by what they read, so none of them
\* starts a run, even where the platform collection has no unique task_id.
Published(t) ==
    /\ tenant[t].status = "completed"
    /\ \A c \in Calls :
          task[c] = t => pc[c] \notin Running \ {"check"}

PublishedIsFinal == [][\A t \in Tasks : Published(t) => Published(t)']_vars

-----------------------------------------------------------------------------
(* Properties that rest on the unique task_id of the platform collection.   *)

\* Two calls never process the same task at the same time, whatever they read
\* from the tenant database before the first of them wrote to it.
AtMostOneRun ==
    PlatformUnique =>
        \A c, d \in Calls :
            (pc[c] \in BackgroundSteps /\ pc[d] \in BackgroundSteps
                /\ task[c] = task[d]) => c = d

\* The contract of the API: at most one job for a task, answers that match
\* the record, and a record that only moves forward.
Contract == INSTANCE JobContract WITH
    for <- task, told <- reply,
    status <- [t \in Tasks |-> tenant[t].status],
    owner <- [t \in Tasks |-> tenant[t].by]

ImplementsContract == Contract!ContractSpec

-----------------------------------------------------------------------------
(* The inductive invariant: what the position of a call says about its       *)
(* object, its reply and its two documents.                                 *)

BeforeFailure == {"sync", "respond", "bgsave", "bgsync", "compute", "finish"}

CallInv(c) ==
    /\ pc[c] = "idle" <=> task[c] = NoTask
    /\ pc[c] \in {"idle"} \cup RequestSteps => reply[c] = "none"
    /\ pc[c] \in BackgroundSteps => reply[c] = "pending"
    /\ pc[c] \in {"idle", "check"} => plat[c] = "none"
    /\ pc[c] = "save" => plat[c] = "none"
    /\ pc[c] \in BeforeFailure => plat[c] \in {"pending", "processing"}
    /\ pc[c] \in {"failsave", "failsync"} => plat[c] # "none"
    /\ reply[c] = "pending" => plat[c] # "none"
    /\ pc[c] \in {"save", "sync", "respond"} => obj[c] = NewTask
    /\ pc[c] \in {"bgsave", "bgsync", "compute"} =>
          obj[c] = [status |-> "processing", results |-> "none"]
    /\ pc[c] = "finish" => obj[c] = [status |-> "completed", results |-> "full"]
    /\ pc[c] \in {"failsave", "failsync"} =>
          obj[c].status = "failed" /\ obj[c].results # "full"

RecordInv(t) ==
    LET doc == tenant[t]
        c == tenant[t].by
    IN  /\ doc.status = "none" <=> doc.by = NoCall
        /\ doc.status = "completed" <=> doc.results = "full"
        /\ doc.results = "partial" => doc.status = "failed"
        /\ doc.by # NoCall =>
              /\ task[c] = t
              /\ plat[c] # "none"
              /\ reply[c] \in {"none", "pending"}
              /\ pc[c] \notin {"idle", "check", "save", "sync"}
              /\ pc[c] \in {"respond", "bgsave", "bgsync"} => doc.status = "pending"
              /\ pc[c] \in {"compute", "finish", "failsave", "failsync"} =>
                    doc.status \in {"pending", "processing"}
              /\ doc.status = "completed" => pc[c] = "done" /\ plat[c] # "failed"
              /\ (doc.status = "processing" /\ faults = 0 /\ crashes = 0) =>
                    pc[c] \in {"compute", "finish", "failsave", "failsync"}

UniqueInv ==
    PlatformUnique =>
        \A c, d \in Calls :
            (plat[c] # "none" /\ plat[d] # "none" /\ task[c] = task[d]) => c = d

\* What every reachable state satisfies and every step preserves; the four
\* invariants above follow from it.
JobInv ==
    /\ TypeOK
    /\ \A c \in Calls : CallInv(c)
    /\ \A t \in Tasks : RecordInv(t)
    /\ UniqueInv

-----------------------------------------------------------------------------
(* What a message of the program says.                                      *)

\* "Accounting job already in progress." (accounting.py:240): when a call is
\* answered so, some call is processing the job.
InProgressMeansRunning ==
    [][\A c \in Calls :
         (reply[c] # "processing" /\ reply'[c] = "processing") =>
            \E d \in Calls : task[d] = task[c] /\ pc[d] \in BackgroundSteps]_vars
=============================================================================
