------------------------ MODULE AccountingJobsProofs ------------------------
(***************************************************************************)
(* What AccountingJobs guarantees for any number of calls, tasks, workers,  *)
(* faults and crashes.                                                      *)
(***************************************************************************)
EXTENDS AccountingJobs, TLAPS

\* Every step keeps the types.
LEMMA StepTypeOK == TypeOK /\ [Next]_vars => TypeOK'
<1> SUFFICES ASSUME TypeOK, [Next]_vars PROVE TypeOK'
  OBVIOUS
<1> USE SentinelAssumption, BoundAssumption
    DEF TypeOK, Replies, TaskObjects, TenantDocs, Statuses, Results, Running,
        RequestSteps, BackgroundSteps
<1>1. ASSUME NEW c \in Calls, NEW t \in Tasks, NEW w \in Workers, Receive(c, t, w)
      PROVE  TypeOK'
  BY <1>1 DEF Receive, At, Go
<1>2. ASSUME NEW c \in Calls, Step(c)
      PROVE  TypeOK'
  <2>0. obj[c].status \in Statuses /\ obj[c].results \in Results
    OBVIOUS
  <2>1. CASE Reject(c)
    BY <2>1 DEF Reject, At, Go, End
  <2>2. CASE CheckExisting(c)
    <3>1. CASE /\ tenant[task[c]].status \in {"completed", "processing"}
               /\ End(c, tenant[task[c]].status)
      BY <2>2, <3>1 DEF CheckExisting, Go, End, NewTask
    <3>2. CASE /\ obj' = [obj EXCEPT ![c] = NewTask]
               /\ Go(c, "save")
               /\ UNCHANGED reply
      BY <2>2, <3>2 DEF CheckExisting, Go, NewTask
    <3> QED
      BY <2>2, <3>1, <3>2 DEF CheckExisting
  <2>3. CASE CheckFails(c)
    BY <2>3 DEF CheckFails, At, Go, End, Fault
  <2>4. CASE SavePending(c)
    BY <2>4 DEF SavePending, At, Go, PlatWrite
  <2>5. CASE SaveDuplicate(c)
    BY <2>5 DEF SaveDuplicate, At, Go, End
  <2>6. CASE SaveFails(c)
    BY <2>6 DEF SaveFails, At, Go, End, Fault, PlatWrite
  <2>7. CASE SyncPending(c)
    BY <2>7 DEF SyncPending, SwallowedSync, TenantWrite, At, Go, Fault
  <2>8. CASE Respond(c)
    BY <2>8 DEF Respond, At, Go
  <2>9. CASE BgSave(c)
    <3>1. plat' \in [Calls -> Statuses \cup {"none"}]
      BY <2>0, <2>9 DEF BgSave, PlatWrite
    <3>2. pc' \in [Calls -> Running \cup {"idle", "done", "dead"}]
      BY <2>9 DEF BgSave, ToFailed, Go
    <3>3. obj' \in [Calls -> TaskObjects] /\ faults' \in 0..MaxFaults
      BY <2>0, <2>9 DEF BgSave, ToFailed, Fault
    <3> QED
      BY <2>9, <3>1, <3>2, <3>3 DEF BgSave
  <2>10. CASE BgSync(c)
    BY <2>10 DEF BgSync, SwallowedSync, TenantWrite, At, Go, Fault
  <2>11. CASE ComputeOk(c)
    BY <2>11 DEF ComputeOk, At, Go
  <2>12. CASE ComputeFails(c)
    BY <2>12 DEF ComputeFails, ToFailed, At, Go
  <2>13. CASE Finish(c)
    BY <2>13 DEF Finish, SwallowedSync, TenantWrite, At, Go, Fault
  <2>14. CASE FailSave(c)
    <3>1. plat' \in [Calls -> Statuses \cup {"none"}]
      BY <2>0, <2>14 DEF FailSave, PlatWrite
    <3>2. pc' \in [Calls -> Running \cup {"idle", "done", "dead"}]
      BY <2>14 DEF FailSave, Go
    <3>3. faults' \in 0..MaxFaults
      BY <2>14 DEF FailSave, Fault
    <3> QED
      BY <2>14, <3>1, <3>2, <3>3 DEF FailSave
  <2>15. CASE FailSync(c)
    BY <2>15 DEF FailSync, SwallowedSync, TenantWrite, At, Go, Fault
  <2> QED
    BY <1>2, <2>1, <2>2, <2>3, <2>4, <2>5, <2>6, <2>7, <2>8, <2>9, <2>10,
       <2>11, <2>12, <2>13, <2>14, <2>15 DEF Step
<1>3. ASSUME NEW w \in Workers, Crash(w)
      PROVE  TypeOK'
  BY <1>3 DEF Crash
<1>4. CASE UNCHANGED vars
  BY <1>4 DEF vars
<1> QED
  BY <1>1, <1>2, <1>3, <1>4 DEF Next

\* Every variable always has its type.
THEOREM JobsTypeOK == Spec => []TypeOK
<1>1. Init => TypeOK
  BY BoundAssumption
     DEF Init, TypeOK, Replies, TaskObjects, TenantDocs, Statuses, Results,
         NewTask, NoDoc
<1> QED
  BY <1>1, StepTypeOK, PTL DEF Spec

-----------------------------------------------------------------------------

\* The inductive invariant without the types.
Parts ==
    /\ \A c \in Calls : CallInv(c)
    /\ \A t \in Tasks : RecordInv(t)
    /\ UniqueInv

\* Every step keeps the inductive invariant: one case for each action, and
\* under it one step for what the invariant says of calls, of tenant records
\* and of the uniqueness of platform documents.
LEMMA StepParts == JobInv /\ [Next]_vars => Parts'
<1> SUFFICES ASSUME JobInv, [Next]_vars PROVE Parts'
  OBVIOUS
<1> USE SentinelAssumption, BoundAssumption
    DEF JobInv, TypeOK, RequestSteps, BackgroundSteps, BeforeFailure
<1>1. ASSUME NEW c \in Calls, NEW u \in Tasks, NEW w \in Workers, Receive(c, u, w)
      PROVE  Parts'
  <2>1. \A x \in Calls : CallInv(x)'
  BY <1>1 DEF CallInv, Receive, At, Go
  <2>2. \A t \in Tasks : RecordInv(t)'
  BY <1>1 DEF RecordInv, CallInv, TenantDocs, Receive, At, Go
  <2>3. UniqueInv'
  BY <1>1 DEF UniqueInv, CallInv, Receive, At, Go
  <2> QED
  BY <2>1, <2>2, <2>3 DEF Parts
<1>2. ASSUME NEW c \in Calls, Step(c)
      PROVE  Parts'
  <2>1. CASE Reject(c)
    <3>1. \A x \in Calls : CallInv(x)'
      BY <2>1 DEF CallInv, Reject, At, Go, End
    <3>2. \A t \in Tasks : RecordInv(t)'
      BY <2>1 DEF RecordInv, CallInv, TenantDocs, Reject, At, Go, End
    <3>3. UniqueInv'
      BY <2>1 DEF UniqueInv, CallInv, Reject, At, Go, End
    <3> QED
      BY <3>1, <3>2, <3>3 DEF Parts
  <2>2. CASE CheckExisting(c)
    <3>1. \A x \in Calls : CallInv(x)'
      BY <2>2 DEF CallInv, CheckExisting, At, Go, End, NewTask
    <3>2. \A t \in Tasks : RecordInv(t)'
      BY <2>2 DEF RecordInv, CallInv, TenantDocs, CheckExisting, At, Go, End, NewTask
    <3>3. UniqueInv'
      BY <2>2 DEF UniqueInv, CallInv, CheckExisting, At, Go, End, NewTask
    <3> QED
      BY <3>1, <3>2, <3>3 DEF Parts
  <2>3. CASE CheckFails(c)
    <3>1. \A x \in Calls : CallInv(x)'
      BY <2>3 DEF CallInv, CheckFails, At, Go, End, Fault
    <3>2. \A t \in Tasks : RecordInv(t)'
      BY <2>3 DEF RecordInv, CallInv, TenantDocs, CheckFails, At, Go, End, Fault
    <3>3. UniqueInv'
      BY <2>3 DEF UniqueInv, CallInv, CheckFails, At, Go, End, Fault
    <3> QED
      BY <3>1, <3>2, <3>3 DEF Parts
  <2>4. CASE SavePending(c)
    <3>1. \A x \in Calls : CallInv(x)'
      BY <2>4 DEF CallInv, SavePending, At, Go, PlatWrite, Duplicate, NewTask
    <3>2. \A t \in Tasks : RecordInv(t)'
      BY <2>4 DEF RecordInv, CallInv, TenantDocs, SavePending, At, Go, PlatWrite, Duplicate, NewTask
    <3>3. UniqueInv'
      BY <2>4 DEF UniqueInv, CallInv, SavePending, At, Go, PlatWrite, Duplicate, NewTask
    <3> QED
      BY <3>1, <3>2, <3>3 DEF Parts
  <2>5. CASE SaveDuplicate(c)
    <3>1. \A x \in Calls : CallInv(x)'
      BY <2>5 DEF CallInv, SaveDuplicate, At, Go, End
    <3>2. \A t \in Tasks : RecordInv(t)'
      BY <2>5 DEF RecordInv, CallInv, TenantDocs, SaveDuplicate, At, Go, End
    <3>3. UniqueInv'
      BY <2>5 DEF UniqueInv, CallInv, SaveDuplicate, At, Go, End
    <3> QED
      BY <3>1, <3>2, <3>3 DEF Parts
  <2>6. CASE SaveFails(c)
    <3>1. \A x \in Calls : CallInv(x)'
      BY <2>6 DEF CallInv, SaveFails, At, Go, End, Fault, PlatWrite, Duplicate, NewTask
    <3>2. \A t \in Tasks : RecordInv(t)'
      BY <2>6 DEF RecordInv, CallInv, TenantDocs, SaveFails, At, Go, End, Fault, PlatWrite, Duplicate, NewTask
    <3>3. UniqueInv'
      BY <2>6 DEF UniqueInv, CallInv, SaveFails, At, Go, End, Fault, PlatWrite, Duplicate, NewTask
    <3> QED
      BY <3>1, <3>2, <3>3 DEF Parts
  <2>7. CASE SyncPending(c)
    <3>1. \A x \in Calls : CallInv(x)'
      BY <2>7 DEF CallInv, SyncPending, At, Go, SwallowedSync, TenantWrite, Fault, NewTask
    <3>2. \A t \in Tasks : RecordInv(t)'
      BY <2>7 DEF RecordInv, CallInv, TenantDocs, SyncPending, At, Go, SwallowedSync, TenantWrite, Fault, NewTask
    <3>3. UniqueInv'
      BY <2>7 DEF UniqueInv, CallInv, SyncPending, At, Go, SwallowedSync, TenantWrite, Fault, NewTask
    <3> QED
      BY <3>1, <3>2, <3>3 DEF Parts
  <2>8. CASE Respond(c)
    <3>1. \A x \in Calls : CallInv(x)'
      BY <2>8 DEF CallInv, Respond, At, Go, NewTask
    <3>2. \A t \in Tasks : RecordInv(t)'
      BY <2>8 DEF RecordInv, CallInv, TenantDocs, Respond, At, Go, NewTask
    <3>3. UniqueInv'
      BY <2>8 DEF UniqueInv, CallInv, Respond, At, Go, NewTask
    <3> QED
      BY <3>1, <3>2, <3>3 DEF Parts
  <2>9. CASE BgSave(c)
    <3>1. \A x \in Calls : CallInv(x)'
      BY <2>9 DEF CallInv, BgSave, At, Go, ToFailed, PlatWrite, Fault
    <3>2. \A t \in Tasks : RecordInv(t)'
      BY <2>9 DEF RecordInv, CallInv, TenantDocs, BgSave, At, Go, ToFailed, PlatWrite, Fault
    <3>3. UniqueInv'
      BY <2>9 DEF UniqueInv, CallInv, BgSave, At, Go, ToFailed, PlatWrite, Fault
    <3> QED
      BY <3>1, <3>2, <3>3 DEF Parts
  <2>10. CASE BgSync(c)
    <3>1. \A x \in Calls : CallInv(x)'
      BY <2>10 DEF CallInv, BgSync, At, Go, SwallowedSync, TenantWrite, Fault
    <3>2. \A t \in Tasks : RecordInv(t)'
      BY <2>10 DEF RecordInv, CallInv, TenantDocs, BgSync, At, Go, SwallowedSync, TenantWrite, Fault
    <3>3. UniqueInv'
      BY <2>10 DEF UniqueInv, CallInv, BgSync, At, Go, SwallowedSync, TenantWrite, Fault
    <3> QED
      BY <3>1, <3>2, <3>3 DEF Parts
  <2>11. CASE ComputeOk(c)
    <3>1. \A x \in Calls : CallInv(x)'
      BY <2>11 DEF CallInv, ComputeOk, At, Go
    <3>2. \A t \in Tasks : RecordInv(t)'
      BY <2>11 DEF RecordInv, CallInv, TenantDocs, ComputeOk, At, Go
    <3>3. UniqueInv'
      BY <2>11 DEF UniqueInv, CallInv, ComputeOk, At, Go
    <3> QED
      BY <3>1, <3>2, <3>3 DEF Parts
  <2>12. CASE ComputeFails(c)
    <3>1. \A x \in Calls : CallInv(x)'
      BY <2>12 DEF CallInv, ComputeFails, At, Go, ToFailed
    <3>2. \A t \in Tasks : RecordInv(t)'
      BY <2>12 DEF RecordInv, CallInv, TenantDocs, ComputeFails, At, Go, ToFailed
    <3>3. UniqueInv'
      BY <2>12 DEF UniqueInv, CallInv, ComputeFails, At, Go, ToFailed
    <3> QED
      BY <3>1, <3>2, <3>3 DEF Parts
  <2>13. CASE Finish(c)
    <3>1. \A x \in Calls : CallInv(x)'
      BY <2>13 DEF CallInv, Finish, At, Go, SwallowedSync, TenantWrite, Fault
    <3>2. \A t \in Tasks : RecordInv(t)'
      BY <2>13 DEF RecordInv, CallInv, TenantDocs, Finish, At, Go, SwallowedSync, TenantWrite, Fault
    <3>3. UniqueInv'
      BY <2>13 DEF UniqueInv, CallInv, Finish, At, Go, SwallowedSync, TenantWrite, Fault
    <3> QED
      BY <3>1, <3>2, <3>3 DEF Parts
  <2>14. CASE FailSave(c)
    <3>1. \A x \in Calls : CallInv(x)'
      BY <2>14 DEF CallInv, FailSave, At, Go, PlatWrite, Fault
    <3>2. \A t \in Tasks : RecordInv(t)'
      BY <2>14 DEF RecordInv, CallInv, TenantDocs, FailSave, At, Go, PlatWrite, Fault
    <3>3. UniqueInv'
      BY <2>14 DEF UniqueInv, CallInv, FailSave, At, Go, PlatWrite, Fault
    <3> QED
      BY <3>1, <3>2, <3>3 DEF Parts
  <2>15. CASE FailSync(c)
    <3>1. \A x \in Calls : CallInv(x)'
      BY <2>15 DEF CallInv, FailSync, At, Go, SwallowedSync, TenantWrite, Fault
    <3>2. \A t \in Tasks : RecordInv(t)'
      BY <2>15 DEF RecordInv, CallInv, TenantDocs, FailSync, At, Go, SwallowedSync, TenantWrite, Fault
    <3>3. UniqueInv'
      BY <2>15 DEF UniqueInv, CallInv, FailSync, At, Go, SwallowedSync, TenantWrite, Fault
    <3> QED
      BY <3>1, <3>2, <3>3 DEF Parts
  <2> QED
    BY <1>2, <2>1, <2>2, <2>3, <2>4, <2>5, <2>6, <2>7, <2>8, <2>9, <2>10,
       <2>11, <2>12, <2>13, <2>14, <2>15 DEF Step
<1>3. ASSUME NEW w \in Workers, Crash(w)
      PROVE  Parts'
  <2>1. \A x \in Calls : CallInv(x)'
    BY <1>3 DEF CallInv, Crash, Running
  <2>2. \A t \in Tasks : RecordInv(t)'
    BY <1>3 DEF RecordInv, CallInv, TenantDocs, Crash, Running
  <2>3. UniqueInv'
    BY <1>3 DEF UniqueInv, CallInv, Crash, Running
  <2> QED
    BY <2>1, <2>2, <2>3 DEF Parts
<1>4. CASE UNCHANGED vars
  <2>1. \A x \in Calls : CallInv(x)'
    BY <1>4 DEF CallInv, vars
  <2>2. \A t \in Tasks : RecordInv(t)'
    BY <1>4 DEF RecordInv, CallInv, TenantDocs, vars
  <2>3. UniqueInv'
    BY <1>4 DEF UniqueInv, CallInv, vars
  <2> QED
    BY <2>1, <2>2, <2>3 DEF Parts
<1> QED
  BY <1>1, <1>2, <1>3, <1>4 DEF Next

\* The inductive invariant always holds.
THEOREM JobsInv == Spec => []JobInv
<1>1. Init => JobInv
  BY SentinelAssumption, BoundAssumption
     DEF Init, JobInv, TypeOK, Replies, TaskObjects, TenantDocs, Statuses, Results,
         NewTask, NoDoc, CallInv, RecordInv, UniqueInv, Running, RequestSteps,
         BackgroundSteps, BeforeFailure
<1>2. JobInv /\ [Next]_vars => JobInv'
  BY StepTypeOK, StepParts DEF JobInv, Parts
<1> QED
  BY <1>1, <1>2, PTL DEF Spec

-----------------------------------------------------------------------------
(* The safety properties, for every value of the constants.                 *)

\* Results are shown exactly when the status is "completed".
THEOREM JobsResultsMatchStatus == Spec => []ResultsMatchStatus
<1>1. JobInv => ResultsMatchStatus
  BY DEF JobInv, RecordInv, ResultsMatchStatus
<1> QED
  BY <1>1, JobsInv, PTL

\* The platform and the tenant database do not contradict each other.
THEOREM JobsStoresAgree == Spec => []StoresAgree
<1>1. JobInv => StoresAgree
  BY DEF JobInv, TypeOK, TenantDocs, RecordInv, StoresAgree
<1> QED
  BY <1>1, JobsInv, PTL

\* A record is left in "processing" only by a crash or a failed operation.
THEOREM JobsOrphanOnlyAfterFault == Spec => []OrphanOnlyAfterFault
<1>1. JobInv => OrphanOnlyAfterFault
  BY DEF JobInv, TypeOK, TenantDocs, RecordInv, OrphanOnlyAfterFault, BackgroundSteps
<1> QED
  BY <1>1, JobsInv, PTL

\* With a unique task_id in the platform collection, a task has one run at most.
THEOREM JobsAtMostOneRun == Spec => []AtMostOneRun
<1>1. JobInv => AtMostOneRun
  BY DEF JobInv, CallInv, UniqueInv, AtMostOneRun, BeforeFailure, BackgroundSteps
<1> QED
  BY <1>1, JobsInv, PTL

\* A published result that no run is under way to overwrite stays published.
THEOREM JobsPublishedIsFinal == Spec => PublishedIsFinal
<1>1. ASSUME JobInv, [Next]_vars, NEW t \in Tasks, Published(t)
      PROVE  Published(t)'
  <2> USE <1>1, SentinelAssumption
      DEF JobInv, TypeOK, Published, Running, RequestSteps, BackgroundSteps
  <2>1. ASSUME NEW c \in Calls, NEW u \in Tasks, NEW w \in Workers, Receive(c, u, w)
        PROVE  Published(t)'
    BY <2>1 DEF Receive, At, Go
  <2>2. ASSUME NEW c \in Calls, Step(c), task[c] # t
        PROVE  Published(t)'
    BY <2>2 DEF Step, Reject, CheckExisting, CheckFails, SavePending, SaveDuplicate,
         SaveFails, SyncPending, Respond, BgSave, BgSync, ComputeOk, ComputeFails,
         Finish, FailSave, FailSync, ToFailed, SwallowedSync, TenantWrite, End, Go
  <2>3. ASSUME NEW c \in Calls, Step(c), task[c] = t
        PROVE  Published(t)'
    BY <2>3 DEF Step, Reject, CheckExisting, CheckFails, SavePending, SaveDuplicate,
         SaveFails, SyncPending, Respond, BgSave, BgSync, ComputeOk, ComputeFails,
         Finish, FailSave, FailSync, At, Go, End
  <2>4. ASSUME NEW w \in Workers, Crash(w)
        PROVE  Published(t)'
    BY <2>4 DEF Crash
  <2>5. CASE UNCHANGED vars
    BY <2>5 DEF vars
  <2> QED
    BY <2>1, <2>2, <2>3, <2>4, <2>5 DEF Next
<1>2. JobInv /\ [Next]_vars => [\A t \in Tasks : Published(t) => Published(t)']_vars
  BY <1>1
<1> QED
  BY <1>2, JobsInv, PTL DEF Spec, PublishedIsFinal

-----------------------------------------------------------------------------
(* With a unique task_id the server implements the contract of its API.      *)

\* A write of the job's status to the tenant database moves the record of the
\* contract forward, or was not applied.
LEMMA SyncIsProgress ==
    ASSUME JobInv, PlatformUnique, NEW c \in Calls, NEW next,
           pc[c] \in {"sync", "bgsync", "finish", "failsync"},
           SwallowedSync(c, next)
    PROVE  [Contract!ContractNext]_(Contract!cvars)
<1> DEFINE t == task[c]
           new == obj[c].status
<1> USE SentinelAssumption DEF JobInv, TypeOK
<1>1. t \in Tasks /\ plat[c] # "none"
  BY DEF CallInv, BeforeFailure
<1>2. tenant[t].by \in {NoCall, c}
  BY <1>1 DEF RecordInv, UniqueInv, TenantDocs
<1>3. /\ new \in {"pending", "processing", "failed", "completed"}
      /\ Contract!Rank(new) > Contract!Rank(tenant[t].status)
  BY <1>1, <1>2 DEF CallInv, RecordInv, TenantDocs, NewTask, Contract!Rank
<1>4. CASE TenantWrite(c, obj[c])
  <2>1. PICK u \in {"pending", "processing", "failed", "completed"} : u = new
    BY <1>3
  <2>2. Contract!Progress(c, u)
    BY <1>1, <1>2, <1>3, <1>4, <2>1 DEF TenantWrite, SwallowedSync, Contract!Progress
  <2> QED
    BY <2>2 DEF Contract!ContractNext
<1>5. CASE UNCHANGED tenant
  BY <1>5 DEF SwallowedSync, Contract!cvars
<1> QED
  BY <1>4, <1>5 DEF SwallowedSync

\* Every other step of a call answers it, or is invisible.
LEMMA StepRefines ==
    ASSUME JobInv, PlatformUnique, NEW c \in Calls, Step(c)
    PROVE  [Contract!ContractNext]_(Contract!cvars)
<1> USE SentinelAssumption DEF JobInv, TypeOK
<1>1. ASSUME NEW r \in {"rejected", "error", "completed", "processing"},
             At(c, "check") \/ At(c, "save"), End(c, r),
             r \in {"completed", "processing"} => tenant[task[c]].status = r,
             UNCHANGED <<task, tenant>>
      PROVE  Contract!ContractNext
  <2>1. Contract!Answer(c, r)
    BY <1>1 DEF At, End, CallInv, RequestSteps, Contract!Answer, Contract!Replies
  <2> QED
    BY <2>1 DEF Contract!ContractNext, Contract!Replies
<1>2. CASE Reject(c) \/ CheckFails(c) \/ SaveDuplicate(c) \/ SaveFails(c)
  BY <1>1, <1>2 DEF Reject, CheckFails, SaveDuplicate, SaveFails
<1>3. CASE CheckExisting(c)
  <2>1. CASE /\ tenant[task[c]].status \in {"completed", "processing"}
             /\ End(c, tenant[task[c]].status)
    BY <1>1, <1>3, <2>1 DEF CheckExisting
  <2>2. CASE UNCHANGED reply
    BY <1>3, <2>2 DEF CheckExisting, Contract!cvars
  <2> QED
    BY <1>3, <2>1, <2>2 DEF CheckExisting
<1>4. CASE Respond(c)
  <2>1. Contract!Answer(c, "pending")
    <3>1. /\ task[c] \in Tasks
          /\ reply[c] = "none"
          /\ plat[c] # "none"
      BY <1>4 DEF Respond, At, CallInv, RequestSteps, BeforeFailure
    <3>2. \A d \in Calls : reply[d] = "pending" => task[d] # task[c]
      BY <3>1 DEF CallInv, UniqueInv
    <3> QED
      BY <1>4, <3>1, <3>2 DEF Respond, Contract!Answer, Contract!Replies
  <2> QED
    BY <2>1 DEF Contract!ContractNext, Contract!Replies
<1>5. CASE SyncPending(c) \/ BgSync(c) \/ Finish(c) \/ FailSync(c)
  BY <1>5, SyncIsProgress DEF SyncPending, BgSync, Finish, FailSync, At
<1>6. CASE SavePending(c) \/ BgSave(c) \/ ComputeOk(c) \/ ComputeFails(c) \/ FailSave(c)
  BY <1>6 DEF SavePending, BgSave, ComputeOk, ComputeFails, FailSave, Contract!cvars
<1> QED
  BY <1>2, <1>3, <1>4, <1>5, <1>6 DEF Step

\* The server implements the contract: one job for a task, answers that match
\* the record, and a record that only moves forward.
THEOREM JobsImplementContract ==
    ASSUME PlatformUnique PROVE Spec => ImplementsContract
<1>1. Init => Contract!ContractInit
  BY DEF Init, NoDoc, Contract!ContractInit
<1>2. JobInv /\ [Next]_vars => [Contract!ContractNext]_(Contract!cvars)
  <2> SUFFICES ASSUME JobInv, [Next]_vars
               PROVE  [Contract!ContractNext]_(Contract!cvars)
    OBVIOUS
  <2>1. ASSUME NEW c \in Calls, NEW u \in Tasks, NEW w \in Workers, Receive(c, u, w)
        PROVE  Contract!ContractNext
    <3>1. Contract!Ask(c, u)
      BY <2>1 DEF Receive, At, JobInv, CallInv, Contract!Ask
    <3> QED
      BY <3>1 DEF Contract!ContractNext
  <2>2. ASSUME NEW c \in Calls, Step(c)
        PROVE  [Contract!ContractNext]_(Contract!cvars)
    BY <2>2, StepRefines
  <2>3. ASSUME NEW w \in Workers, Crash(w)
        PROVE  UNCHANGED Contract!cvars
    BY <2>3 DEF Crash, Contract!cvars
  <2>4. CASE UNCHANGED vars
    BY <2>4 DEF vars, Contract!cvars
  <2> QED
    BY <2>1, <2>2, <2>3, <2>4 DEF Next
<1> QED
  BY <1>1, <1>2, JobsInv, PTL DEF Spec, ImplementsContract, Contract!ContractSpec
=============================================================================
