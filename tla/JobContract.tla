---------------------------- MODULE JobContract ----------------------------
(***************************************************************************)
(* What POST /jobs and GET /jobs/{task_id} promise to their clients, with   *)
(* no word of processes, documents or failures (app/routers/accounting.py   *)
(* and app/services/accounting_service.py).                                 *)
(*                                                                         *)
(* A call asks for the accounting of one task (a business and a period).    *)
(* It may be told "pending" (the job was created for it), "processing" or   *)
(* "completed" (somebody else's job), or be refused.  The record of a task  *)
(* moves only forward, so that what a client has read stays true, and at    *)
(* most one call ever owns the job of a task.                               *)
(***************************************************************************)
EXTENDS Naturals

CONSTANTS Calls,    \* requests to create a job
          Tasks,    \* task ids: business and period
          NoTask,   \* the task of a call that was not received yet
          NoCall    \* the owner of a job that was never created

VARIABLES for,      \* for[c]: the task call c asks for
          told,     \* told[c]: what call c was answered
          status,   \* status[t]: the status of task t that its readers see
          owner     \* owner[t]: the call whose job writes the record of t

cvars == <<for, told, status, owner>>

Replies == {"none", "rejected", "error", "pending", "processing", "completed"}

\* How far a task has come.  "completed" and "failed" are both final.
Rank(s) == CASE s = "none"       -> 0
             [] s = "pending"    -> 1
             [] s = "processing" -> 2
             [] OTHER            -> 3

-----------------------------------------------------------------------------

ContractInit ==
    /\ for = [c \in Calls |-> NoTask]
    /\ told = [c \in Calls |-> "none"]
    /\ status = [t \in Tasks |-> "none"]
    /\ owner = [t \in Tasks |-> NoCall]

\* Call c asks for task t.
Ask(c, t) ==
    /\ for[c] = NoTask
    /\ for' = [for EXCEPT ![c] = t]
    /\ UNCHANGED <<told, status, owner>>

\* Call c gets its only answer.  It may be refused at any time, it is told of
\* somebody else's job only if the record says so now, and it is told that
\* its own job is pending only if no other call was told that.
Answer(c, r) ==
    /\ for[c] \in Tasks
    /\ told[c] = "none"
    /\ r \in Replies \ {"none"}
    /\ r \in {"processing", "completed"} => status[for[c]] = r
    /\ r = "pending" =>
          \A d \in Calls : told[d] = "pending" => for[d] # for[c]
    /\ told' = [told EXCEPT ![c] = r]
    /\ UNCHANGED <<for, status, owner>>

\* The job of call c, the only job of its task, writes a later status.
Progress(c, s) ==
    /\ for[c] \in Tasks
    /\ s \in {"pending", "processing", "failed", "completed"}
    /\ Rank(s) > Rank(status[for[c]])
    /\ owner[for[c]] \in {NoCall, c}
    /\ status' = [status EXCEPT ![for[c]] = s]
    /\ owner' = [owner EXCEPT ![for[c]] = c]
    /\ UNCHANGED <<for, told>>

ContractNext ==
    \/ \E c \in Calls, t \in Tasks : Ask(c, t)
    \/ \E c \in Calls, r \in Replies : Answer(c, r)
    \/ \E c \in Calls, s \in {"pending", "processing", "failed", "completed"} :
          Progress(c, s)

ContractSpec == ContractInit /\ [][ContractNext]_cvars
=============================================================================
