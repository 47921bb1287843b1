----------------------------- MODULE ServiceStart -----------------------------
(***************************************************************************)
(* The life of the worker processes: lifespan of app/main.py with           *)
(* init_mongodb, init_redis and load_model, what a worker is then worth,    *)
(* and gunicorn, which replaces it.  Nothing connects a worker again that   *)
(* started without MongoDB or Redis; only its successor tries anew.         *)
(*                                                                         *)
(* Workers share the files of the model, which the image does not bring     *)
(* along: who finds one of them missing trains a model and writes both.     *)
(* Whatever goes wrong in that leaves the worker without a model and the    *)
(* files as they are by then.                                               *)
(***************************************************************************)
EXTENDS Integers

CONSTANTS Workers,
          MaxAttempts,      \* max_attempts of init_mongodb
          SelectionTimeout, \* serverSelectionTimeoutMS, in seconds
          AttemptTimes,     \* how many seconds an attempt may take until it fails
          MaxWait,          \* the longest wait after an attempt
          WorkerTimeout,    \* timeout of gunicorn
          MaxRequests       \* max_requests of gunicorn

ASSUME StartAssumption ==
    /\ {MaxAttempts, MaxRequests} \subseteq Nat \ {0}
    /\ {SelectionTimeout, MaxWait, WorkerTimeout} \subseteq Nat
    /\ AttemptTimes \subseteq Nat

VARIABLES mongoUp, \* does MongoDB answer?
          hasTf,   \* can TensorFlow be imported?
          proc,    \* proc[w]: the process of worker w
          file,    \* the files of the model
          clean,   \* the workers whose last load_model ran alone and met no failure
          calm     \* is nothing going to fail any more?

vars == <<mongoUp, hasTf, proc, file, clean, calm>>
outside == <<mongoUp, hasTf, calm>>

Making == {"train", "writeJson", "saved", "writeWeights"}
Loading == {"model", "read", "load"} \cup Making
Stages == {"connect", "beanie", "redis", "serve"} \cup Loading

\* A new process: where it is in lifespan, how often it tried to connect, how long
\* that took, did a try fail before the driver's timeout; is _platform_db set, Beanie
\* initialized, did init_beanie ever raise; is there a client of Redis, a model;
\* how many requests came.
Fresh == [at |-> "connect", attempt |-> 1, elapsed |-> 0, quick |-> FALSE,
          platform |-> FALSE, beanie |-> FALSE, failed |-> FALSE, redis |-> FALSE,
          ready |-> FALSE, served |-> 0]

Process ==
    [at : Stages, attempt : 1..MaxAttempts, elapsed : Nat, quick : BOOLEAN,
     platform : BOOLEAN, beanie : BOOLEAN, failed : BOOLEAN, redis : BOOLEAN,
     ready : BOOLEAN, served : 0..MaxRequests]

TypeOK ==
    /\ {mongoUp, hasTf, calm} \subseteq BOOLEAN
    /\ clean \in SUBSET Workers
    /\ proc \in [Workers -> Process]
    /\ file \in [{"json", "weights"} -> {"none", "torn", "whole"}]

Init ==
    /\ mongoUp \in BOOLEAN /\ hasTf \in BOOLEAN
    /\ proc = [w \in Workers |-> Fresh]
    /\ file = [f \in {"json", "weights"} |-> "none"]
    /\ clean = {}
    /\ calm = FALSE

-----------------------------------------------------------------------------
(* init_mongodb                                                             *)

At(w, here) == proc[w].at = here
Goes(w, next) == proc' = [proc EXCEPT ![w].at = next]
Replace(w) == proc' = [proc EXCEPT ![w] = Fresh]

Wait(attempt) == IF 2^attempt \in 0..MaxWait THEN 2^attempt ELSE MaxWait

\* Mutant: timeout = 0, which gunicorn takes for no timeout.
TooLongNever(took) == FALSE

\* How long gunicorn waits for a sign of life.
TooLong(took) == took > WorkerTimeout

\* An attempt fails, at once, at the end of the driver's timeout or at another time,
\* and a wait follows, also after the last attempt; lifespan then goes on without MongoDB.
\* A worker that has not finished lifespan gives no sign of life to gunicorn, which
\* replaces it if that takes too long.
AttemptFails(w, init) ==
    LET attempt == proc[w].attempt
    IN  \E lasted \in AttemptTimes :
            LET took == proc[w].elapsed + lasted + Wait(attempt)
            IN  \/ TooLong(took) /\ Replace(w)
                \/ /\ ~TooLong(took) /\ attempt < MaxAttempts
                   /\ proc' = [proc EXCEPT ![w].at = "connect",
                                           ![w].attempt = attempt + 1,
                                           ![w].elapsed = took,
                                           ![w].failed = @ \/ init,
                                           ![w].quick = @ \/ lasted < SelectionTimeout]
                \/ /\ ~TooLong(took) /\ attempt = MaxAttempts
                   /\ proc' = [proc EXCEPT ![w].at = "redis",
                                           ![w].attempt = 1,
                                           ![w].elapsed = 0,
                                           ![w].failed = @ \/ init,
                                           ![w].quick = @ \/ lasted < SelectionTimeout]

\* A new client, and a ping.
Connect(w) ==
    /\ At(w, "connect")
    /\ \/ /\ mongoUp
          /\ proc' = [proc EXCEPT ![w].at = "beanie", ![w].platform = TRUE]
       \/ ~mongoUp /\ AttemptFails(w, FALSE)
    /\ UNCHANGED <<outside, file, clean>>

\* Mutant: the exception of init_beanie is only logged.
InitBeanieLogged(w) ==
    /\ At(w, "beanie")
    /\ proc' = [proc EXCEPT ![w].at = "redis", ![w].beanie = mongoUp, ![w].quick = FALSE]
    /\ UNCHANGED <<outside, file, clean>>

\* init_beanie, which makes the indexes.
InitBeanie(w) ==
    /\ At(w, "beanie")
    /\ \/ /\ mongoUp
          /\ proc' = [proc EXCEPT ![w].at = "redis", ![w].beanie = TRUE,
                                  ![w].attempt = 1, ![w].elapsed = 0,
                                  ![w].quick = FALSE]
       \/ ~mongoUp /\ AttemptFails(w, TRUE)
    /\ UNCHANGED <<outside, file, clean>>

-----------------------------------------------------------------------------
(* init_redis and load_model                                                *)

Others(w) == {proc[v].at : v \in Workers \ {w}}
Alone(w) == \A v \in Workers \ {w} : proc[v].at \notin Loading

\* w enters load_model: undisturbed, or with others that no longer are.
Enters(w) ==
    clean' = IF Alone(w) THEN clean \cup {w}
             ELSE {v \in clean \ {w} : proc[v].at \notin Loading}

\* One try, and no client if it fails.
ConnectRedis(w) ==
    /\ At(w, "redis")
    /\ \E redisUp \in {TRUE, calm} :
          proc' = [proc EXCEPT ![w].at = "model", ![w].redis = redisUp]
    /\ Enters(w)
    /\ UNCHANGED <<outside, file>>

\* load_model returns, or raises, which its callers swallow.
LoadEnds(w, loaded) ==
    proc' = [proc EXCEPT ![w].at = "serve", ![w].ready = loaded]

\* Mutant: only model.json is looked for.
ExamineJson(w) ==
    /\ At(w, "model")
    /\ \/ ~hasTf /\ LoadEnds(w, FALSE)
       \/ hasTf /\ file["json"] = "none" /\ Goes(w, "train")
       \/ hasTf /\ file["json"] # "none" /\ Goes(w, "read")
    /\ UNCHANGED <<outside, file, clean>>

\* Are both files there?
Examine(w) ==
    /\ At(w, "model")
    /\ \/ ~hasTf /\ LoadEnds(w, FALSE)
       \/ hasTf /\ "none" \in {file["json"], file["weights"]} /\ Goes(w, "train")
       \/ hasTf /\ "none" \notin {file["json"], file["weights"]} /\ Goes(w, "read")
    /\ UNCHANGED <<outside, file, clean>>

\* A trained model is written to model.json; what one writer has closed is whole,
\* as all of them write the same there,
OpenJson(w) ==
    /\ At(w, "train")
    /\ Goes(w, "writeJson")
    /\ file' = [file EXCEPT !["json"] = "torn"]
    /\ UNCHANGED <<outside, clean>>

CloseJson(w) ==
    /\ At(w, "writeJson")
    /\ Goes(w, "saved")
    /\ file' = [file EXCEPT !["json"] = "whole"]
    /\ UNCHANGED <<outside, clean>>

\* and then to weights.h5, which another writer may have locked.
OpenWeights(w) ==
    /\ At(w, "saved")
    /\ \/ Goes(w, "writeWeights") /\ file' = [file EXCEPT !["weights"] = "torn"]
       \/ "writeWeights" \in Others(w) /\ LoadEnds(w, FALSE) /\ UNCHANGED file
    /\ UNCHANGED <<outside, clean>>

\* Mutant: who created the files does not load them.
CloseWeightsOnly(w) ==
    /\ At(w, "writeWeights")
    /\ LoadEnds(w, FALSE)
    /\ file' = [file EXCEPT !["weights"] = "whole"]
    /\ UNCHANGED <<outside, clean>>

\* The file is whole when the last writer has closed it.
CloseWeights(w) ==
    /\ At(w, "writeWeights")
    /\ Goes(w, "read")
    /\ file' = [file EXCEPT !["weights"] =
                  IF "writeWeights" \in Others(w) THEN "torn" ELSE "whole"]
    /\ UNCHANGED <<outside, clean>>

\* Half of a file can be neither parsed nor loaded, nor one that is being written.
ReadJson(w) ==
    /\ At(w, "read")
    /\ \/ file["json"] = "whole" /\ Goes(w, "load")
       \/ (file["json"] # "whole" \/ "writeJson" \in Others(w)) /\ LoadEnds(w, FALSE)
    /\ UNCHANGED <<outside, file, clean>>

LoadWeights(w) ==
    /\ At(w, "load")
    /\ LoadEnds(w, file["weights"] = "whole")
    /\ UNCHANGED <<outside, file, clean>>

\* Anything else on the way fails: the directory, the training, a file that cannot be
\* opened, written or read.  The model is not made or not loaded, and what is
\* in the files by then stays there.
LoadFails(w) ==
    /\ ~calm
    /\ proc[w].at \in Loading \ {"model"}
    /\ LoadEnds(w, FALSE)
    /\ clean' = clean \ {w}
    /\ UNCHANGED <<outside, file>>

-----------------------------------------------------------------------------
(* Requests, gunicorn, and MongoDB.                                         *)

\* A request; those of the health check come all the time.
Serve(w) ==
    /\ At(w, "serve")
    /\ proc[w].served < MaxRequests
    /\ proc' = [proc EXCEPT ![w].served = @ + 1]
    /\ UNCHANGED <<outside, file, clean>>

\* A request that is analyzed, where there is no model, loads it first.
Analyze(w) ==
    /\ At(w, "serve")
    /\ proc[w].served < MaxRequests
    /\ ~proc[w].ready
    /\ proc' = [proc EXCEPT ![w].served = @ + 1, ![w].at = "model"]
    /\ Enters(w)
    /\ UNCHANGED <<outside, file>>

\* Mutant: max_requests left at gunicorn's default, which is no limit.
RecycleNever(w) ==
    /\ At(w, "serve")
    /\ proc[w].served = MaxRequests
    /\ proc' = [proc EXCEPT ![w].served = 0]
    /\ UNCHANGED <<outside, file, clean>>

\* After max_requests a worker shuts down and another one starts.
Recycle(w) ==
    /\ At(w, "serve")
    /\ proc[w].served = MaxRequests
    /\ Replace(w)
    /\ clean' = clean \ {w}
    /\ UNCHANGED <<outside, file>>

\* A worker dies, and what it was writing stays as it is.
Kill(w) ==
    /\ ~calm
    /\ Replace(w)
    /\ clean' = clean \ {w}
    /\ UNCHANGED <<outside, file>>

\* MongoDB goes down or comes back.
Outage ==
    /\ ~calm
    /\ mongoUp' = ~mongoUp
    /\ UNCHANGED <<hasTf, calm, proc, file, clean>>

\* From now on nothing fails: MongoDB and Redis answer, and only gunicorn ends workers.
CalmDown ==
    /\ ~calm /\ mongoUp
    /\ calm' = TRUE
    /\ UNCHANGED <<mongoUp, hasTf, proc, file, clean>>

\* A step of lifespan, of load_model, or of gunicorn.
Step(w) ==
    \/ Connect(w) \/ InitBeanie(w) \/ ConnectRedis(w)
    \/ Examine(w) \/ OpenJson(w) \/ CloseJson(w) \/ OpenWeights(w) \/ CloseWeights(w)
    \/ ReadJson(w) \/ LoadWeights(w)
    \/ Serve(w) \/ Recycle(w)

Next ==
    \/ \E w \in Workers : Step(w) \/ Analyze(w) \/ LoadFails(w) \/ Kill(w)
    \/ Outage \/ CalmDown

Spec == Init /\ [][Next]_vars

\* Every step of a worker ends, gunicorn replaces workers, and the health check
\* of the container sends requests.
FairSpec == Spec /\ \A w \in Workers : WF_vars(Step(w))

-----------------------------------------------------------------------------

\* A file was left half written: who was writing it is gone.
Torn ==
    \/ file["json"] = "torn" /\ \A w \in Workers : proc[w].at # "writeJson"
    \/ file["weights"] = "torn" /\ \A w \in Workers : proc[w].at # "writeWeights"

NotReady(w) == At(w, "serve") /\ hasTf /\ ~proc[w].ready

\* What the files are while a worker is in load_model and no other one is.
FilesFit(w) ==
    LET here == proc[w].at
    IN  /\ here \in {"train", "writeJson", "saved"} => file["weights"] = "none"
        /\ here = "writeJson" => file["json"] = "torn"
        /\ here \in {"saved", "writeWeights", "load"} => file["json"] = "whole"
        /\ here = "writeWeights" => file["weights"] = "torn"
        /\ here \in {"read", "load"} => file["weights"] # "none"

\* There are weights only after model.json.
JsonFirst ==
    file["json"] = "none" =>
        /\ file["weights"] = "none"
        /\ \A w \in Workers : proc[w].at \notin {"writeJson", "saved", "writeWeights"}

\* A file is torn, both are there, and no worker is about to make them anew.
TornForGood ==
    /\ Torn
    /\ "none" \notin {file["json"], file["weights"]}
    /\ \A w \in Workers : proc[w].at \notin Making

\* _platform_db is set before init_beanie has run and stays set when that raises.
Connected(w) ==
    /\ At(w, "beanie") => proc[w].platform
    /\ proc[w].platform => At(w, "beanie") \/ proc[w].beanie \/ proc[w].failed

\* The types, and the order of the files; who is in load_model undisturbed is there
\* alone, and finds the files as it takes them to be; and who was, and has no model, met
\* with a torn file that no one makes anew.
StartInv ==
    /\ TypeOK
    /\ JsonFirst
    /\ \A w \in Workers : Connected(w)
    /\ \A w \in clean :
          /\ proc[w].at \in Loading => Alone(w) /\ FilesFit(w)
          /\ NotReady(w) => TornForGood

\* health answers 200: MongoDB answers a ping, and there is a model.
Ready(w) ==
    /\ At(w, "serve")
    /\ proc[w].platform /\ mongoUp
    /\ proc[w].ready /\ file["json"] # "none"

\* A job can be taken: its document can be inserted.
Servable(w) == At(w, "serve") /\ proc[w].beanie /\ mongoUp

\* A worker that health calls ready can take jobs, unless init_beanie itself
\* raised in its process: the ping of health says nothing of Beanie.
ReadyCanServe ==
    \A w \in Workers : Ready(w) => Servable(w) \/ proc[w].failed

\* Who waits for the driver's timeout does not "continue without MongoDB": a worker
\* that is up without Beanie had an attempt that failed before it, as gunicorn kills
\* the worker in the course of five that run into that timeout.
GaveUpInTime ==
    \A w \in Workers :
        proc[w].at \in {"connect", "beanie"} \/ proc[w].beanie \/ proc[w].quick

\* spent[k] is what k attempts take that all run into the driver's timeout, the
\* waits after them included, and MaxAttempts of them outlast gunicorn's timeout.
SlowTriesOutlast(spent) ==
    /\ spent \in [0..MaxAttempts -> Nat]
    /\ spent[0] = 0
    /\ \A k \in 1..MaxAttempts : spent[k] = spent[k - 1] + SelectionTimeout + Wait(k)
    /\ spent[MaxAttempts] > WorkerTimeout

\* What an attempt that came that far has taken already: the inductive side of
\* GaveUpInTime.
NoTimeLost(spent) ==
    \A w \in Workers :
        proc[w].at \in {"connect", "beanie"} /\ ~proc[w].quick =>
            proc[w].elapsed >= spent[proc[w].attempt - 1]

\* Whichever workers raced, failed or died before it, a worker that ran load_model
\* alone and met no failure of its own has a model, also when it had to make it.  The one
\* exception is a file that some worker left half written and that no one makes
\* anew; health then answers 503.
NotReadyHasAReason ==
    \A w \in clean : NotReady(w) => TornForGood

\* Once nothing fails any more, every worker is again and again of use, the one that
\* started without MongoDB, Redis or a model included, as gunicorn replaces it
\* after so many requests; and workers that make the model at the same time do not
\* keep each other from it, nor leave half of a file.  Only one that a failure or a death
\* left half written may be in the way.
Recovers ==
    <>(calm /\ ~Torn) =>
        \A w \in Workers :
            []<>(Servable(w) /\ proc[w].redis /\ (hasTf => Ready(w)))
=============================================================================
