-------------------------- MODULE ServiceStartProofs --------------------------
(* What a worker of ServiceStart is worth once it is up, for any number of   *)
(* workers, attempts and requests, and any waits and timeouts.               *)
EXTENDS ServiceStart, TLAPS

\* A wait is a number of seconds, whatever its bound.
LEMMA WaitIsNat == ASSUME NEW a \in Nat PROVE Wait(a) \in Nat
  BY StartAssumption, SMT DEF Wait

\* The processes of the workers, as one type.
Processes == [Workers -> Process]

\* The type of a process is kept when one field gets a value of its type,
LEMMA FieldType ==
  ASSUME NEW p \in Processes, NEW w \in Workers, NEW b \in BOOLEAN,
         NEW next \in Stages, NEW n \in 1..MaxAttempts, NEW t \in Nat
  PROVE  /\ [p EXCEPT ![w].at = next] \in Processes
         /\ [p EXCEPT ![w].attempt = n] \in Processes
         /\ [p EXCEPT ![w].elapsed = t] \in Processes
         /\ [p EXCEPT ![w].quick = b] \in Processes
         /\ [p EXCEPT ![w].platform = b] \in Processes
         /\ [p EXCEPT ![w].beanie = b] \in Processes
         /\ [p EXCEPT ![w].failed = b] \in Processes
         /\ [p EXCEPT ![w].redis = b] \in Processes
         /\ [p EXCEPT ![w].ready = b] \in Processes
<1>1. [p EXCEPT ![w].at = next] \in Processes BY SMTT(30) DEF Process, Processes
<1>2. [p EXCEPT ![w].attempt = n] \in Processes BY SMTT(30) DEF Process, Processes
<1>3. [p EXCEPT ![w].elapsed = t] \in Processes BY SMTT(30) DEF Process, Processes
<1>4. [p EXCEPT ![w].quick = b] \in Processes BY SMTT(30) DEF Process, Processes
<1>5. [p EXCEPT ![w].platform = b] \in Processes BY SMTT(30) DEF Process, Processes
<1>6. [p EXCEPT ![w].beanie = b] \in Processes BY SMTT(30) DEF Process, Processes
<1>7. [p EXCEPT ![w].failed = b] \in Processes BY SMTT(30) DEF Process, Processes
<1>8. [p EXCEPT ![w].redis = b] \in Processes BY SMTT(30) DEF Process, Processes
<1>9. [p EXCEPT ![w].ready = b] \in Processes BY SMTT(30) DEF Process, Processes
<1> QED BY <1>1, <1>2, <1>3, <1>4, <1>5, <1>6, <1>7, <1>8, <1>9

\* so also when its place changes and with it a flag,
LEMMA MoveType ==
  ASSUME NEW p \in Processes, NEW w \in Workers, NEW b \in BOOLEAN,
         NEW next \in Stages
  PROVE  /\ [p EXCEPT ![w].at = next, ![w].platform = b] \in Processes
         /\ [p EXCEPT ![w].at = next, ![w].redis = b] \in Processes
         /\ [p EXCEPT ![w].at = next, ![w].ready = b] \in Processes
<1> DEFINE moved == [p EXCEPT ![w].at = next]
<1>0. 1 \in 1..MaxAttempts /\ 0 \in Nat BY StartAssumption, SMT
<1>1. moved \in Processes BY <1>0, FieldType
<1> HIDE DEF moved
<1>2. /\ [moved EXCEPT ![w].platform = b] \in Processes
      /\ [moved EXCEPT ![w].redis = b] \in Processes
      /\ [moved EXCEPT ![w].ready = b] \in Processes
  BY <1>0, <1>1, FieldType, Zenon
<1> QED BY <1>2 DEF moved

\* when an attempt fails,
LEMMA AttemptType ==
  ASSUME NEW p \in Processes, NEW w \in Workers, NEW next \in Stages,
         NEW n \in 1..MaxAttempts, NEW t \in Nat, NEW b \in BOOLEAN, NEW q \in BOOLEAN
  PROVE  [p EXCEPT ![w].at = next, ![w].attempt = n, ![w].elapsed = t,
                   ![w].failed = b, ![w].quick = q] \in Processes
<1> DEFINE moved == [p EXCEPT ![w].at = next]
           counted == [moved EXCEPT ![w].attempt = n]
           timed == [counted EXCEPT ![w].elapsed = t]
           failed == [timed EXCEPT ![w].failed = b]
<1>1. moved \in Processes BY FieldType
<1> HIDE DEF moved
<1>2. counted \in Processes BY <1>1, FieldType
<1> HIDE DEF counted
<1>3. timed \in Processes BY <1>2, FieldType
<1> HIDE DEF timed
<1>4. failed \in Processes BY <1>3, FieldType
<1> HIDE DEF failed
<1>5. [failed EXCEPT ![w].quick = q] \in Processes BY <1>4, FieldType
<1> QED BY <1>5 DEF moved, counted, timed, failed

\* and when one succeeds.
LEMMA SuccessType ==
  ASSUME NEW p \in Processes, NEW w \in Workers, NEW next \in Stages,
         NEW n \in 1..MaxAttempts, NEW t \in Nat, NEW b \in BOOLEAN, NEW q \in BOOLEAN
  PROVE  [p EXCEPT ![w].at = next, ![w].beanie = b, ![w].attempt = n, ![w].elapsed = t,
                   ![w].quick = q] \in Processes
<1> DEFINE moved == [p EXCEPT ![w].at = next]
           up == [moved EXCEPT ![w].beanie = b]
           counted == [up EXCEPT ![w].attempt = n]
           timed == [counted EXCEPT ![w].elapsed = t]
<1>1. moved \in Processes BY FieldType
<1> HIDE DEF moved
<1>2. up \in Processes BY <1>1, FieldType
<1> HIDE DEF up
<1>3. counted \in Processes BY <1>2, FieldType
<1> HIDE DEF counted
<1>4. timed \in Processes BY <1>3, FieldType
<1> HIDE DEF timed
<1>5. [timed EXCEPT ![w].quick = q] \in Processes BY <1>4, FieldType
<1> QED BY <1>5 DEF moved, up, counted, timed

\* A new process has the type of one.
LEMMA FreshType == Fresh \in Process
  BY StartAssumption, SMT DEF Fresh, Process, Stages

\* An attempt that fails changes one process only: it is replaced, tries again, or
\* goes on, and remembers whether it was init_beanie that raised.
LEMMA AttemptStep ==
  ASSUME TypeOK, NEW w \in Workers, NEW init \in BOOLEAN, AttemptFails(w, init)
  PROVE  /\ proc' \in [Workers -> Process]
         /\ \A v \in Workers \ {w} : proc'[v] = proc[v]
         /\ \/ proc'[w] = Fresh
            \/ /\ proc'[w].at \in {"connect", "redis"}
               /\ proc'[w].platform = proc[w].platform
               /\ proc'[w].beanie = proc[w].beanie
               /\ proc'[w].failed = (proc[w].failed \/ init)
<1> DEFINE attempt == proc[w].attempt
<1>1. /\ proc \in [Workers -> Process] /\ proc[w] \in Process
      /\ attempt \in 1..MaxAttempts /\ attempt \in Nat
      /\ MaxAttempts \in Nat \ {0} /\ Wait(attempt) \in Nat
  <2>1. proc \in [Workers -> Process] /\ proc[w] \in Process BY DEF TypeOK
  <2>2. attempt \in 1..MaxAttempts /\ MaxAttempts \in Nat \ {0}
    BY <2>1, StartAssumption DEF Process
  <2>3. attempt \in Nat BY <2>2, SMT
  <2> QED BY <2>1, <2>2, <2>3, WaitIsNat
<1>2. PICK lasted \in AttemptTimes :
        LET took == proc[w].elapsed + lasted + Wait(attempt)
        IN  \/ TooLong(took) /\ Replace(w)
            \/ /\ ~TooLong(took) /\ attempt < MaxAttempts
               /\ proc' = [proc EXCEPT ![w].at = "connect",
                                       ![w].attempt = attempt + 1,
                                       ![w].elapsed = took,
                                       ![w].failed = @ \/ init,
                                       ![w].quick = @ \/ lasted < SelectionTimeout]
            \/ /\ ~TooLong(took) /\ attempt = MaxAttempts
               /\ proc' = [proc EXCEPT ![w].at = "redis",
                                       ![w].attempt = 1,
                                       ![w].elapsed = 0,
                                       ![w].failed = @ \/ init,
                                       ![w].quick = @ \/ lasted < SelectionTimeout]
  BY Zenon DEF AttemptFails
<1> DEFINE took == proc[w].elapsed + lasted + Wait(attempt)
<1>3. took \in Nat
  <2>1. lasted \in Nat /\ proc[w].elapsed \in Nat BY <1>1, StartAssumption DEF Process
  <2> QED BY <1>1, <2>1, SMT
<1> HIDE DEF took
<1>4. CASE Replace(w) BY <1>1, <1>4, FreshType DEF Replace
<1> DEFINE failed == proc[w].failed \/ init
           quick == proc[w].quick \/ lasted < SelectionTimeout
<1>5. /\ failed \in BOOLEAN /\ quick \in BOOLEAN
      /\ {"connect", "redis"} \subseteq Stages /\ 0 \in Nat /\ 1 \in 1..MaxAttempts
      /\ attempt < MaxAttempts => attempt + 1 \in 1..MaxAttempts
  BY <1>1, SMT DEF Stages
<1> HIDE DEF failed, quick
<1>6. ASSUME NEW next \in Stages, NEW n \in 1..MaxAttempts, NEW t \in Nat,
             NEW b \in BOOLEAN, NEW q \in BOOLEAN,
             proc' = [proc EXCEPT ![w].at = next, ![w].attempt = n, ![w].elapsed = t,
                                  ![w].failed = b, ![w].quick = q]
      PROVE  /\ proc' \in [Workers -> Process]
             /\ \A v \in Workers \ {w} : proc'[v] = proc[v]
             /\ proc'[w].at = next
             /\ proc'[w].platform = proc[w].platform
             /\ proc'[w].beanie = proc[w].beanie
             /\ proc'[w].failed = b
  <2>1. proc \in [Workers -> Process] BY <1>1
  <2>2. proc' \in [Workers -> Process]
    <3>1. proc \in Processes BY <2>1 DEF Processes
    <3>2. proc' \in Processes BY <1>6, <3>1, AttemptType, Zenon
    <3> QED BY <3>2 DEF Processes
  <2>3. \A v \in Workers \ {w} : proc'[v] = proc[v] BY <2>1, <1>6
  <2>4. /\ proc'[w].at = next
        /\ proc'[w].platform = proc[w].platform
        /\ proc'[w].beanie = proc[w].beanie
        /\ proc'[w].failed = b
    BY <1>1, <1>6, SMTT(30) DEF Process
  <2> QED BY <2>2, <2>3, <2>4
<1>7. CASE /\ attempt < MaxAttempts
           /\ proc' = [proc EXCEPT ![w].at = "connect", ![w].attempt = attempt + 1,
                                   ![w].elapsed = took, ![w].failed = failed,
                                   ![w].quick = quick]
  BY <1>3, <1>5, <1>6, <1>7 DEF failed
<1>8. CASE proc' = [proc EXCEPT ![w].at = "redis", ![w].attempt = 1, ![w].elapsed = 0,
                                ![w].failed = failed, ![w].quick = quick]
  BY <1>5, <1>6, <1>8 DEF failed
<1> QED BY <1>2, <1>4, <1>7, <1>8 DEF took, failed, quick

\* Every step keeps the types.
LEMMA TypeStep == TypeOK /\ [Next]_vars => TypeOK'
<1> SUFFICES ASSUME TypeOK, [Next]_vars PROVE TypeOK' OBVIOUS
<1> USE StartAssumption, FreshType DEF TypeOK, outside
<1>1. ASSUME NEW w \in Workers, Connect(w) PROVE TypeOK'
  <2>1. UNCHANGED <<outside, file, clean>> BY <1>1 DEF Connect
  <2>2. proc' \in [Workers -> Process]
    <3>1. CASE ~mongoUp
      <4>1. AttemptFails(w, FALSE) BY <1>1, <3>1 DEF Connect
      <4> QED BY <4>1, AttemptStep
    <3>2. CASE mongoUp
      <4>1. "beanie" \in Stages BY DEF Stages
      <4>2. proc' = [proc EXCEPT ![w].at = "beanie", ![w].platform = TRUE]
        BY <1>1, <3>2 DEF Connect
      <4>3. proc' \in Processes BY <4>1, <4>2, MoveType, Zenon DEF Processes
      <4> QED BY <4>3 DEF Processes
    <3> QED BY <3>1, <3>2
  <2> QED BY <2>1, <2>2
<1>2. ASSUME NEW w \in Workers, InitBeanie(w) PROVE TypeOK'
  <2>1. UNCHANGED <<outside, file, clean>> BY <1>2 DEF InitBeanie
  <2>2. proc' \in [Workers -> Process]
    <3>1. CASE ~mongoUp
      <4>1. AttemptFails(w, TRUE) BY <1>2, <3>1 DEF InitBeanie
      <4> QED BY <4>1, AttemptStep
    <3>2. CASE mongoUp
      <4>1. "redis" \in Stages /\ 1 \in 1..MaxAttempts BY SMT DEF Stages
      <4>2. proc' = [proc EXCEPT ![w].at = "redis", ![w].beanie = TRUE,
                                 ![w].attempt = 1, ![w].elapsed = 0, ![w].quick = FALSE]
        BY <1>2, <3>2 DEF InitBeanie
      <4>3. 0 \in Nat /\ TRUE \in BOOLEAN /\ FALSE \in BOOLEAN OBVIOUS
      <4>4. proc \in Processes BY DEF Processes
      <4>5. proc' \in Processes BY <4>1, <4>2, <4>3, <4>4, SuccessType, Zenon
      <4> QED BY <4>5 DEF Processes
    <3> QED BY <3>1, <3>2
  <2> QED BY <2>1, <2>2
<1>3. ASSUME NEW w \in Workers, ConnectRedis(w) PROVE TypeOK'
  <2>1. PICK redisUp \in BOOLEAN :
          proc' = [proc EXCEPT ![w].at = "model", ![w].redis = redisUp]
    BY <1>3, Zenon DEF ConnectRedis
  <2>2. "model" \in Stages BY DEF Stages, Loading
  <2>3. proc' \in [Workers -> Process] BY <2>1, <2>2, MoveType DEF Processes
  <2>4. clean' \in SUBSET Workers BY <1>3, Zenon DEF ConnectRedis, Enters
  <2>5. UNCHANGED <<outside, file>> BY <1>3 DEF ConnectRedis
  <2> QED BY <2>3, <2>4, <2>5
<1>4. ASSUME NEW w \in Workers, Examine(w) PROVE TypeOK'
  BY <1>4, SMTT(30) DEF Examine, LoadEnds, At, Goes, Process, Stages, Loading, Making
<1>5. ASSUME NEW w \in Workers, OpenJson(w) PROVE TypeOK'
  BY <1>5, SMTT(30) DEF OpenJson, At, Goes, Process, Stages, Loading, Making
<1>6. ASSUME NEW w \in Workers, CloseJson(w) PROVE TypeOK'
  BY <1>6, SMTT(30) DEF CloseJson, At, Goes, Process, Stages, Loading, Making
<1>7. ASSUME NEW w \in Workers, OpenWeights(w) PROVE TypeOK'
  BY <1>7, SMTT(30)
  DEF OpenWeights, LoadEnds, At, Goes, Others, Process, Stages, Loading, Making
<1>8. ASSUME NEW w \in Workers, CloseWeights(w) PROVE TypeOK'
  BY <1>8, SMTT(30) DEF CloseWeights, At, Goes, Process, Stages, Loading, Making
<1>9. ASSUME NEW w \in Workers, ReadJson(w) PROVE TypeOK'
  BY <1>9, SMTT(30)
  DEF ReadJson, LoadEnds, At, Goes, Others, Process, Stages, Loading, Making
<1>10. ASSUME NEW w \in Workers, LoadWeights(w) PROVE TypeOK'
  <2>1. UNCHANGED <<outside, file, clean>> BY <1>10 DEF LoadWeights
  <2>2. proc' \in [Workers -> Process]
    BY <1>10, MoveType DEF LoadWeights, LoadEnds, Stages, Processes
  <2> QED BY <2>1, <2>2
<1>11. ASSUME NEW w \in Workers, Serve(w) PROVE TypeOK'
  BY <1>11, SMTT(30) DEF Serve, At, Process, Stages, Loading, Making
<1>12. ASSUME NEW w \in Workers, Recycle(w) PROVE TypeOK'
  BY <1>12, SMTT(30) DEF Recycle, Replace, At, Process, Stages, Loading, Making
<1>13. ASSUME NEW w \in Workers, Analyze(w) PROVE TypeOK'
  BY <1>13, SMTT(30) DEF Analyze, At, Enters, Process, Stages, Loading, Making
<1>14. ASSUME NEW w \in Workers, Kill(w) PROVE TypeOK'
  BY <1>14, SMTT(30) DEF Kill, Replace, Process, Stages, Loading, Making
<1>15. ASSUME NEW w \in Workers, LoadFails(w) PROVE TypeOK'
  <2>1. UNCHANGED <<outside, file>> /\ clean' \in SUBSET Workers BY <1>15 DEF LoadFails
  <2>2. proc' \in [Workers -> Process]
    BY <1>15, MoveType DEF LoadFails, LoadEnds, Stages, Processes
  <2> QED BY <2>1, <2>2
<1>16. CASE Outage BY <1>16 DEF Outage
<1>17. CASE CalmDown BY <1>17 DEF CalmDown
<1>18. CASE UNCHANGED vars BY <1>18 DEF vars
<1> QED
  BY <1>1, <1>2, <1>3, <1>4, <1>5, <1>6, <1>7, <1>8, <1>9, <1>10, <1>11, <1>12, <1>13,
     <1>14, <1>15, <1>16, <1>17, <1>18
  DEF Next, Step

\* A worker that is, after a step, neither in load_model nor up disturbs nobody.
LEMMA OutOfTheWay ==
  ASSUME StartInv, TypeOK', NEW w \in Workers, UNCHANGED <<hasTf, file>>,
         clean' \subseteq clean, proc'[w].at \notin Loading \cup {"serve"}, Connected(w)',
         \A v \in Workers \ {w} : proc'[v] = proc[v]
  PROVE  StartInv'
<1> USE DEF StartInv
<1>1. JsonFirst' BY SMTT(30) DEF JsonFirst, Loading, Making
<1>2. \A v \in Workers : Connected(v)' BY DEF Connected, At
<1>3. Torn => Torn' BY SMTT(30) DEF Torn, Loading, Making
<1>4. TornForGood => TornForGood' BY <1>3, SMTT(30) DEF TornForGood, Loading
<1>5. ASSUME NEW v \in clean'
      PROVE  /\ proc'[v].at \in Loading => Alone(v)' /\ FilesFit(v)'
             /\ NotReady(v)' => TornForGood'
  <2>1. v \in Workers /\ v \in clean BY <1>5 DEF TypeOK
  <2>2. CASE v = w BY <2>2 DEF NotReady, At
  <2>3. CASE v # w
    <3>1. proc'[v] = proc[v] BY <2>1, <2>3
    <3>2. NotReady(v)' => NotReady(v) BY <3>1 DEF NotReady, At
    <3>3. FilesFit(v) => FilesFit(v)' BY <3>1 DEF FilesFit
    <3>4. Alone(v) => Alone(v)' BY <2>1 DEF Alone
    <3> QED BY <1>4, <2>1, <3>1, <3>2, <3>3, <3>4
  <2> QED BY <2>2, <2>3
<1> QED BY <1>1, <1>2, <1>5

\* Every step keeps the invariant: the files are what the worker that reads or
\* writes them takes them for, as long as it is the only one.
LEMMA InvStep == StartInv /\ [Next]_vars => StartInv'
<1> SUFFICES ASSUME StartInv, [Next]_vars PROVE StartInv' OBVIOUS
<1>0. TypeOK /\ TypeOK' BY TypeStep DEF StartInv
<1> USE DEF StartInv, TypeOK, outside, Process, Loading, Making
<1>1. ASSUME NEW w \in Workers, Connect(w) PROVE StartInv'
  <2>1. UNCHANGED <<hasTf, file, clean>> BY <1>1 DEF Connect
  <2>2. CASE ~mongoUp
    <3>1. /\ \A v \in Workers \ {w} : proc'[v] = proc[v]
          /\ proc'[w].at \in {"connect", "redis"}
          /\ proc'[w].platform => proc'[w].beanie \/ proc'[w].failed
      <4>1. AttemptFails(w, FALSE) /\ proc[w].at = "connect"
        BY <1>1, <2>2 DEF Connect, At
      <4>2. proc[w].platform => proc[w].beanie \/ proc[w].failed
        BY <4>1 DEF Connected, At
      <4>3. Fresh.at = "connect" /\ ~Fresh.platform BY DEF Fresh
      <4> QED BY <4>1, <4>2, <4>3, AttemptStep, Zenon
    <3>2. Connected(w)' BY <3>1 DEF Connected, At
    <3> QED BY <1>0, <2>1, <3>1, <3>2, OutOfTheWay
  <2>3. CASE mongoUp
    <3>1. /\ \A v \in Workers \ {w} : proc'[v] = proc[v]
          /\ proc'[w].at = "beanie" /\ proc'[w].platform
      BY <1>0, <1>1, <2>3, SMTT(30) DEF Connect
    <3>2. Connected(w)' BY <3>1 DEF Connected, At
    <3> QED BY <1>0, <2>1, <3>1, <3>2, OutOfTheWay
  <2> QED BY <2>2, <2>3
<1>2. ASSUME NEW w \in Workers, InitBeanie(w) PROVE StartInv'
  <2>1. UNCHANGED <<hasTf, file, clean>> BY <1>2 DEF InitBeanie
  <2>2. CASE ~mongoUp
    <3>1. /\ \A v \in Workers \ {w} : proc'[v] = proc[v]
          /\ proc'[w].at \in {"connect", "redis"}
          /\ proc'[w].platform => proc'[w].failed
      <4>1. AttemptFails(w, TRUE) BY <1>2, <2>2 DEF InitBeanie
      <4>2. Fresh.at = "connect" /\ ~Fresh.platform BY DEF Fresh
      <4> QED BY <4>1, <4>2, AttemptStep, Zenon
    <3>2. Connected(w)' BY <3>1 DEF Connected, At
    <3> QED BY <1>0, <2>1, <3>1, <3>2, OutOfTheWay
  <2>3. CASE mongoUp
    <3>1. /\ \A v \in Workers \ {w} : proc'[v] = proc[v]
          /\ proc'[w].at = "redis" /\ proc'[w].beanie
      BY <1>0, <1>2, <2>3, SMTT(30) DEF InitBeanie
    <3>2. Connected(w)' BY <3>1 DEF Connected, At
    <3> QED BY <1>0, <2>1, <3>1, <3>2, OutOfTheWay
  <2> QED BY <2>2, <2>3
<1>3. ASSUME NEW w \in Workers, ConnectRedis(w) PROVE StartInv'
  <2>1. JsonFirst'
    BY <1>0, <1>3, SMTT(30) DEF JsonFirst, ConnectRedis, Enters, At
  <2>2. \A v \in Workers : Connected(v)'
    BY <1>0, <1>3, SMTT(30) DEF ConnectRedis, Enters, At, Connected
  <2>3. \A v \in clean' : proc'[v].at \in Loading => Alone(v)'
    BY <1>0, <1>3, SMTT(30) DEF ConnectRedis, Enters, At, Alone
  <2>4. \A v \in clean' : proc'[v].at \in Loading => FilesFit(v)'
    BY <1>0, <1>3, <2>3, SMTT(30)
    DEF ConnectRedis, Enters, At, Alone, FilesFit
  <2>5. \A v \in clean' : NotReady(v)' => TornForGood'
    BY <1>0, <1>3, <2>3, SMTT(30)
    DEF ConnectRedis, Enters, At, Alone, FilesFit, NotReady, Torn, TornForGood
  <2> QED BY <1>0, <2>1, <2>2, <2>3, <2>4, <2>5
<1>4. ASSUME NEW w \in Workers, Examine(w) PROVE StartInv'
  <2>1. JsonFirst'
    BY <1>0, <1>4, SMTT(30) DEF JsonFirst, Examine, LoadEnds, At, Goes
  <2>2. \A v \in Workers : Connected(v)'
    BY <1>0, <1>4, SMTT(30) DEF Examine, LoadEnds, At, Goes, Connected
  <2>3. \A v \in clean' : proc'[v].at \in Loading => Alone(v)'
    BY <1>0, <1>4, SMTT(30) DEF Examine, LoadEnds, At, Goes, Alone
  <2>4. \A v \in clean' : proc'[v].at \in Loading => FilesFit(v)'
    BY <1>0, <1>4, <2>3, SMTT(30)
    DEF Examine, LoadEnds, At, Goes, Alone, FilesFit, JsonFirst
  <2>5. \A v \in clean' : NotReady(v)' => TornForGood'
    BY <1>0, <1>4, <2>3, SMTT(30)
    DEF Examine, LoadEnds, At, Goes, Alone, FilesFit, NotReady, Torn, TornForGood
  <2> QED BY <1>0, <2>1, <2>2, <2>3, <2>4, <2>5
<1>5. ASSUME NEW w \in Workers, OpenJson(w) PROVE StartInv'
  <2>1. JsonFirst'
    BY <1>0, <1>5, SMTT(30) DEF JsonFirst, OpenJson, At, Goes
  <2>2. \A v \in Workers : Connected(v)'
    BY <1>0, <1>5, SMTT(30) DEF OpenJson, At, Goes, Connected
  <2>3. \A v \in clean' : proc'[v].at \in Loading => Alone(v)'
    BY <1>0, <1>5, SMTT(30) DEF OpenJson, At, Goes, Alone
  <2>4. \A v \in clean' : proc'[v].at \in Loading => FilesFit(v)'
    BY <1>0, <1>5, <2>3, SMTT(30) DEF OpenJson, At, Goes, Alone, FilesFit
  <2>5. \A v \in clean' : NotReady(v)' => TornForGood'
    BY <1>0, <1>5, <2>3, SMTT(30)
    DEF OpenJson, At, Goes, Alone, FilesFit, NotReady, Torn, TornForGood
  <2> QED BY <1>0, <2>1, <2>2, <2>3, <2>4, <2>5
<1>6. ASSUME NEW w \in Workers, CloseJson(w) PROVE StartInv'
  <2>1. JsonFirst'
    BY <1>0, <1>6, SMTT(30) DEF JsonFirst, CloseJson, At, Goes
  <2>2. \A v \in Workers : Connected(v)'
    BY <1>0, <1>6, SMTT(30) DEF CloseJson, At, Goes, Connected
  <2>3. \A v \in clean' : proc'[v].at \in Loading => Alone(v)'
    BY <1>0, <1>6, SMTT(30) DEF CloseJson, At, Goes, Alone
  <2>4. \A v \in clean' : proc'[v].at \in Loading => FilesFit(v)'
    BY <1>0, <1>6, <2>3, SMTT(30) DEF CloseJson, At, Goes, Alone, FilesFit
  <2>5. \A v \in clean' : NotReady(v)' => TornForGood'
    BY <1>0, <1>6, <2>3, SMTT(30)
    DEF CloseJson, At, Goes, Alone, FilesFit, NotReady, Torn, TornForGood
  <2> QED BY <1>0, <2>1, <2>2, <2>3, <2>4, <2>5
<1>7. ASSUME NEW w \in Workers, OpenWeights(w) PROVE StartInv'
  <2>1. JsonFirst'
    BY <1>0, <1>7, SMTT(30) DEF JsonFirst, OpenWeights, LoadEnds, At, Goes, Others
  <2>2. \A v \in Workers : Connected(v)'
    BY <1>0, <1>7, SMTT(30) DEF OpenWeights, LoadEnds, At, Goes, Others, Connected
  <2>3. \A v \in clean' : proc'[v].at \in Loading => Alone(v)'
    BY <1>0, <1>7, SMTT(30)
    DEF OpenWeights, LoadEnds, At, Goes, Others, Alone
  <2>4. \A v \in clean' : proc'[v].at \in Loading => FilesFit(v)'
    BY <1>0, <1>7, <2>3, SMTT(30)
    DEF OpenWeights, LoadEnds, At, Goes, Others, Alone, FilesFit
  <2>5. \A v \in clean' : NotReady(v)' => TornForGood'
    BY <1>0, <1>7, <2>3, SMTT(30)
    DEF OpenWeights, LoadEnds, At, Goes, Others, Alone, FilesFit, NotReady,
        Torn, TornForGood
  <2> QED BY <1>0, <2>1, <2>2, <2>3, <2>4, <2>5
<1>8. ASSUME NEW w \in Workers, CloseWeights(w) PROVE StartInv'
  <2>1. JsonFirst'
    BY <1>0, <1>8, SMTT(30) DEF JsonFirst, CloseWeights, At, Goes
  <2>2. \A v \in Workers : Connected(v)'
    BY <1>0, <1>8, SMTT(30) DEF CloseWeights, At, Goes, Connected
  <2>3. \A v \in clean' : proc'[v].at \in Loading => Alone(v)'
    BY <1>0, <1>8, SMTT(30) DEF CloseWeights, At, Goes, Alone
  <2>4. \A v \in clean' : proc'[v].at \in Loading => FilesFit(v)'
    BY <1>0, <1>8, <2>3, SMTT(30)
    DEF CloseWeights, At, Goes, Alone, FilesFit
  <2>5. \A v \in clean' : NotReady(v)' => TornForGood'
    BY <1>0, <1>8, <2>3, SMTT(30)
    DEF CloseWeights, At, Goes, Alone, FilesFit, NotReady, Torn, TornForGood
  <2> QED BY <1>0, <2>1, <2>2, <2>3, <2>4, <2>5
<1>9. ASSUME NEW w \in Workers, ReadJson(w) PROVE StartInv'
  <2>1. JsonFirst'
    BY <1>0, <1>9, SMTT(30) DEF JsonFirst, ReadJson, LoadEnds, At, Goes, Others
  <2>2. \A v \in Workers : Connected(v)'
    BY <1>0, <1>9, SMTT(30) DEF ReadJson, LoadEnds, At, Goes, Others, Connected
  <2>3. \A v \in clean' : proc'[v].at \in Loading => Alone(v)'
    BY <1>0, <1>9, SMTT(30) DEF ReadJson, LoadEnds, At, Goes, Others, Alone
  <2>4. \A v \in clean' : proc'[v].at \in Loading => FilesFit(v)'
    BY <1>0, <1>9, <2>3, SMTT(30)
    DEF ReadJson, LoadEnds, At, Goes, Others, Alone, FilesFit
  <2>5. \A v \in clean' : NotReady(v)' => TornForGood'
    <3>1. /\ \A v \in Workers : proc[v].at \in Making <=> proc'[v].at \in Making
          /\ \A v \in Workers : NotReady(v)' => NotReady(v) \/ v = w
      BY <1>0, <1>9, SMTT(30) DEF ReadJson, LoadEnds, At, Goes, NotReady
    <3>2. TornForGood => TornForGood'
      BY <1>0, <1>9, <3>1, SMTT(30) DEF ReadJson, LoadEnds, At, Goes, TornForGood, Torn
    <3>3. ASSUME w \in clean, NotReady(w)' PROVE TornForGood'
      <4>1. Alone(w) /\ FilesFit(w) /\ proc[w].at = "read" BY <1>9, <3>3 DEF ReadJson, At
      <4>2. \A v \in Workers : proc[v].at \notin Making BY <4>1 DEF Alone
      <4>3. "writeJson" \notin Others(w) BY <4>2 DEF Others
      <4>4. file["json"] # "whole"
        <5>1. proc'[w].at = "serve" BY <3>3 DEF NotReady, At
        <5>2. ~Goes(w, "load") BY <1>0, <5>1, SMTT(30) DEF Goes
        <5> QED BY <1>9, <5>2, <4>3 DEF ReadJson
      <4>5. file["json"] = "torn" /\ file["weights"] # "none"
        BY <4>1, <4>4 DEF FilesFit, JsonFirst
      <4> QED BY <1>9, <3>1, <4>2, <4>5 DEF ReadJson, TornForGood, Torn
    <3> QED BY <1>9, <3>1, <3>2, <3>3 DEF ReadJson
  <2> QED BY <1>0, <2>1, <2>2, <2>3, <2>4, <2>5
<1>10. ASSUME NEW w \in Workers, LoadWeights(w) PROVE StartInv'
  <2>1. JsonFirst'
    BY <1>0, <1>10, SMTT(30) DEF JsonFirst, LoadWeights, LoadEnds, At, Others
  <2>2. \A v \in Workers : Connected(v)'
    BY <1>0, <1>10, SMTT(30) DEF LoadWeights, LoadEnds, At, Others, Connected
  <2>3. \A v \in clean' : proc'[v].at \in Loading => Alone(v)'
    BY <1>0, <1>10, SMTT(30) DEF LoadWeights, LoadEnds, At, Others, Alone
  <2>4. \A v \in clean' : proc'[v].at \in Loading => FilesFit(v)'
    BY <1>0, <1>10, <2>3, SMTT(30)
    DEF LoadWeights, LoadEnds, At, Others, Alone, FilesFit
  <2>5. \A v \in clean' : NotReady(v)' => TornForGood'
    BY <1>0, <1>10, <2>3, SMTT(30)
    DEF LoadWeights, LoadEnds, At, Others, Alone, FilesFit, NotReady, Torn, TornForGood
  <2> QED BY <1>0, <2>1, <2>2, <2>3, <2>4, <2>5
<1>11. ASSUME NEW w \in Workers, Serve(w) PROVE StartInv'
  <2>1. JsonFirst'
    BY <1>0, <1>11, SMTT(30) DEF JsonFirst, Serve, At
  <2>2. \A v \in Workers : Connected(v)'
    BY <1>0, <1>11, SMTT(30) DEF Serve, At, Connected
  <2>3. \A v \in clean' : proc'[v].at \in Loading => Alone(v)'
    BY <1>0, <1>11, SMTT(30) DEF Serve, At, Alone
  <2>4. \A v \in clean' : proc'[v].at \in Loading => FilesFit(v)'
    BY <1>0, <1>11, <2>3, SMTT(30) DEF Serve, At, Alone, FilesFit
  <2>5. \A v \in clean' : NotReady(v)' => TornForGood'
    BY <1>0, <1>11, <2>3, SMTT(30)
    DEF Serve, At, Alone, FilesFit, NotReady, Torn, TornForGood
  <2> QED BY <1>0, <2>1, <2>2, <2>3, <2>4, <2>5
<1>12. ASSUME NEW w \in Workers, Recycle(w) PROVE StartInv'
  <2>1. UNCHANGED <<hasTf, file>> /\ clean' \subseteq clean BY <1>12 DEF Recycle
  <2>2. proc'[w] = Fresh /\ \A v \in Workers \ {w} : proc'[v] = proc[v]
    BY <1>0, <1>12 DEF Recycle, Replace
  <2>3. Connected(w)' BY <2>2 DEF Connected, At, Fresh
  <2> QED BY <1>0, <2>1, <2>2, <2>3, OutOfTheWay DEF Fresh
<1>13. ASSUME NEW w \in Workers, Analyze(w) PROVE StartInv'
  <2>1. JsonFirst'
    BY <1>0, <1>13, SMTT(30) DEF JsonFirst, Analyze, Enters, At
  <2>2. \A v \in Workers : Connected(v)'
    BY <1>0, <1>13, SMTT(30) DEF Analyze, Enters, At, Connected
  <2>3. \A v \in clean' : proc'[v].at \in Loading => Alone(v)'
    BY <1>0, <1>13, SMTT(30) DEF Analyze, Enters, At, Alone
  <2>4. \A v \in clean' : proc'[v].at \in Loading => FilesFit(v)'
    BY <1>0, <1>13, <2>3, SMTT(30) DEF Analyze, Enters, At, Alone, FilesFit
  <2>5. \A v \in clean' : NotReady(v)' => TornForGood'
    BY <1>0, <1>13, <2>3, SMTT(30)
    DEF Analyze, Enters, At, Alone, FilesFit, NotReady, Torn, TornForGood
  <2> QED BY <1>0, <2>1, <2>2, <2>3, <2>4, <2>5
<1>14. ASSUME NEW w \in Workers, Kill(w) PROVE StartInv'
  <2>1. UNCHANGED <<hasTf, file>> /\ clean' \subseteq clean BY <1>14 DEF Kill
  <2>2. proc'[w] = Fresh /\ \A v \in Workers \ {w} : proc'[v] = proc[v]
    BY <1>0, <1>14 DEF Kill, Replace
  <2>3. Connected(w)' BY <2>2 DEF Connected, At, Fresh
  <2> QED BY <1>0, <2>1, <2>2, <2>3, OutOfTheWay DEF Fresh
<1>15. ASSUME NEW w \in Workers, LoadFails(w) PROVE StartInv'
  <2>1. JsonFirst'
    BY <1>0, <1>15, SMTT(30) DEF JsonFirst, LoadFails, LoadEnds
  <2>2. \A v \in Workers : Connected(v)'
    BY <1>0, <1>15, SMTT(30) DEF LoadFails, LoadEnds, At, Connected
  <2>3. \A v \in clean' : proc'[v].at \in Loading => Alone(v)'
    BY <1>0, <1>15, SMTT(30) DEF LoadFails, LoadEnds, Alone
  <2>4. \A v \in clean' : proc'[v].at \in Loading => FilesFit(v)'
    BY <1>0, <1>15, <2>3, SMTT(30) DEF LoadFails, LoadEnds, Alone, FilesFit
  <2>5. \A v \in clean' : NotReady(v)' => TornForGood'
    BY <1>0, <1>15, <2>3, SMTT(30)
    DEF LoadFails, LoadEnds, At, Alone, NotReady, Torn, TornForGood
  <2> QED BY <1>0, <2>1, <2>2, <2>3, <2>4, <2>5
<1>16. CASE Outage
  BY <1>0, <1>16
  DEF Outage, JsonFirst, Connected, Alone, FilesFit, NotReady, Torn, TornForGood, At
<1>17. CASE CalmDown
  BY <1>0, <1>17
  DEF CalmDown, JsonFirst, Connected, Alone, FilesFit, NotReady, Torn, TornForGood, At
<1>18. CASE UNCHANGED vars
  BY <1>0, <1>18
  DEF vars, JsonFirst, Connected, Alone, FilesFit, NotReady, Torn, TornForGood, At
<1> QED
  BY <1>1, <1>2, <1>3, <1>4, <1>5, <1>6, <1>7, <1>8, <1>9, <1>10, <1>11, <1>12, <1>13,
     <1>14, <1>15, <1>16, <1>17, <1>18
  DEF Next, Step

\* Before anything has happened nothing is loaded and no file is there.
LEMMA InvInit == Init => StartInv
<1> SUFFICES ASSUME Init PROVE StartInv OBVIOUS
<1>1. TypeOK
  <2>1. {mongoUp, hasTf, calm} \subseteq BOOLEAN /\ clean = {} BY Zenon DEF Init
  <2>2. proc \in [Workers -> Process] BY FreshType DEF Init
  <2>3. file \in [{"json", "weights"} -> {"none", "torn", "whole"}] BY DEF Init
  <2> QED BY <2>1, <2>2, <2>3 DEF TypeOK
<1>2. \A w \in Workers :
        proc[w] = Fresh /\ proc[w].at = "connect" /\ proc[w].platform = FALSE
  BY DEF Init, Fresh
<1>3. file["json"] = "none" /\ file["weights"] = "none" /\ clean = {} BY DEF Init
<1> QED
  BY <1>1, <1>2, <1>3, SMTT(30) DEF StartInv, JsonFirst, Connected, At

\* The order of lifespan, init_mongodb and load_model, and the files of the model,
\* are as StartInv says in every reachable state.
THEOREM StartInvariant == Spec => []StartInv
<1>1. StartInv /\ [Next]_vars => StartInv' BY InvStep
<1> QED BY InvInit, <1>1, PTL DEF Spec

\* A worker that health calls ready has Beanie, or init_beanie raised in it.
THEOREM StartReadyCanServe == Spec => []ReadyCanServe
<1>1. StartInv => ReadyCanServe
  BY DEF StartInv, Connected, ReadyCanServe, Ready, Servable, At
<1> QED BY StartInvariant, <1>1, PTL

\* A worker that ran load_model alone and met no failure has a model, whatever happened
\* to the others and before it, unless a file was left half written for good.
THEOREM StartNotReady == Spec => []NotReadyHasAReason
<1>1. StartInv => NotReadyHasAReason
  BY DEF StartInv, NotReadyHasAReason
<1> QED BY StartInvariant, <1>1, PTL

\* An attempt that fails leaves the time it took on the clock of its process, and
\* the last one, had all run into the driver's timeout, would end after gunicorn's.
LEMMA AttemptCounts ==
  ASSUME NEW spent, SlowTriesOutlast(spent), StartInv, NoTimeLost(spent),
         NEW w \in Workers, proc[w].at \in {"connect", "beanie"},
         NEW init \in BOOLEAN, AttemptFails(w, init)
  PROVE  /\ proc' \in [Workers -> Process] => NoTimeLost(spent)'
         /\ proc'[w].at \in {"connect", "beanie"} \/ proc'[w].quick
<1> DEFINE attempt == proc[w].attempt
<1>1. /\ proc \in [Workers -> Process]
      /\ attempt \in 1..MaxAttempts /\ attempt \in Nat /\ attempt - 1 \in 0..MaxAttempts
      /\ proc[w].elapsed \in Nat /\ Wait(attempt) \in Nat /\ spent[attempt - 1] \in Nat
      /\ spent[attempt] \in Nat /\ MaxAttempts \in Nat \ {0}
      /\ SelectionTimeout \in Nat /\ WorkerTimeout \in Nat
  <2>1. proc \in [Workers -> Process] BY DEF StartInv, TypeOK
  <2>2. attempt \in 1..MaxAttempts /\ proc[w].elapsed \in Nat BY <2>1 DEF Process
  <2>3. MaxAttempts \in Nat \ {0} /\ SelectionTimeout \in Nat /\ WorkerTimeout \in Nat
    BY StartAssumption
  <2>4. attempt \in Nat /\ attempt \in 0..MaxAttempts /\ attempt - 1 \in 0..MaxAttempts
    BY <2>2, <2>3, SMT
  <2>5. Wait(attempt) \in Nat BY <2>4, WaitIsNat
  <2>6. spent[attempt - 1] \in Nat /\ spent[attempt] \in Nat
    BY <2>4 DEF SlowTriesOutlast
  <2> QED BY <2>1, <2>2, <2>3, <2>4, <2>5, <2>6
<1>2. spent[attempt] = spent[attempt - 1] + SelectionTimeout + Wait(attempt)
  BY <1>1 DEF SlowTriesOutlast
<1>3. /\ spent[0] = 0 /\ spent[MaxAttempts] > WorkerTimeout
      /\ ~proc[w].quick => proc[w].elapsed >= spent[attempt - 1]
  BY DEF SlowTriesOutlast, NoTimeLost
<1>4. \A v \in Workers \ {w} : proc'[v] = proc[v]
  BY <1>1, SMTT(30) DEF AttemptFails, TooLong, Replace
<1>5. PICK lasted \in AttemptTimes :
        LET took == proc[w].elapsed + lasted + Wait(attempt)
        IN  \/ TooLong(took) /\ proc'[w] = Fresh
            \/ /\ ~TooLong(took) /\ attempt < MaxAttempts
               /\ proc'[w].at = "connect" /\ proc'[w].attempt = attempt + 1
               /\ proc'[w].elapsed = took
               /\ proc'[w].quick = (proc[w].quick \/ lasted < SelectionTimeout)
            \/ /\ ~TooLong(took) /\ attempt = MaxAttempts
               /\ proc'[w].at = "redis"
               /\ proc'[w].quick = (proc[w].quick \/ lasted < SelectionTimeout)
  <2>1. PICK lasted \in AttemptTimes :
          LET took == proc[w].elapsed + lasted + Wait(attempt)
          IN  \/ TooLong(took) /\ Replace(w)
              \/ /\ ~TooLong(took) /\ attempt < MaxAttempts
                 /\ proc' = [proc EXCEPT ![w].at = "connect",
                                         ![w].attempt = attempt + 1,
                                         ![w].elapsed = took,
                                         ![w].failed = @ \/ init,
                                         ![w].quick = @ \/ lasted < SelectionTimeout]
              \/ /\ ~TooLong(took) /\ attempt = MaxAttempts
                 /\ proc' = [proc EXCEPT ![w].at = "redis",
                                         ![w].attempt = 1,
                                         ![w].elapsed = 0,
                                         ![w].failed = @ \/ init,
                                         ![w].quick = @ \/ lasted < SelectionTimeout]
    BY Zenon DEF AttemptFails
  <2> DEFINE took == proc[w].elapsed + lasted + Wait(attempt)
  <2>2. took \in Nat BY <1>1, StartAssumption, SMT
  <2>3. proc[w] \in Process BY <1>1
  <2> HIDE DEF took
  <2>4. CASE TooLong(took) /\ Replace(w)
    <3>1. proc'[w] = Fresh BY <1>1, <2>4 DEF Replace
    <3> QED BY <2>4, <3>1 DEF took
  <2>5. CASE /\ ~TooLong(took) /\ attempt < MaxAttempts
             /\ proc' = [proc EXCEPT ![w].at = "connect", ![w].attempt = attempt + 1,
                                     ![w].elapsed = took, ![w].failed = @ \/ init,
                                     ![w].quick = @ \/ lasted < SelectionTimeout]
    <3>1. /\ proc'[w].at = "connect" /\ proc'[w].attempt = attempt + 1
          /\ proc'[w].elapsed = took
          /\ proc'[w].quick = (proc[w].quick \/ lasted < SelectionTimeout)
      BY <1>1, <2>3, <2>5, SMTT(30) DEF Process
    <3> QED BY <2>5, <3>1 DEF took
  <2>6. CASE /\ ~TooLong(took) /\ attempt = MaxAttempts
             /\ proc' = [proc EXCEPT ![w].at = "redis", ![w].attempt = 1,
                                     ![w].elapsed = 0, ![w].failed = @ \/ init,
                                     ![w].quick = @ \/ lasted < SelectionTimeout]
    <3>1. /\ proc'[w].at = "redis"
          /\ proc'[w].quick = (proc[w].quick \/ lasted < SelectionTimeout)
      BY <1>1, <2>3, <2>6, SMTT(30) DEF Process
    <3> QED BY <2>6, <3>1 DEF took
  <2> QED BY <2>1, <2>4, <2>5, <2>6 DEF took
<1> DEFINE took == proc[w].elapsed + lasted + Wait(attempt)
<1>6. ~(lasted < SelectionTimeout) /\ ~proc[w].quick => took >= spent[attempt]
  <2>1. lasted \in Nat BY <1>5, StartAssumption
  <2> QED BY <1>1, <1>2, <1>3, <2>1, SMT
<1>7. proc'[w].at \in {"connect", "beanie"} /\ ~proc'[w].quick =>
        proc'[w].elapsed >= spent[proc'[w].attempt - 1]
  <2>1. CASE proc'[w] = Fresh BY <1>3, <2>1, SMT DEF Fresh
  <2>2. CASE /\ proc'[w].attempt = attempt + 1 /\ proc'[w].elapsed = took
             /\ proc'[w].quick = (proc[w].quick \/ lasted < SelectionTimeout)
    <3>1. proc'[w].attempt - 1 = attempt BY <1>1, <2>2, SMT
    <3> QED BY <1>6, <2>2, <3>1
  <2> QED BY <1>5, <2>1, <2>2
<1>8. proc' \in [Workers -> Process] => NoTimeLost(spent)'
  BY <1>4, <1>7, Zenon DEF NoTimeLost
<1>9. proc'[w].at \in {"connect", "beanie"} \/ proc'[w].quick
  <2>1. CASE proc'[w] = Fresh BY <2>1 DEF Fresh
  <2>3. lasted \in Nat BY <1>5, StartAssumption
  <2>2. CASE /\ ~TooLong(took) /\ attempt = MaxAttempts
             /\ ~(lasted < SelectionTimeout) /\ ~proc[w].quick
    BY <1>1, <1>3, <1>6, <2>2, <2>3, SMT DEF TooLong
  <2> QED BY <1>5, <2>1, <2>2
<1> QED BY <1>8, <1>9

\* Every step keeps count of the time and gives up only after an attempt that
\* failed before the driver's timeout.
LEMMA TimeStep ==
  ASSUME NEW spent, SlowTriesOutlast(spent), StartInv, NoTimeLost(spent), GaveUpInTime,
         [Next]_vars
  PROVE  NoTimeLost(spent)' /\ GaveUpInTime'
<1>1. /\ proc \in [Workers -> Process] /\ proc' \in [Workers -> Process]
      /\ spent[0] = 0 /\ Fresh.elapsed = 0 /\ Fresh.attempt - 1 = 0
  BY TypeStep, SMT DEF StartInv, TypeOK, SlowTriesOutlast, Fresh
<1>2. ASSUME NEW w \in Workers, Connect(w) \/ InitBeanie(w), ~mongoUp
      PROVE  NoTimeLost(spent)' /\ GaveUpInTime'
  <2>1. /\ proc[w].at \in {"connect", "beanie"}
        /\ \E init \in BOOLEAN : AttemptFails(w, init)
    BY <1>2 DEF Connect, InitBeanie, At
  <2>2. /\ NoTimeLost(spent)'
        /\ proc'[w].at \in {"connect", "beanie"} \/ proc'[w].quick
    BY <1>1, <2>1, AttemptCounts
  <2>3. \A v \in Workers \ {w} : proc'[v] = proc[v]
    BY <1>1, <2>1, SMTT(30) DEF AttemptFails, TooLong, Replace
  <2> QED BY <2>2, <2>3, Zenon DEF GaveUpInTime
<1>3. ASSUME NEW w \in Workers, Connect(w) \/ InitBeanie(w), mongoUp
      PROVE  NoTimeLost(spent)' /\ GaveUpInTime'
  BY <1>1, <1>3, SMTT(30) DEF Connect, InitBeanie, At, NoTimeLost, GaveUpInTime, Process
<1>4. ASSUME NEW w \in Workers, Replace(w) PROVE NoTimeLost(spent)' /\ GaveUpInTime'
  <2>1. proc'[w] = Fresh /\ \A v \in Workers \ {w} : proc'[v] = proc[v]
    BY <1>1, <1>4 DEF Replace
  <2>2. Fresh.at = "connect" BY DEF Fresh
  <2>3. Fresh.elapsed >= spent[Fresh.attempt - 1] BY <1>1, SMT
  <2> QED BY <2>1, <2>2, <2>3, Zenon DEF NoTimeLost, GaveUpInTime
<1>5. ASSUME NEW w \in Workers, proc[w].at \notin {"connect", "beanie"},
             proc'[w].at \notin {"connect", "beanie"},
             proc'[w].beanie = proc[w].beanie, proc'[w].quick = proc[w].quick,
             \A v \in Workers \ {w} : proc'[v] = proc[v]
      PROVE  NoTimeLost(spent)' /\ GaveUpInTime'
  BY <1>5, Zenon DEF NoTimeLost, GaveUpInTime
<1>6. ASSUME NEW w \in Workers,
             \/ ConnectRedis(w) \/ Examine(w) \/ OpenJson(w) \/ CloseJson(w)
             \/ OpenWeights(w) \/ CloseWeights(w) \/ ReadJson(w) \/ LoadWeights(w)
             \/ LoadFails(w) \/ Serve(w) \/ Analyze(w)
      PROVE  NoTimeLost(spent)' /\ GaveUpInTime'
  <2>1. /\ proc[w].at \notin {"connect", "beanie"}
        /\ proc'[w].at \notin {"connect", "beanie"}
        /\ proc'[w].beanie = proc[w].beanie /\ proc'[w].quick = proc[w].quick
        /\ \A v \in Workers \ {w} : proc'[v] = proc[v]
    BY <1>1, <1>6, SMTT(30)
    DEF ConnectRedis, Examine, OpenJson, CloseJson, OpenWeights, CloseWeights, ReadJson,
        LoadWeights, LoadFails, Serve, Analyze, LoadEnds, Goes, At, Loading, Making, Process
  <2> QED BY <1>5, <2>1
<1>7. CASE UNCHANGED proc BY <1>7, Zenon DEF NoTimeLost, GaveUpInTime
<1> QED
  BY <1>2, <1>3, <1>4, <1>6, <1>7 DEF Next, Step, Recycle, Kill, Outage, CalmDown, vars

\* As long as the waits are such that MaxAttempts attempts that all run into the
\* driver's timeout take longer than gunicorn allows a worker without a sign of
\* life, whatever these numbers are, a worker that is up without Beanie had an
\* attempt that failed before that timeout.
THEOREM StartGaveUpInTime ==
  ASSUME NEW CONSTANT spent, SlowTriesOutlast(spent)
  PROVE  Spec => []GaveUpInTime
<1>1. Init => NoTimeLost(spent) /\ GaveUpInTime
  BY SMTT(30) DEF Init, Fresh, SlowTriesOutlast, NoTimeLost, GaveUpInTime
<1>2. StartInv /\ (NoTimeLost(spent) /\ GaveUpInTime) /\ [Next]_vars =>
        (NoTimeLost(spent) /\ GaveUpInTime)'
  BY TimeStep
<1> QED BY StartInvariant, <1>1, <1>2, PTL DEF Spec
=============================================================================
