--------------------------- MODULE JobClientsProofs ---------------------------
(* What JobClients promises the clients of one key, for any number of them,  *)
(* any limits and any window: one limit per bucket, and the outcome in time. *)
EXTENDS JobClients, FiniteSetTheorems, TLAPS

\* A POST of a job and a poll for it are counted against the same limit.
LEMMA LimitsOfJobs == LimitFor(PostPath) = JobsLimit /\ LimitFor(PollPath) = JobsLimit
<1>1. Len(PostPath) = 3 BY DEF PostPath
<1>2. Len(PollPath) = 4 BY DEF PollPath
<1>3. IsPrefix(PostPath, PostPath) BY <1>1 DEF IsPrefix
<1>4. SubSeq(PostPath, 1, 3) = SubSeq(PollPath, 1, 3) BY DEF PostPath, PollPath
<1>5. IsPrefix(PostPath, PollPath) BY <1>1, <1>2, <1>4, SMT DEF IsPrefix
<1> QED BY <1>3, <1>5 DEF LimitFor

\* Every request of a client is held to the limit of the jobs.
LEMMA LimitOfClient == \A c \in Clients : LimitFor(PathOf(c)) = JobsLimit
BY LimitsOfJobs DEF PathOf

\* No route but those of the jobs falls in the bucket of the jobs.
LEMMA BucketOfJobs ==
  /\ Bucket(PostPath) = "jobs" /\ Bucket(PollPath) = "jobs"
  /\ \A path \in Routes : Bucket(path) = "jobs" => LimitFor(path) = JobsLimit
<1>1. Bucket(PostPath) = "jobs" /\ Bucket(PollPath) = "jobs"
  BY DEF PostPath, PollPath, Bucket
<1>2. ASSUME NEW path \in Routes, Bucket(path) = "jobs"
      PROVE  path = PostPath \/ path = PollPath
  <2>1. Bucket(<<>>) = "default" BY DEF Bucket
  <2>2. Bucket(<<"api", "accounting", "taxes", "business_id", "year">>) = "taxes"
    BY DEF Bucket
  <2>3. /\ Bucket(<<"api", "metrics">>) = "default"
        /\ Bucket(<<"api", "alerts">>) = "default"
        /\ Bucket(<<"api", "health">>) = "default"
    BY DEF Bucket
  <2> QED BY <1>2, <2>1, <2>2, <2>3 DEF Routes
<1> QED BY <1>1, <1>2, LimitsOfJobs

\* The requests of the clients are held to the one limit of their bucket, whatever
\* they ask for,
LEMMA OneLimit == OneLimitPerBucket
BY BucketOfJobs, LimitsOfJobs DEF OneLimitPerBucket, PathOf

\* also after a step.
LEMMA OneLimitNext == OneLimitPerBucket'
<1>1. \A c \in Clients : PathOf(c)' \in {PostPath, PollPath}
  BY DEF PathOf, PostPath, PollPath
<1> QED
  BY <1>1, BucketOfJobs, LimitsOfJobs
  DEF OneLimitPerBucket, Bucket, LimitFor, Excluded, PostPath, PollPath, Routes

\* Limits and times are numbers, and small ones are times.
Numbers == /\ JobsLimit \in Nat \ {0} /\ Window \in Nat \ {0}
           /\ Pause \in 1..(Window - 1) /\ Second < 2 * Pause /\ Second \in Nat
           /\ 0 \in 0..(Window + Pause) /\ Pause \in 0..(Window + Pause)
           /\ 0 \in 0..(2 * Window + Pause)
           /\ \A told \in Told(ttl) : Most(told, Pause) \in 0..(Window + Pause)

\* They are, whatever the time left is.
LEMMA NumberFacts == TypeOK => Numbers
<1> SUFFICES ASSUME TypeOK PROVE Numbers OBVIOUS
<1>1. /\ JobsLimit \in Nat \ {0} /\ Window \in Nat \ {0} /\ Second \in Nat \ {0}
      /\ Pause \in 1..(Window - 1) /\ Second < 2 * Pause /\ ttl \in 0..Window
  BY ClientAssumption, SecondAssumption DEF TypeOK
<1>2. ASSUME NEW told \in Told(ttl) PROVE Most(told, Pause) \in 0..(Window + Pause)
  <2>1. told \in Nat /\ 2 * told <= 2 * ttl + Second BY <1>1, <1>2, SMT DEF Told
  <2> QED BY <1>1, <2>1, SMT DEF Most
<1> QED BY <1>1, <1>2, SMT DEF Numbers

\* An answer keeps the types of what the client knows.
LEMMA AnswerType ==
  ASSUME TypeOK, NEW c \in Clients, NEW next \in Phases, Answer(c, next)
  PROVE  /\ verdict' \in [Clients -> {"none", "pass", "refuse"}]
         /\ phase' \in [Clients -> Phases]
         /\ rest' \in [Clients -> 0..(Window + Pause)]
         /\ UNCHANGED <<redis, late>>
<1>1. Numbers BY NumberFacts
<1>2. verdict' \in [Clients -> {"none", "pass", "refuse"}] BY DEF Answer, TypeOK
<1>3. phase' \in [Clients -> Phases] BY DEF Answer, TypeOK
<1>4. rest' \in [Clients -> 0..(Window + Pause)]
  <2>1. \E wait \in 0..(Window + Pause) : rest' = [rest EXCEPT ![c] = wait]
    BY <1>1 DEF Answer, Numbers
  <2> QED BY <2>1 DEF TypeOK
<1> QED BY <1>2, <1>3, <1>4 DEF Answer

\* Every step keeps the types.
LEMMA TypeStep == TypeOK /\ [Next]_vars => TypeOK'
<1> SUFFICES ASSUME TypeOK, [Next]_vars PROVE TypeOK' OBVIOUS
<1>0. Numbers BY NumberFacts
<1> USE DEF TypeOK, redis
<1>1. ASSUME NEW c \in Clients, Ask(c) PROVE TypeOK'
  <2>1. phase' \in [Clients -> Phases] BY <1>1 DEF Ask, Phases, Asking
  <2>2. late' = late \/ late' = [d \in Clients |-> 0]
    <3>1. CASE Few' BY <1>1, <3>1 DEF Ask
    <3>2. CASE ~Few' BY <1>1, <3>2 DEF Ask
    <3> QED BY <3>1, <3>2
  <2>3. late' \in [Clients -> 0..(2 * Window + Pause)] BY <1>0, <2>2 DEF Numbers
  <2> QED BY <1>1, <2>1, <2>3 DEF Ask
<1>2. ASSUME NEW c \in Clients, Check(c) PROVE TypeOK'
  <2>1. Incr(JobsLimit) \/ UNCHANGED redis BY <1>2, LimitOfClient DEF Check
  <2>2. counter' \in 0..(JobsLimit + 1) /\ ttl' \in 0..Window /\ (counter' = 0 <=> ttl' = 0)
    <3>1. CASE Incr(JobsLimit) BY <1>0, <3>1, SMT DEF Incr, Least, Numbers
    <3> QED BY <2>1, <3>1
  <2>3. verdict' \in [Clients -> {"none", "pass", "refuse"}] BY <1>2, Zenon DEF Check
  <2> QED BY <1>2, <2>2, <2>3 DEF Check
<1>4. ASSUME NEW c \in Clients, Post(c) PROVE TypeOK'
  <2>1. record' = record \/ record' = [record EXCEPT ![c] = "pending"]
    BY <1>4, Zenon DEF Post
  <2>2. record' \in [Clients -> {"none", "pending", "processing"} \cup Over]
    BY <2>1
  <2>3. \E next \in Phases : Answer(c, next)
    BY <1>4, Zenon DEF Post, Phases, Asking
  <2> QED BY <2>2, <2>3, AnswerType
<1>5. ASSUME NEW c \in Clients, Poll(c) PROVE TypeOK'
  <2>1. \E next \in Phases : Answer(c, next)
    <3>1. CASE record[c] = "completed" BY <1>5, <3>1 DEF Poll, Phases
    <3>2. CASE record[c] = "failed" BY <1>5, <3>2 DEF Poll, Phases
    <3>3. CASE record[c] # "completed" /\ record[c] # "failed"
      BY <1>5, <3>3 DEF Poll, Phases, Asking
    <3> QED BY <3>1, <3>2, <3>3
  <2> QED BY <1>5, <2>1, AnswerType DEF Poll
<1>6. ASSUME NEW c \in Clients, Run(c) PROVE TypeOK'
  <2>1. \E status \in {"processing"} \cup Over : record' = [record EXCEPT ![c] = status]
    BY <1>6, Zenon DEF Run
  <2> QED BY <1>6, <2>1 DEF Run
<1>7. CASE Tick
  <2>1. counter' \in 0..(JobsLimit + 1) /\ ttl' \in 0..Window /\ (counter' = 0 <=> ttl' = 0)
    BY <1>0, <1>7, SMT DEF Tick, Most, Numbers
  <2>2. rest' \in [Clients -> 0..(Window + Pause)]
    <3>1. \A d \in Clients : Most(rest[d] - 1, 0) \in 0..(Window + Pause)
      BY <1>0, SMT DEF Most, Numbers
    <3> QED BY <1>7, <3>1, Zenon DEF Tick
  <2>3. late' \in [Clients -> 0..(2 * Window + Pause)]
    <3> DEFINE cap == 2 * Window + Pause
    <3>1. \A d \in Clients : Least(late[d] + 1, cap) \in 0..cap
      BY <1>0, SMT DEF Least, Numbers
    <3>2. \A d \in Clients : late'[d] \in {Least(late[d] + 1, cap), 0}
      BY <1>7, Zenon DEF Tick
    <3>3. late' = [d \in Clients |-> late'[d]] BY <1>7, Zenon DEF Tick
    <3>4. \A d \in Clients : late'[d] \in 0..cap
      BY <1>0, <3>1, <3>2, Zenon DEF Numbers
    <3> QED BY <3>3, <3>4, Zenon
  <2> QED BY <1>7, <2>1, <2>2, <2>3 DEF Tick
<1>8. CASE UNCHANGED vars BY <1>8 DEF vars
<1> QED
  BY <1>1, <1>2, <1>4, <1>5, <1>6, <1>7, <1>8 DEF Next, Serve

\* Clients come and do not go: who has been few has always been few.
LEMMA CameStep == TypeOK /\ [Next]_vars => Came \subseteq Came' /\ (Few' => Few)
<1> SUFFICES ASSUME TypeOK, [Next]_vars PROVE Came \subseteq Came' /\ (Few' => Few) OBVIOUS
<1>1. \A d \in Clients : phase[d] # "idle" => phase'[d] # "idle"
  <2>1. ASSUME NEW c \in Clients, NEW next, next # "idle", Answer(c, next)
        PROVE  \A d \in Clients : phase[d] # "idle" => phase'[d] # "idle"
    BY <2>1, SMT DEF Answer, TypeOK
  <2>2. ASSUME NEW c \in Clients, Post(c)
        PROVE  \E next : next # "idle" /\ Answer(c, next)
    BY <2>2 DEF Post
  <2>3. ASSUME NEW c \in Clients, Poll(c)
        PROVE  \E next : next # "idle" /\ Answer(c, next)
    <3>1. CASE record[c] = "completed" BY <2>3, <3>1 DEF Poll
    <3>2. CASE record[c] = "failed" BY <2>3, <3>2 DEF Poll
    <3>3. CASE record[c] # "completed" /\ record[c] # "failed" BY <2>3, <3>3 DEF Poll
    <3> QED BY <3>1, <3>2, <3>3
  <2>4. ASSUME NEW c \in Clients, Ask(c)
        PROVE  \A d \in Clients : phase[d] # "idle" => phase'[d] # "idle"
    BY <2>4, SMT DEF Ask, TypeOK
  <2> QED
    BY <2>1, <2>2, <2>3, <2>4, Zenon DEF Next, Serve, vars, Check, Run, Tick
<1>2. Came \subseteq Came' BY <1>1 DEF Came
<1>3. IsFiniteSet(Came') BY ClientAssumption, FS_Subset DEF Came
<1>4. Cardinality(Came) <= Cardinality(Came') BY <1>2, <1>3, FS_Subset
<1>5. Cardinality(Came) \in Nat /\ Cardinality(Came') \in Nat /\ JobsLimit \in Nat
  BY <1>2, <1>3, FS_Subset, FS_CardinalityType, ClientAssumption
<1> QED BY <1>2, <1>4, <1>5 DEF Few

\* All steps but that of a client who begins leave the clients that came as they are.
LEMMA SameCame ==
  ASSUME TypeOK, NEW c \in Clients, Check(c) \/ Post(c) \/ Poll(c) \/ Run(c) \/ Tick
  PROVE  Came' = Came /\ (Few' <=> Few)
<1>1. ASSUME NEW next, next # "idle", Answer(c, next), phase[c] # "idle"
      PROVE  \A d \in Clients : phase[d] # "idle" <=> phase'[d] # "idle"
  BY <1>1, SMT DEF Answer, TypeOK
<1>2. ASSUME Post(c)
      PROVE  phase[c] # "idle" /\ \E next : next # "idle" /\ Answer(c, next)
  BY <1>2 DEF Post
<1>3. ASSUME Poll(c)
      PROVE  phase[c] # "idle" /\ \E next : next # "idle" /\ Answer(c, next)
  <2>1. CASE record[c] = "completed" BY <1>3, <2>1 DEF Poll
  <2>2. CASE record[c] = "failed" BY <1>3, <2>2 DEF Poll
  <2>3. CASE record[c] # "completed" /\ record[c] # "failed" BY <1>3, <2>3 DEF Poll
  <2> QED BY <2>1, <2>2, <2>3
<1>4. \A d \in Clients : phase[d] # "idle" <=> phase'[d] # "idle"
  BY <1>1, <1>2, <1>3, Zenon DEF Check, Run, Tick
<1>5. Came' = Came BY <1>4 DEF Came
<1> QED BY <1>5 DEF Few

\* Sets of clients are finite, and those counted are among those that came.
LEMMA Sets ==
  /\ IsFiniteSet(Came) /\ Cardinality(Came) \in Nat
  /\ IsFiniteSet(Counted) /\ Cardinality(Counted) \in Nat
<1>1. Came \subseteq Clients /\ Counted \subseteq Clients BY DEF Came, Counted
<1>2. IsFiniteSet(Came) /\ IsFiniteSet(Counted) BY <1>1, FS_Subset, ClientAssumption
<1> QED BY <1>2, FS_CardinalityType

\* How long c still waits, by what it wants.
LEMMA AheadIs ==
  ASSUME NEW c \in Clients
  PROVE  /\ phase[c] = "job" => Ahead(c) = Until(c) + Window + Pause - 1
         /\ phase[c] = "result" => Ahead(c) = Until(c)
         /\ phase[c] \notin Asking => Ahead(c) = 0
<1>1. CASE phase[c] = "job" BY <1>1 DEF Ahead, Asking
<1>2. CASE phase[c] # "job" BY <1>2 DEF Ahead, Asking
<1> QED BY <1>1, <1>2

\* The same after a step.
LEMMA AheadIsNext ==
  ASSUME NEW c \in Clients
  PROVE  /\ phase'[c] = "job" => Ahead(c)' = Until(c)' + Window + Pause - 1
         /\ phase'[c] = "result" => Ahead(c)' = Until(c)'
         /\ phase'[c] \notin Asking => Ahead(c)' = 0
<1>1. CASE phase'[c] = "job" BY <1>1 DEF Ahead, Asking
<1>2. CASE phase'[c] # "job" BY <1>2 DEF Ahead, Asking
<1> QED BY <1>1, <1>2

\* What is known of one client, as numbers and strings.
LEMMA ClientType ==
  ASSUME TypeOK, NEW c \in Clients
  PROVE  /\ rest[c] \in Nat /\ late[c] \in Nat
         /\ phase[c] \in Phases /\ verdict[c] \in {"none", "pass", "refuse"}
         /\ record[c] \in {"none", "pending", "processing"} \cup Over
         /\ ttl \in Nat /\ ttl <= Window /\ counter \in Nat
         /\ Window \in Nat /\ Window > 0 /\ JobsLimit \in Nat /\ JobsLimit > 0
         /\ Pause \in Nat /\ Pause > 0 /\ Pause < Window
         /\ Second \in Nat /\ Second < 2 * Pause
BY ClientAssumption, SecondAssumption, SMT DEF TypeOK

\* What is ahead is a number.
LEMMA AheadType == ASSUME TypeOK, NEW c \in Clients PROVE Until(c) \in Nat /\ Ahead(c) \in Nat
<1>1. Until(c) \in Nat BY ClientType, SMT DEF Until, Left
<1> QED BY <1>1, AheadIs, ClientType, SMT DEF Phases, Asking

\* What ClientsInv says of one client while the clients are few.
WaitInv(c) == RestInv(c) /\ LateInv(c)

\* Who asks for the first time in a window that has just begun is not refused, as long
\* as the clients are few: one of them has not asked yet.
LEMMA CheckBegins ==
  ASSUME TypeOK, Few, BeginInv, NEW c \in Clients, Check(c)
  PROVE  /\ BeginInv'
         /\ ttl' = ttl \/ (ttl = 0 /\ ttl' = Window)
         /\ verdict'[c] \in {"pass", "refuse"}
         /\ verdict'[c] = "refuse" => ttl' = ttl /\ ttl \in 1..(Window - Pause)
<1>1. /\ counter \in Nat /\ ttl \in 0..Window /\ (counter = 0 <=> ttl = 0)
      /\ JobsLimit \in Nat \ {0} /\ Window \in Nat \ {0} /\ Pause \in 1..(Window - 1)
  BY ClientAssumption DEF TypeOK
<1>2. /\ c \in Came /\ phase[c] \in Asking /\ verdict[c] = "none" /\ rest[c] = 0
      /\ UNCHANGED <<phase, rest>>
      /\ verdict'[c] # "none" /\ \A d \in Clients \ {c} : verdict'[d] = verdict[d]
  BY DEF Check, Due, Came, Asking, TypeOK
<1>3. c \in Counted' BY <1>2 DEF Counted, Came
<1>4. ASSUME Age < Pause, counter > 0, ttl' = ttl
      PROVE  counter + 1 <= Cardinality(Counted') /\ counter + 1 <= JobsLimit
  <2>1. c \notin Counted BY <1>1, <1>2, <1>4, SMT DEF Counted, Age
  <2>2. Counted' = Counted \cup {c} BY <1>2, <1>3, <1>4 DEF Counted, Came, Age
  <2>3. Cardinality(Counted') = Cardinality(Counted) + 1
    BY <2>1, <2>2, Sets, FS_AddElement
  <2>4. Counted' \subseteq Came BY <1>2, <2>2 DEF Counted
  <2>5. Cardinality(Counted') <= Cardinality(Came) BY <2>4, Sets, FS_Subset
  <2>6. counter <= Cardinality(Counted) BY <1>4 DEF BeginInv
  <2> QED BY <1>1, <2>3, <2>5, <2>6, Sets, SMT DEF Few
<1>5. counter = 0 /\ ttl' = Window => 1 <= Cardinality(Counted')
  <2>1. IsFiniteSet(Counted')
    <3>1. Counted' \subseteq Clients BY DEF Counted, Came
    <3> QED BY <3>1, FS_Subset, ClientAssumption
  <2>2. Cardinality(Counted') # 0 /\ Cardinality(Counted') \in Nat
    BY <1>3, <2>1, FS_EmptySet, FS_CardinalityType
  <2> QED BY <2>2, SMT
<1>6. \/ Incr(JobsLimit) /\ verdict'[c] = (IF counter' > JobsLimit THEN "refuse" ELSE "pass")
      \/ (Incr(JobsLimit) \/ UNCHANGED redis) /\ verdict'[c] = "pass"
  BY LimitOfClient, Zenon DEF Check, TypeOK
<1>7. CASE Incr(JobsLimit)
  <2>1. ttl' = ttl \/ (ttl = 0 /\ ttl' = Window) BY <1>1, <1>7, SMT DEF Incr
  <2>2. BeginInv'
    <3>1. CASE counter = 0
      <4>1. counter' = 1 /\ ttl' = Window BY <1>1, <1>7, <3>1, SMT DEF Incr, Least
      <4> QED BY <1>5, <3>1, <4>1 DEF BeginInv
    <3>2. CASE counter > 0
      <4>1. ttl' = ttl /\ counter' <= counter + 1 /\ counter' \in Nat
        BY <1>1, <1>7, <3>2, SMT DEF Incr, Least
      <4>2. Age' = Age BY <4>1 DEF Age
      <4>3. CASE Age < Pause
        <5>1. counter + 1 <= Cardinality(Counted') BY <1>4, <3>2, <4>1, <4>3
        <5>2. Cardinality(Counted') \in Int
          <6>1. Counted' \subseteq Clients BY DEF Counted, Came
          <6> QED BY <6>1, FS_Subset, FS_CardinalityType, ClientAssumption
        <5> QED BY <1>1, <4>1, <5>1, <5>2, SMT DEF BeginInv
      <4>4. CASE ~(Age < Pause) BY <4>2, <4>4 DEF BeginInv
      <4> QED BY <4>3, <4>4
    <3> QED BY <1>1, <3>1, <3>2
  <2>3. counter' > JobsLimit => ttl' = ttl /\ ttl \in 1..(Window - Pause)
    <3>1. SUFFICES ASSUME counter' > JobsLimit
                   PROVE  ttl' = ttl /\ ttl \in 1..(Window - Pause)
      OBVIOUS
    <3>2. counter > 0 /\ ttl' = ttl /\ counter + 1 > JobsLimit
      BY <1>1, <1>7, <3>1, SMT DEF Incr, Least
    <3>3. ~(Age < Pause) BY <1>1, <1>4, <3>2, SMT
    <3> QED BY <1>1, <3>2, <3>3, SMT DEF Age
  <2>4. verdict'[c] \in {"pass", "refuse"} /\ (verdict'[c] = "refuse" => counter' > JobsLimit)
    BY <1>6
  <2> QED BY <2>1, <2>2, <2>3, <2>4
<1>8. CASE UNCHANGED redis /\ verdict'[c] = "pass"
  <2>1. ttl' = ttl /\ counter' = counter BY <1>8 DEF redis
  <2>2. BeginInv'
    <3>1. ASSUME counter > 0, Age < Pause PROVE counter <= Cardinality(Counted')
      <4>1. counter + 1 <= Cardinality(Counted') BY <1>4, <2>1, <3>1
      <4>2. Cardinality(Counted') \in Int
        <5>1. Counted' \subseteq Clients BY DEF Counted, Came
        <5> QED BY <5>1, FS_Subset, FS_CardinalityType, ClientAssumption
      <4> QED BY <1>1, <4>1, <4>2, SMT
    <3> QED BY <2>1, <3>1 DEF BeginInv, Age
  <2> QED BY <1>8, <2>1, <2>2
<1> QED BY <1>6, <1>7, <1>8

\* A check changes nothing of what a client that is not refused has to wait.
LEMMA CheckWaits ==
  ASSUME TypeOK, TypeOK', Few, BeginInv, \A d \in Clients : WaitInv(d),
         NEW c \in Clients, Check(c), NEW d \in Clients
  PROVE  WaitInv(d)'
<1>1. /\ ttl' = ttl \/ (ttl = 0 /\ ttl' = Window)
      /\ verdict'[c] \in {"pass", "refuse"}
      /\ verdict'[c] = "refuse" => ttl' = ttl /\ ttl \in 1..(Window - Pause)
  BY CheckBegins
<1>2. UNCHANGED <<record, phase, rest, late>> /\ Due(c) BY DEF Check
<1>3. d # c => verdict'[d] = verdict[d] BY DEF Check, TypeOK
<1>4. WaitInv(d) OBVIOUS
<1>5. Left' = Left BY <1>1, ClientType, SMT DEF Left
<1>6. Until(d)' = Until(d) /\ Ahead(d)' = Ahead(d)
  <2>1. Until(d)' = Until(d) BY <1>2, <1>5 DEF Until
  <2> QED BY <1>2, <2>1 DEF Ahead
<1>7. RestInv(d)'
  <2>1. ttl' = 0 \/ ttl' >= ttl BY <1>1, ClientType, SMT
  <2>2. phase[d] \in Asking => rest[d] <= (IF ttl' = 0 THEN Pause ELSE ttl' + Pause - 1)
    BY <1>1, <1>4, ClientType, SMT DEF RestInv, WaitInv
  <2>3. verdict'[d] # "none" => Due(d) BY <1>2, <1>3, <1>4 DEF RestInv, WaitInv
  <2>4. verdict'[d] = "refuse" => ttl' \in 1..(Window - Pause)
    BY <1>1, <1>3, <1>4, ClientType, SMT DEF RestInv, WaitInv
  <2> QED BY <1>2, <1>4, <1>6, <2>2, <2>3, <2>4 DEF RestInv, WaitInv, Due
<1>8. LateInv(d)' BY <1>2, <1>4, <1>6 DEF LateInv, WaitInv
<1> QED BY <1>7, <1>8 DEF WaitInv

\* What an answer changes, for its client and for the others.
LEMMA AnswerIs ==
  ASSUME TypeOK, NEW c \in Clients, RestInv(c), verdict[c] # "none", NEW next, Answer(c, next)
  PROVE  /\ UNCHANGED <<ttl, counter, late>>
         /\ verdict'[c] = "none" /\ rest[c] = 0 /\ phase[c] \in Asking
         /\ \/ /\ verdict[c] = "pass" /\ phase'[c] = next
               /\ rest'[c] = IF next \in Asking THEN Pause ELSE 0
            \/ /\ verdict[c] = "refuse" /\ phase'[c] = phase[c]
               /\ ttl \in 1..(Window - Pause)
               /\ rest'[c] \in Pause..(ttl + Pause - 1)
         /\ \A d \in Clients \ {c} :
              verdict'[d] = verdict[d] /\ phase'[d] = phase[d] /\ rest'[d] = rest[d]
<1>1. Due(c) /\ (verdict[c] = "refuse" => ttl \in 1..(Window - Pause)) BY DEF RestInv
<1>2. /\ verdict' = [verdict EXCEPT ![c] = "none"] /\ UNCHANGED <<redis, late>>
      /\ \/ /\ verdict[c] = "pass"
            /\ phase' = [phase EXCEPT ![c] = next]
            /\ rest' = [rest EXCEPT ![c] = IF next \in Asking THEN Pause ELSE 0]
         \/ /\ verdict[c] = "refuse" /\ UNCHANGED phase
            /\ \E told \in Told(ttl) : rest' = [rest EXCEPT ![c] = Most(told, Pause)]
  BY DEF Answer
<1>3. ASSUME verdict[c] = "refuse", NEW told \in Told(ttl)
      PROVE  Most(told, Pause) \in Pause..(ttl + Pause - 1)
  <2>1. told \in Nat /\ 2 * told <= 2 * ttl + Second
    BY <1>3, ClientType, SMT DEF Told
  <2> QED BY <1>1, <1>3, <2>1, ClientType, SMT DEF Most
<1>4. CASE verdict[c] = "pass" BY <1>1, <1>2, <1>4 DEF TypeOK, redis, Due
<1>5. CASE verdict[c] = "refuse"
  <2>1. PICK told \in Told(ttl) : rest' = [rest EXCEPT ![c] = Most(told, Pause)]
    BY <1>2, <1>5
  <2>2. rest'[c] \in Pause..(ttl + Pause - 1) BY <1>3, <1>5, <2>1 DEF TypeOK
  <2> QED BY <1>1, <1>2, <1>5, <2>1, <2>2 DEF TypeOK, redis, Due
<1> QED BY <1>2, <1>4, <1>5

\* A client that was answered has been counted before and is now.
LEMMA AnswerBegins ==
  ASSUME TypeOK, BeginInv, NEW c \in Clients, RestInv(c), verdict[c] # "none",
         NEW next, next # "idle", Answer(c, next)
  PROVE  BeginInv'
<1>1. UNCHANGED <<ttl, counter>> BY AnswerIs
<1>2. Age' = Age /\ Age \in Nat BY <1>1, ClientType, SMT DEF Age
<1>3. c \in Counted BY AnswerIs DEF Counted, Came, Asking
<1>4. c \in Counted'
  <2>1. phase'[c] # "idle" /\ (phase'[c] \in Asking => rest'[c] \in Nat /\ rest'[c] >= Pause)
    BY AnswerIs, ClientType, SMT DEF Asking
  <2>2. phase'[c] \in Asking => rest'[c] + Age' >= Pause BY <1>2, <2>1, ClientType, SMT
  <2> QED BY <2>1, <2>2 DEF Counted, Came
<1>5. \A d \in Clients \ {c} : d \in Counted <=> d \in Counted'
  <2>1. \A d \in Clients \ {c} :
          verdict'[d] = verdict[d] /\ phase'[d] = phase[d] /\ rest'[d] = rest[d]
    BY AnswerIs
  <2> QED BY <1>2, <2>1 DEF Counted, Came
<1>6. Counted \subseteq Clients /\ Counted' \subseteq Clients BY DEF Counted, Came
<1>7. Counted' = Counted BY <1>3, <1>4, <1>5, <1>6
<1> QED BY <1>1, <1>2, <1>7 DEF BeginInv

\* An answer, with what the server makes of the job of its client, changes nothing
\* for the other clients.
LEMMA OthersWait ==
  ASSUME TypeOK, NEW c \in Clients, RestInv(c), verdict[c] # "none", NEW next, Answer(c, next),
         NEW d \in Clients \ {c}, WaitInv(d), record'[d] = record[d]
  PROVE  WaitInv(d)'
<1>1. /\ ttl' = ttl /\ late' = late /\ verdict'[d] = verdict[d] /\ phase'[d] = phase[d]
      /\ rest'[d] = rest[d] /\ record'[d] = record[d]
  BY AnswerIs
<1>2. Until(d)' = Until(d) BY <1>1 DEF Until, Left
<1>3. Ahead(d)' = Ahead(d) BY <1>1, <1>2 DEF Ahead
<1> QED BY <1>1, <1>2, <1>3 DEF WaitInv, RestInv, LateInv, Due

\* What a client has still to wait when it has just been answered: who passed waits for
\* its next poll, who was refused until it cannot be refused again.
LEMMA AnsweredUntil ==
  ASSUME TypeOK, NEW c \in Clients, RestInv(c), verdict[c] # "none", NEW next, Answer(c, next)
  PROVE  /\ verdict[c] = "pass" /\ next \in Asking => Until(c)' \in 0..(Window + Pause - 1)
         /\ verdict[c] = "refuse" => Until(c)' = Until(c) /\ Until(c) < Window
         /\ phase'[c] \in Asking =>
               rest'[c] <= (IF ttl' = 0 THEN Pause ELSE ttl' + Pause - 1)
<1>1. /\ ttl' = ttl /\ rest[c] = 0
      /\ \/ /\ verdict[c] = "pass" /\ phase'[c] = next
            /\ rest'[c] = IF next \in Asking THEN Pause ELSE 0
         \/ /\ verdict[c] = "refuse" /\ ttl \in 1..(Window - Pause)
            /\ rest'[c] \in Pause..(ttl + Pause - 1)
  BY AnswerIs
<1>2. CASE verdict[c] = "pass"
  <2>1. next \in Asking => rest'[c] = Pause BY <1>1, <1>2
  <2>2. next \in Asking => Until(c)' \in 0..(Window + Pause - 1)
    BY <1>1, <2>1, ClientType, SMT DEF Until, Left
  <2>3. next \in Asking => rest'[c] <= (IF ttl' = 0 THEN Pause ELSE ttl' + Pause - 1)
    BY <1>1, <2>1, ClientType, SMT
  <2> QED BY <1>1, <1>2, <2>2, <2>3
<1>3. CASE verdict[c] = "refuse"
  <2>1. Until(c) = ttl + Pause - 1 /\ Until(c)' = ttl + Pause - 1
    BY <1>1, <1>3, ClientType, SMT DEF Until, Left
  <2>2. ttl' = ttl /\ ttl \in 1..(Window - Pause) /\ rest'[c] \in Pause..(ttl + Pause - 1)
    BY <1>1, <1>3
  <2> QED BY <1>3, <2>1, <2>2, ClientType, SMT
<1> QED BY <1>1, <1>2, <1>3

\* A POST that is made again in a new window is not refused.
LEMMA PostWaits ==
  ASSUME TypeOK, NEW c \in Clients, WaitInv(c), Post(c)
  PROVE  WaitInv(c)'
<1>1. phase[c] = "job" /\ verdict[c] # "none" /\ RestInv(c) /\ LateInv(c)
  BY DEF Post, WaitInv
<1>2. PICK next \in {"result", "toldError"} : Answer(c, next)
  BY DEF Post
<1>3. /\ record'[c] \notin Over <=> record[c] \notin Over
      /\ record'[c] # "none"
  BY DEF Post, TypeOK, Over
<1>4. /\ ttl' = ttl /\ late' = late /\ verdict'[c] = "none" /\ rest[c] = 0
      /\ \/ verdict[c] = "pass" /\ phase'[c] = next
         \/ verdict[c] = "refuse" /\ phase'[c] = phase[c]
  BY <1>1, <1>2, AnswerIs
<1>5. /\ verdict[c] = "pass" /\ next = "result" => Until(c)' \in 0..(Window + Pause - 1)
      /\ verdict[c] = "refuse" => Until(c)' = Until(c) /\ Until(c) < Window
      /\ phase'[c] \in Asking => rest'[c] <= (IF ttl' = 0 THEN Pause ELSE ttl' + Pause - 1)
  BY <1>1, <1>2, AnsweredUntil DEF Asking
<1>6. RestInv(c)'
  <2>1. phase'[c] # "idle" BY <1>1, <1>2, <1>4
  <2>2. phase'[c] = "job" => Until(c)' < Window BY <1>1, <1>2, <1>4, <1>5
  <2> QED BY <1>4, <1>5, <2>1, <2>2 DEF RestInv
<1>7. CASE record[c] \notin Over BY <1>1, <1>3, <1>4, <1>6, <1>7 DEF LateInv, WaitInv
<1>8. CASE record[c] \in Over
  <2>1. Ahead(c) = Until(c) + Window + Pause - 1 BY <1>1, AheadIs
  <2>2. Ahead(c)' \in Nat /\ Ahead(c)' <= Ahead(c)
    <3>1. CASE verdict[c] = "pass" /\ next = "result"
      <4>1. Ahead(c)' = Until(c)' BY <1>4, <3>1, AheadIsNext
      <4> QED BY <1>5, <2>1, <3>1, <4>1, AheadType, ClientType, SMT
    <3>2. CASE verdict[c] = "pass" /\ next = "toldError"
      <4>1. Ahead(c)' = 0 BY <1>4, <3>2, AheadIsNext DEF Asking
      <4> QED BY <2>1, <4>1, AheadType, SMT
    <3>3. CASE verdict[c] = "refuse"
      <4>1. Ahead(c)' = Until(c)' + Window + Pause - 1 BY <1>1, <1>4, <3>3, AheadIsNext
      <4> QED BY <1>5, <2>1, <3>3, <4>1, AheadType, ClientType, SMT
    <3> QED BY <1>2, <1>4, <3>1, <3>2, <3>3
  <2>3. late'[c] + Ahead(c)' < 2 * Window + Pause
    BY <1>1, <1>4, <1>8, <2>2, AheadType, ClientType, SMT DEF LateInv
  <2> QED BY <1>3, <1>6, <1>8, <2>3 DEF LateInv, WaitInv
<1> QED BY <1>7, <1>8

\* A poll that passes tells of a job that is over; one that is refused waits for the
\* end of the window, and for one more poll at most.
LEMMA PollWaits ==
  ASSUME TypeOK, NEW c \in Clients, WaitInv(c), NEW next, Answer(c, next),
         verdict[c] # "none", phase[c] = "result", record'[c] = record[c],
         next \in {"toldResult", "toldFailure"} \/ (record[c] \notin Over /\ next = "result")
  PROVE  WaitInv(c)'
<1>1. RestInv(c) /\ LateInv(c) BY DEF WaitInv
<1>4. /\ ttl' = ttl /\ late' = late /\ verdict'[c] = "none" /\ rest[c] = 0
      /\ \/ verdict[c] = "pass" /\ phase'[c] = next
         \/ verdict[c] = "refuse" /\ phase'[c] = phase[c]
  BY <1>1, AnswerIs
<1>5. /\ verdict[c] = "refuse" => Until(c)' = Until(c)
      /\ phase'[c] \in Asking => rest'[c] <= (IF ttl' = 0 THEN Pause ELSE ttl' + Pause - 1)
  BY <1>1, AnsweredUntil
<1>6. RestInv(c)' BY <1>4, <1>5 DEF RestInv
<1>7. CASE record[c] \notin Over BY <1>1, <1>4, <1>6, <1>7 DEF LateInv, WaitInv
<1>8. CASE record[c] \in Over
  <2>1. Ahead(c)' \in Nat /\ Ahead(c)' <= Ahead(c)
    <3>1. CASE verdict[c] = "pass"
      <4>1. phase'[c] \notin Asking BY <1>4, <1>8, <3>1 DEF Asking
      <4>2. Ahead(c)' = 0 BY <4>1, AheadIsNext
      <4> QED BY <4>2, AheadType, SMT
    <3>2. CASE verdict[c] = "refuse"
      <4>1. Ahead(c)' = Ahead(c) BY <1>4, <1>5, <3>2, AheadIs, AheadIsNext
      <4> QED BY <4>1, AheadType, SMT
    <3> QED BY <1>4, <3>1, <3>2
  <2>2. late'[c] + Ahead(c)' < 2 * Window + Pause
    BY <1>1, <1>4, <1>8, <2>1, AheadType, ClientType, SMT DEF LateInv
  <2> QED BY <1>6, <1>8, <2>2 DEF LateInv, WaitInv
<1> QED BY <1>7, <1>8

\* Whenever a job ends, what its client has to wait is less than the bound.
LEMMA RunWaits ==
  ASSUME TypeOK, NEW c \in Clients, Run(c), NEW d \in Clients, WaitInv(d)
  PROVE  WaitInv(d)'
<1>1. /\ UNCHANGED <<ttl, phase, rest, verdict, late>> /\ RestInv(d) /\ LateInv(d)
      /\ \/ record'[d] = record[d]
         \/ record[d] \in {"pending", "processing"} /\ record'[d] # "none"
  BY DEF Run, WaitInv, TypeOK, redis, Over
<1>2. Until(d)' = Until(d) BY <1>1 DEF Until, Left
<1>3. Ahead(d)' = Ahead(d) BY <1>1, <1>2 DEF Ahead
<1>4. RestInv(d)' BY <1>1, <1>2 DEF RestInv, Due
<1>5. CASE record'[d] = record[d] BY <1>1, <1>3, <1>4, <1>5 DEF LateInv, WaitInv
<1>6. CASE record[d] \in {"pending", "processing"}
  <2>1. late[d] = 0 BY <1>1, <1>6 DEF LateInv, Over
  <2>2. Ahead(d) < 2 * Window + Pause
    <3>1. CASE phase[d] = "job"
      <4>1. Until(d) < Window BY <1>1, <1>6, <3>1 DEF RestInv
      <4>2. Ahead(d) = Until(d) + Window + Pause - 1 BY <3>1, AheadIs
      <4> QED BY <4>1, <4>2, AheadType, ClientType, SMT
    <3>2. CASE phase[d] = "result"
      <4>1. Ahead(d) = Until(d) BY <3>2, AheadIs
      <4>2. Until(d) < Window + Pause BY ClientType, SMT DEF Until, Left
      <4> QED BY <4>1, <4>2, AheadType, ClientType, SMT
    <3>3. CASE phase[d] \notin Asking
      <4>1. Ahead(d) = 0 BY <3>3, AheadIs
      <4> QED BY <4>1, ClientType, SMT
    <3> QED BY <3>1, <3>2, <3>3 DEF Asking
  <2>3. late'[d] + Ahead(d)' < 2 * Window + Pause
    BY <1>1, <1>3, <2>1, <2>2, AheadType, SMT
  <2> QED BY <1>1, <1>4, <1>6, <2>1, <2>3 DEF LateInv, WaitInv
<1> QED BY <1>1, <1>5, <1>6

\* As time passes, what a client has still to wait gets less.
LEMMA TickUntil ==
  ASSUME TypeOK, Tick, NEW d \in Clients, RestInv(d), phase[d] \in Asking
  PROVE  /\ Until(d)' \in Nat /\ Until(d)' < Until(d)
         /\ rest'[d] <= (IF ttl' = 0 THEN Pause ELSE ttl' + Pause - 1)
<1>1. /\ ttl \in Nat /\ ttl <= Window /\ rest[d] \in Nat /\ rest[d] > 0
      /\ Window \in Nat /\ Pause \in Nat /\ Pause > 0 /\ Pause < Window
      /\ ttl' = Most(ttl - 1, 0) /\ rest'[d] = Most(rest[d] - 1, 0)
  BY ClientType, SMT DEF Tick, Due
<1>2. /\ rest'[d] = rest[d] - 1
      /\ ttl' = IF ttl = 0 THEN 0 ELSE ttl - 1
  BY <1>1, SMT DEF Most
<1>3. rest[d] <= (IF ttl = 0 THEN Pause ELSE ttl + Pause - 1) BY DEF RestInv
<1>4. Until(d) = IF rest[d] + Window - Left < Pause THEN rest[d] ELSE Left + Pause - 1
  BY DEF Until
<1>5. Until(d)' = IF rest'[d] + Window - Left' < Pause THEN rest'[d] ELSE Left' + Pause - 1
  BY DEF Until
<1>6. Left = (IF ttl = 0 THEN Window ELSE ttl) /\ Left' = (IF ttl' = 0 THEN Window ELSE ttl')
  BY DEF Left
<1>7. CASE ttl = 0 BY <1>1, <1>2, <1>3, <1>4, <1>5, <1>6, <1>7, SMT
<1>8. CASE ttl = 1 BY <1>1, <1>2, <1>3, <1>4, <1>5, <1>6, <1>8, SMT
<1>9. CASE ttl > 1 BY <1>1, <1>2, <1>3, <1>4, <1>5, <1>6, <1>9, SMT
<1> QED BY <1>1, <1>7, <1>8, <1>9, SMT

\* So who is late now is not late for longer than it would have been.
LEMMA TickWaits ==
  ASSUME TypeOK, Few, Tick, NEW d \in Clients, WaitInv(d)
  PROVE  WaitInv(d)'
<1>1. /\ UNCHANGED <<record, phase, verdict>> /\ ~Due(d) /\ RestInv(d) /\ LateInv(d)
      /\ late'[d] = IF record[d] \in Over /\ phase[d] \in Asking
                    THEN Least(late[d] + 1, 2 * Window + Pause) ELSE 0
      /\ rest'[d] = Most(rest[d] - 1, 0)
  BY DEF Tick, WaitInv
<1>2. phase[d] \in Asking =>
        /\ Until(d)' \in Nat /\ Until(d)' < Until(d)
        /\ rest'[d] <= (IF ttl' = 0 THEN Pause ELSE ttl' + Pause - 1)
  BY <1>1, TickUntil
<1>3. RestInv(d)'
  <2>1. verdict[d] = "none" BY <1>1 DEF RestInv
  <2>2. phase[d] = "idle" => rest'[d] = 0 BY <1>1, SMT DEF RestInv, Most
  <2>3. phase[d] = "job" /\ record[d] # "none" => Until(d)' < Window
    BY <1>1, <1>2, AheadType, ClientType, SMT DEF RestInv, Asking
  <2> QED BY <1>1, <1>2, <2>1, <2>2, <2>3 DEF RestInv
<1>4. LateInv(d)'
  <2>1. CASE record[d] \notin Over BY <1>1, <2>1 DEF LateInv
  <2>2. CASE record[d] \in Over /\ phase[d] \notin Asking
    <3>1. late'[d] = 0 /\ Ahead(d)' = 0 BY <1>1, <2>2, AheadIsNext
    <3> QED BY <1>1, <2>2, <3>1, ClientType, SMT DEF LateInv
  <2>3. CASE record[d] \in Over /\ phase[d] \in Asking
    <3>1. Ahead(d)' < Ahead(d) /\ Ahead(d)' \in Nat
      <4>1. CASE phase[d] = "job"
        <5>1. Ahead(d) = Until(d) + Window + Pause - 1 BY <4>1, AheadIs
        <5>2. Ahead(d)' = Until(d)' + Window + Pause - 1 BY <1>1, <4>1, AheadIsNext
        <5> QED BY <1>2, <2>3, <5>1, <5>2, AheadType, ClientType, SMT
      <4>2. CASE phase[d] = "result"
        BY <1>1, <1>2, <2>3, <4>2, AheadIs, AheadIsNext
      <4> QED BY <2>3, <4>1, <4>2 DEF Asking
    <3>2. late'[d] <= late[d] + 1 /\ late'[d] \in Nat
      BY <1>1, <2>3, ClientType, SMT DEF Least
    <3>3. late'[d] + Ahead(d)' < 2 * Window + Pause
      BY <1>1, <2>3, <3>1, <3>2, AheadType, ClientType, SMT DEF LateInv
    <3> QED BY <1>1, <2>3, <3>3 DEF LateInv
  <2> QED BY <2>1, <2>2, <2>3
<1> QED BY <1>3, <1>4 DEF WaitInv

\* In the time in which nobody can ask twice, nobody that was counted becomes free to ask.
LEMMA TickBegins ==
  ASSUME TypeOK, BeginInv, \A d \in Clients : WaitInv(d), Tick
  PROVE  BeginInv'
<1>1. SUFFICES ASSUME counter' > 0, Age' < Pause PROVE counter' <= Cardinality(Counted')
  BY DEF BeginInv
<1>2. /\ counter \in Nat /\ ttl \in 0..Window /\ (counter = 0 <=> ttl = 0)
      /\ Window \in Nat \ {0} /\ Pause \in 1..(Window - 1)
      /\ ttl' = Most(ttl - 1, 0) /\ counter' = IF ttl = 1 THEN 0 ELSE counter
  BY ClientAssumption DEF TypeOK, Tick
<1>3. counter' = counter /\ counter > 0 /\ ttl' = ttl - 1 /\ Age' = Age + 1
  BY <1>1, <1>2, SMT DEF Most, Age
<1>4. Age < Pause /\ Age \in Nat BY <1>1, <1>2, <1>3, SMT DEF Age
<1>5. Counted \subseteq Counted'
  <2> SUFFICES ASSUME NEW d \in Counted PROVE d \in Counted'
    OBVIOUS
  <2>1. d \in Clients /\ phase[d] # "idle" /\ phase'[d] = phase[d] /\ verdict'[d] = verdict[d]
    BY DEF Counted, Came, Tick
  <2>2. verdict[d] = "none" BY <2>1 DEF Tick, WaitInv, RestInv
  <2>3. CASE phase[d] \in Asking
    <3>1. rest[d] + Age >= Pause BY <2>2, <2>3 DEF Counted
    <3>2. rest[d] \in Nat /\ rest[d] # 0 /\ rest'[d] = Most(rest[d] - 1, 0)
      BY <2>1, <2>3, ClientType DEF Tick, Due
    <3>3. rest'[d] + Age' >= Pause BY <1>3, <1>4, <3>1, <3>2, ClientType, SMT DEF Most
    <3> QED BY <2>1, <3>3 DEF Counted, Came
  <2>4. CASE phase[d] \notin Asking BY <2>1, <2>4 DEF Counted, Came
  <2> QED BY <2>3, <2>4
<1>6. IsFiniteSet(Counted')
  <2>1. Counted' \subseteq Clients BY DEF Counted, Came
  <2> QED BY <2>1, FS_Subset, ClientAssumption
<1>7. Cardinality(Counted) <= Cardinality(Counted') BY <1>5, <1>6, FS_Subset
<1>8. counter <= Cardinality(Counted) BY <1>3, <1>4 DEF BeginInv
<1> QED BY <1>2, <1>3, <1>6, <1>7, <1>8, Sets, FS_CardinalityType, SMT

\* A client that begins has no job yet, and is not counted.
LEMMA AskWaits ==
  ASSUME TypeOK, BeginInv, \A d \in Clients : WaitInv(d), NEW c \in Clients, Ask(c), Few'
  PROVE  BeginInv' /\ \A d \in Clients : WaitInv(d)'
<1>1. /\ UNCHANGED <<ttl, counter, record, rest, verdict>> /\ phase[c] = "idle"
      /\ phase'[c] = "job" /\ \A d \in Clients \ {c} : phase'[d] = phase[d]
  BY DEF Ask, redis, TypeOK
<1>2. late' = late BY DEF Ask, TypeOK
<1>3. rest[c] = 0 /\ record[c] = "none" /\ verdict[c] = "none" /\ late[c] = 0
  BY <1>1 DEF WaitInv, RestInv, LateInv, Due, Asking, Over
<1>4. BeginInv'
  <2>1. Age' = Age BY <1>1 DEF Age
  <2>2. Counted \subseteq Counted' BY <1>1, <2>1 DEF Counted, Came
  <2>3. IsFiniteSet(Counted')
    <3>1. Counted' \subseteq Clients BY DEF Counted, Came
    <3> QED BY <3>1, FS_Subset, ClientAssumption
  <2>4. Cardinality(Counted) <= Cardinality(Counted') BY <2>2, <2>3, FS_Subset
  <2> QED BY <1>1, <2>1, <2>3, <2>4, Sets, FS_CardinalityType, ClientType, SMT DEF BeginInv
<1>5. \A d \in Clients : Until(d)' = Until(d) BY <1>1 DEF Until, Left
<1>6. WaitInv(c)'
  <2>1. rest'[c] <= (IF ttl' = 0 THEN Pause ELSE ttl' + Pause - 1)
    BY <1>1, <1>3, ClientType, SMT
  <2> QED BY <1>1, <1>2, <1>3, <2>1 DEF WaitInv, RestInv, LateInv, Over
<1>7. ASSUME NEW d \in Clients \ {c} PROVE WaitInv(d)'
  <2>1. Ahead(d)' = Ahead(d) BY <1>1, <1>5 DEF Ahead
  <2> QED BY <1>1, <1>2, <1>5, <2>1 DEF WaitInv, RestInv, LateInv, Due
<1> QED BY <1>4, <1>6, <1>7

\* While the clients are few, every step keeps what BeginInv and WaitInv say.
LEMMA FewStep ==
  ASSUME TypeOK, TypeOK', Few, Few', BeginInv, \A d \in Clients : WaitInv(d), [Next]_vars
  PROVE  BeginInv' /\ \A d \in Clients : WaitInv(d)'
<1>1. ASSUME NEW c \in Clients, Ask(c)
      PROVE  BeginInv' /\ \A d \in Clients : WaitInv(d)'
  BY <1>1, AskWaits
<1>2. ASSUME NEW c \in Clients, Check(c)
      PROVE  BeginInv' /\ \A d \in Clients : WaitInv(d)'
  BY <1>2, CheckBegins, CheckWaits
<1>3. ASSUME NEW c \in Clients, Post(c)
      PROVE  BeginInv' /\ \A d \in Clients : WaitInv(d)'
  <2>1. RestInv(c) /\ verdict[c] # "none" BY <1>3 DEF WaitInv, Post
  <2>2. PICK next \in {"result", "toldError"} : Answer(c, next) BY <1>3 DEF Post
  <2>3. next # "idle" BY <2>2
  <2>4. BeginInv' BY <2>1, <2>2, <2>3, AnswerBegins
  <2>5. WaitInv(c)' BY <1>3, PostWaits
  <2>6. \A d \in Clients \ {c} : record'[d] = record[d] BY <1>3 DEF Post, TypeOK
  <2>7. \A d \in Clients \ {c} : WaitInv(d)' BY <2>1, <2>2, <2>6, OthersWait
  <2> QED BY <2>4, <2>5, <2>7
<1>4. ASSUME NEW c \in Clients, Poll(c)
      PROVE  BeginInv' /\ \A d \in Clients : WaitInv(d)'
  <2>1. /\ RestInv(c) /\ verdict[c] # "none" /\ phase[c] = "result" /\ record' = record
    BY <1>4 DEF WaitInv, Poll
  <2>2. PICK next : /\ Answer(c, next)
                    /\ \/ next \in {"toldResult", "toldFailure"}
                       \/ record[c] \notin Over /\ next = "result"
    <3>1. CASE record[c] = "completed" BY <1>4, <3>1 DEF Poll
    <3>2. CASE record[c] = "failed" BY <1>4, <3>2 DEF Poll
    <3>3. CASE record[c] # "completed" /\ record[c] # "failed"
      BY <1>4, <3>3 DEF Poll, Over
    <3> QED BY <3>1, <3>2, <3>3
  <2>3. next # "idle" BY <2>2
  <2>4. BeginInv' BY <2>1, <2>2, <2>3, AnswerBegins
  <2>5. WaitInv(c)' BY <2>1, <2>2, PollWaits
  <2>6. \A d \in Clients \ {c} : WaitInv(d)' BY <2>1, <2>2, OthersWait
  <2> QED BY <2>4, <2>5, <2>6
<1>5. ASSUME NEW c \in Clients, Run(c)
      PROVE  BeginInv' /\ \A d \in Clients : WaitInv(d)'
  <2>1. UNCHANGED <<ttl, counter, phase, rest, verdict>> BY <1>5 DEF Run, redis
  <2>2. BeginInv' BY <2>1 DEF BeginInv, Counted, Came, Age
  <2> QED BY <1>5, <2>2, RunWaits
<1>6. CASE Tick BY <1>6, TickBegins, TickWaits
<1>7. CASE UNCHANGED vars
  <2>1. UNCHANGED <<ttl, counter, record, phase, rest, verdict, late>> BY <1>7 DEF vars, redis
  <2>2. BeginInv' BY <2>1 DEF BeginInv, Counted, Came, Age
  <2>3. \A d \in Clients : Until(d)' = Until(d) BY <2>1 DEF Until, Left
  <2>4. \A d \in Clients : Ahead(d)' = Ahead(d) BY <2>1, <2>3 DEF Ahead
  <2> QED BY <2>1, <2>2, <2>3, <2>4 DEF WaitInv, RestInv, LateInv, Due
<1> QED BY <1>1, <1>2, <1>3, <1>4, <1>5, <1>6, <1>7 DEF Next, Serve

\* Once more clients have come than the limit, nobody is late any more.
LEMMA ManyStep ==
  ASSUME TypeOK, ~Few => \A d \in Clients : late[d] = 0, [Next]_vars, ~Few'
  PROVE  \A d \in Clients : late'[d] = 0
<1>1. ASSUME NEW c \in Clients, Ask(c) PROVE \A d \in Clients : late'[d] = 0
  BY <1>1 DEF Ask
<1>2. ASSUME NEW c \in Clients, Check(c) \/ Post(c) \/ Poll(c) \/ Run(c)
      PROVE  \A d \in Clients : late'[d] = 0
  <2>1. ~Few BY <1>2, SameCame
  <2>2. late' = late BY <1>2, Zenon DEF Check, Post, Poll, Answer, Run
  <2> QED BY <2>1, <2>2
<1>3. CASE Tick
  <2>1. CASE Clients = {} BY <2>1
  <2>2. CASE Clients # {}
    <3>1. ~Few BY <1>3, <2>2, SameCame
    <3> QED BY <1>3, <3>1 DEF Tick
  <2> QED BY <2>1, <2>2
<1>4. CASE UNCHANGED vars
  <2>1. ~Few /\ late' = late BY <1>4 DEF vars, Few, Came
  <2> QED BY <2>1
<1> QED BY <1>1, <1>2, <1>3, <1>4 DEF Next, Serve

\* Every step keeps the invariant.
LEMMA InvStep == ClientsInv /\ [Next]_vars => ClientsInv'
<1> SUFFICES ASSUME ClientsInv, [Next]_vars PROVE ClientsInv' OBVIOUS
<1>1. TypeOK /\ TypeOK' BY TypeStep DEF ClientsInv
<1>2. OneLimitPerBucket' BY OneLimitNext
<1>3. ASSUME Few' PROVE BeginInv' /\ \A c \in Clients : RestInv(c)' /\ LateInv(c)'
  <2>1. Few BY <1>1, <1>3, CameStep
  <2>2. BeginInv /\ \A c \in Clients : WaitInv(c) BY <2>1 DEF ClientsInv, WaitInv
  <2> QED BY <1>1, <1>3, <2>1, <2>2, FewStep DEF WaitInv
<1>4. ASSUME ~Few' PROVE \A c \in Clients : late'[c] = 0
  BY <1>1, <1>4, ManyStep DEF ClientsInv
<1> QED BY <1>1, <1>2, <1>3, <1>4 DEF ClientsInv

\* Before anyone has come there is nobody to wait, and no bucket.
LEMMA InvInit == Init => ClientsInv
<1> SUFFICES ASSUME Init PROVE ClientsInv OBVIOUS
<1>1. /\ counter = 0 /\ ttl = 0
      /\ \A c \in Clients : /\ record[c] = "none" /\ phase[c] = "idle" /\ rest[c] = 0
                            /\ verdict[c] = "none" /\ late[c] = 0
  BY DEF Init
<1>2. Window \in Nat /\ Window > 0 /\ JobsLimit \in Nat /\ Pause \in Nat
  BY ClientAssumption, SMT
<1>3. TypeOK
  <2>1. /\ 0 \in 0..Window /\ 0 \in 0..(Window + Pause) /\ 0 \in 0..(JobsLimit + 1)
        /\ 0 \in 0..(2 * Window + Pause)
    BY <1>2, SMT
  <2> QED BY <2>1, Zenon DEF Init, TypeOK, Phases
<1>4. BeginInv BY <1>1, <1>2, SMT DEF BeginInv
<1>5. \A c \in Clients : RestInv(c) /\ LateInv(c)
  BY <1>1, <1>2, SMT DEF RestInv, LateInv, Over
<1> QED BY <1>1, <1>3, <1>4, <1>5, OneLimit DEF ClientsInv

\* The types, one limit for all requests of a bucket, and how long clients wait while
\* they are few are as ClientsInv says in every reachable state.
THEOREM ClientsInvariant == Spec => []ClientsInv
<1>1. ClientsInv /\ [Next]_vars => ClientsInv' BY InvStep
<1> QED BY InvInit, <1>1, PTL DEF Spec

\* However many requests the clients make of a bucket whose refused requests count
\* too: as long as there are no more of them than its limit, whoever waits for a job
\* that is over is told so within two windows and a poll.
THEOREM ClientsOutcomeInTime == Spec => []OutcomeInTime
<1>1. ClientsInv => OutcomeInTime
  <2> SUFFICES ASSUME ClientsInv, NEW c \in Clients PROVE late[c] < 2 * Window + Pause
    BY DEF OutcomeInTime
  <2>1. TypeOK /\ late[c] \in Nat /\ Window \in Nat /\ Window > 0 /\ Pause \in Nat
    BY ClientType DEF ClientsInv
  <2>2. CASE late[c] = 0 BY <2>1, <2>2, SMT
  <2>3. CASE late[c] # 0
    <3>1. record[c] \in Over /\ late[c] + Ahead(c) < 2 * Window + Pause
      BY <2>3 DEF ClientsInv, LateInv
    <3>2. Ahead(c) \in Nat BY <2>1, AheadType
    <3> QED BY <2>1, <3>1, <3>2, SMT
  <2> QED BY <2>2, <2>3
<1> QED BY ClientsInvariant, <1>1, PTL
=============================================================================
