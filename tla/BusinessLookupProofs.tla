------------------------ MODULE BusinessLookupProofs -------------------------
(***************************************************************************)
(* What BusinessLookup guarantees for any number of calls, changes and      *)
(* failures, and any time to live: the invariant, and that it implements    *)
(* RecentName.                                                              *)
(***************************************************************************)
EXTENDS BusinessLookup, TLAPS

\* Every step keeps the types.
LEMMA StepTypeOK == TypeOK /\ CacheInv /\ (\A c \in Calls : FillInv(c)) /\ [Next]_vars => TypeOK'
<1> SUFFICES ASSUME TypeOK, CacheInv, \A c \in Calls : FillInv(c), [Next]_vars PROVE TypeOK'
  OBVIOUS
<1> USE LookupAssumption DEF TypeOK, Go, At, Fault, Reply, NotCached, NotRead, business,
        history, States, Times, Changes
<1>1. ASSUME NEW c \in Calls, Begin(c)
       PROVE  TypeOK'
  BY <1>1 DEF Begin, Named, CacheInv, FillInv
<1>2. ASSUME NEW c \in Calls, Hit(c)
       PROVE  TypeOK'
  BY <1>2 DEF Hit, Give, CacheInv, FillInv
<1>3. ASSUME NEW c \in Calls, Miss(c)
       PROVE  TypeOK'
  BY <1>3 DEF Miss, CacheInv, FillInv
<1>4. ASSUME NEW c \in Calls, CacheFails(c)
       PROVE  TypeOK'
  BY <1>4 DEF CacheFails, CacheInv, FillInv
<1>5. ASSUME NEW c \in Calls, FindById(c)
       PROVE  TypeOK'
  <2>1. got' \in [Calls -> [name : Names \cup {NoName}, change : Changes,
                             at : Times \cup {Never}]]
    BY <1>5 DEF FindById, Found
  <2>2. answer' \in [Calls -> Names \cup {"none", "missing", "error"}]
    BY <1>5 DEF FindById, Found
  <2>3. pc' \in [Calls -> {"idle", "cache", "id", "string", "store", "done"}]
    BY <1>5 DEF FindById, Found
  <2>4. UNCHANGED <<now, business, history, cached, faults>>
    BY <1>5 DEF FindById
  <2> QED
    BY <2>1, <2>2, <2>3, <2>4
<1>6. ASSUME NEW c \in Calls, FindByIdFails(c)
       PROVE  TypeOK'
  BY <1>6 DEF FindByIdFails, CacheInv, FillInv
<1>7. ASSUME NEW c \in Calls, FindByString(c)
       PROVE  TypeOK'
  <2>1. got' \in [Calls -> [name : Names \cup {NoName}, change : Changes,
                             at : Times \cup {Never}]]
    BY <1>7 DEF FindByString, Found
  <2>2. answer' \in [Calls -> Names \cup {"none", "missing", "error"}]
    BY <1>7 DEF FindByString, Found
  <2>3. pc' \in [Calls -> {"idle", "cache", "id", "string", "store", "done"}]
    BY <1>7 DEF FindByString, Found
  <2>4. UNCHANGED <<now, business, history, cached, faults>>
    BY <1>7 DEF FindByString
  <2> QED
    BY <2>1, <2>2, <2>3, <2>4
<1>8. ASSUME NEW c \in Calls, FindByStringFails(c) \/ NoDatabase(c)
       PROVE  TypeOK'
  BY <1>8 DEF FindByStringFails, NoDatabase, CacheInv, FillInv
<1>9. ASSUME NEW c \in Calls, Store(c)
       PROVE  TypeOK'
  BY <1>9 DEF Store, Give, Caches, CacheInv, FillInv
<1>10. ASSUME NEW c \in Calls, StoreFails(c)
       PROVE  TypeOK'
  BY <1>10 DEF StoreFails, Give, Caches, CacheInv, FillInv
<1>11. CASE Move
  <2>1. raced' \in BOOLEAN
    BY <1>11 DEF Move
  <2>2. last' \in [Names -> Times \cup {Never}]
    BY <1>11 DEF Move
  <2>3. name' \in States /\ moves' \in Changes
    BY <1>11 DEF Move
  <2>4. gone' \in SUBSET Calls
    BY <1>11 DEF Move, Open
  <2>5. UNCHANGED <<now, answer, failed, byId, cached, pc, got, before, faults>>
    BY <1>11 DEF Move
  <2> QED
    BY <2>1, <2>2, <2>3, <2>4, <2>5
<1>12. CASE Tick
  BY <1>12 DEF Tick
<1>13. CASE UNCHANGED vars
  BY <1>13 DEF vars
<1> QED
  BY <1>1, <1>2, <1>3, <1>4, <1>5, <1>6, <1>7, <1>8, <1>9, <1>10, <1>11, <1>12, <1>13 DEF Next
-----------------------------------------------------------------------------

\* The step of a call.
CallStep(c) ==
    \/ Begin(c) \/ Hit(c) \/ Miss(c) \/ CacheFails(c)
    \/ NoDatabase(c) \/ FindById(c) \/ FindByIdFails(c)
    \/ FindByString(c) \/ FindByStringFails(c)
    \/ Store(c) \/ StoreFails(c)

\* A step is that of one call, a change of the business, a tick, or none.
LEMMA StepCases ==
    ASSUME [Next]_vars
    PROVE  (\E c \in Calls : CallStep(c)) \/ Move \/ Tick \/ UNCHANGED vars
BY DEF Next, CallStep

\* Calls leave the business and the clock alone.
LEMMA CallsKeepBusiness ==
    ASSUME NEW c \in Calls, CallStep(c)
    PROVE  UNCHANGED <<now, name, last, byId, moves>>
BY DEF CallStep, Begin, Hit, Miss, CacheFails, NoDatabase, FindById, FindByIdFails, FindByString,
       FindByStringFails, Store, StoreFails, business

\* Only a store writes the cache.
LEMMA CallsCache ==
    ASSUME NEW c \in Calls, CallStep(c)
    PROVE  cached' = cached \/ (At(c, "store") /\ Caches(c))
BY DEF CallStep, Begin, Hit, Miss, CacheFails, NoDatabase, FindById, FindByIdFails, FindByString,
       FindByStringFails, Store, StoreFails

\* What was right since t stays so.
LEMMA HadSinceKept ==
    ASSUME TypeOK, [Next]_vars, NEW n \in Names, NEW t \in Int, t <= now, HadSince(n, t)
    PROVE  HadSince(n, t)'
<1>1. ASSUME UNCHANGED <<name, last>>
      PROVE  HadSince(n, t)'
  BY <1>1 DEF HadSince
<1>2. CASE Move
  BY <1>2, LookupAssumption DEF Move, HadSince, TypeOK, Times
<1>3. CASE Tick
  BY <1>1, <1>3 DEF Tick, business
<1>4. CASE UNCHANGED vars
  BY <1>1, <1>4 DEF vars
<1> QED
  BY <1>1, <1>2, <1>3, <1>4, StepCases, CallsKeepBusiness

\* What was right since t was right since any time before it.
LEMMA HadSinceEarlier ==
    ASSUME TypeOK, NEW n \in Names, NEW t \in Int, NEW u \in Int, u <= t, HadSince(n, t)
    PROVE  HadSince(n, u)
BY LookupAssumption DEF HadSince, TypeOK, Times

\* The cache keeps names that were right not long before they were stored.
LEMMA CacheStep == LookupInv /\ [Next]_vars => CacheInv'
<1> SUFFICES ASSUME LookupInv, [Next]_vars, (cached # NotCached)'
             PROVE  /\ cached'.name \in Names
                    /\ cached'.expires # Never
                    /\ now' < cached'.expires
                    /\ cached'.expires <= now' + Ttl
                    /\ HadSince(cached.name, cached.expires - Ttl - Lag)'
  BY DEF CacheInv
<1> USE LookupAssumption
<1>0. TypeOK /\ CacheInv /\ \A c \in Calls : FillInv(c)
  BY DEF LookupInv
<1>a. now \in Int /\ \A t \in Times : t \in Int
  BY <1>0 DEF TypeOK, Times
<1>1. ASSUME cached' = cached, now' \in {now, now + 1}, cached.expires # now'
      PROVE  /\ cached'.name \in Names
             /\ cached'.expires # Never
             /\ now' < cached'.expires
             /\ cached'.expires <= now' + Ttl
             /\ HadSince(cached.name, cached.expires - Ttl - Lag)'
  <2>1. /\ cached.name \in Names /\ cached.expires # Never
        /\ now < cached.expires /\ cached.expires <= now + Ttl
        /\ HadSince(cached.name, cached.expires - Ttl - Lag)
    BY <1>0, <1>1 DEF CacheInv, NotCached
  <2>2. cached.expires \in Int
    BY <1>0, <2>1 DEF TypeOK, Times
  <2> DEFINE n == cached.name  t == cached.expires - Ttl - Lag
  <2>3. n \in Names /\ t \in Int /\ t <= now /\ HadSince(n, t)
    BY <2>1, <2>2, <1>a
  <2> HIDE DEF n, t
  <2>4. \A m \in Names, u \in Int :
           (u <= now /\ HadSince(m, u)) => (m = name' \/ (last'[m] # Never /\ last'[m] >= u))
    BY <1>0, HadSinceKept DEF HadSince
  <2>5. n = name' \/ (last'[n] # Never /\ last'[n] >= t)
    BY <2>3, <2>4
  <2>6. HadSince(cached.name, cached.expires - Ttl - Lag)'
    BY <1>1, <2>5 DEF n, t, HadSince
  <2> QED
    BY <1>1, <1>a, <2>1, <2>2, <2>6
<1>2. ASSUME NEW c \in Calls, At(c, "store"), Caches(c), UNCHANGED <<now, name, last>>
      PROVE  /\ cached'.name \in Names
             /\ cached'.expires # Never
             /\ now' < cached'.expires
             /\ cached'.expires <= now' + Ttl
             /\ HadSince(cached.name, cached.expires - Ttl - Lag)'
  <2>1. /\ got[c].name \in Names /\ got[c].at # Never
        /\ got[c].at <= now /\ now <= got[c].at + Lag
        /\ HadSince(got[c].name, got[c].at)
    BY <1>0, <1>2 DEF FillInv
  <2>2. got[c].at \in Int
    BY <1>0, <2>1 DEF TypeOK, Times
  <2>3. HadSince(got[c].name, now - Lag)
    BY <1>0, <1>a, <2>1, <2>2, HadSinceEarlier
  <2>4. cached'.name = got[c].name /\ cached'.expires = now + Ttl
    BY <1>2 DEF Caches
  <2>5. cached'.expires - Ttl - Lag = now - Lag
    BY <2>4, <1>a
  <2>6. HadSince(cached.name, cached.expires - Ttl - Lag)'
    BY <1>2, <2>3, <2>4, <2>5 DEF HadSince
  <2> QED
    BY <1>2, <1>a, <2>1, <2>4, <2>6
<1>3. ASSUME NEW c \in Calls, CallStep(c), cached' = cached
      PROVE  now' = now /\ cached.expires # now'
  BY <1>0, <1>3, CallsKeepBusiness DEF CacheInv, TypeOK, Times
<1>4. ASSUME NEW c \in Calls, CallStep(c)
      PROVE  \/ cached' = cached /\ now' \in {now, now + 1} /\ cached.expires # now'
             \/ At(c, "store") /\ Caches(c) /\ UNCHANGED <<now, name, last>>
  BY <1>3, <1>4, CallsCache, CallsKeepBusiness
<1>5. CASE Move \/ UNCHANGED vars
  <2>1. cached' = cached /\ now' = now
    BY <1>5 DEF Move, vars
  <2>2. cached.expires # now'
    BY <1>0, <2>1 DEF CacheInv, TypeOK, Times
  <2> QED
    BY <1>1, <2>1, <2>2
<1>6. CASE Tick
  <2>1. cached' = cached /\ now' = now + 1 /\ cached.expires # now'
    BY <1>6 DEF Tick
  <2> QED
    BY <1>1, <2>1
<1> QED
  BY <1>1, <1>2, <1>4, <1>5, <1>6, StepCases
-----------------------------------------------------------------------------

\* A call touches its own part of the state only.
LEMMA CallsAreLocal ==
    ASSUME TypeOK, NEW c \in Calls, CallStep(c), NEW d \in Calls, d # c
    PROVE  pc'[d] = pc[d] /\ got'[d] = got[d] /\ answer'[d] = answer[d]
           /\ (d \in gone' <=> d \in gone) /\ (d \in failed' <=> d \in failed)
           /\ before'[d] = before[d]
<1> USE DEF TypeOK, Go, Reply, history
<1>1. CASE Begin(c)
  BY <1>1 DEF Begin
<1>2. CASE Hit(c) \/ Miss(c) \/ CacheFails(c)
  BY <1>2 DEF Hit, Miss, CacheFails, Give
<1>3. CASE FindById(c) \/ FindByString(c)
  BY <1>3 DEF FindById, FindByString, Found
<1>4. CASE FindByIdFails(c) \/ FindByStringFails(c) \/ NoDatabase(c)
  BY <1>4 DEF FindByIdFails, FindByStringFails, NoDatabase
<1>5. CASE Store(c) \/ StoreFails(c)
  BY <1>5 DEF Store, StoreFails, Give
<1> QED
  BY <1>1, <1>2, <1>3, <1>4, <1>5 DEF CallStep

\* What a call comes to stores is the present name of the business.
LEMMA CallsFill ==
    ASSUME TypeOK, NEW c \in Calls, CallStep(c), pc'[c] = "store"
    PROVE  /\ name \in Names
           /\ got'[c] = [name |-> name, change |-> moves, at |-> now]
           /\ cached' = cached
<1> USE DEF TypeOK, Go, Reply, At
<1>1. CASE Begin(c)
  BY <1>1 DEF Begin
<1>2. CASE Hit(c) \/ Miss(c) \/ CacheFails(c)
  BY <1>2 DEF Hit, Miss, CacheFails, Give
<1>3. CASE FindById(c) \/ FindByString(c)
  BY <1>3 DEF FindById, FindByString, Found, States
<1>4. CASE FindByIdFails(c) \/ FindByStringFails(c) \/ NoDatabase(c)
  BY <1>4 DEF FindByIdFails, FindByStringFails, NoDatabase
<1>5. CASE Store(c) \/ StoreFails(c)
  BY <1>5 DEF Store, StoreFails, Give
<1> QED
  BY <1>1, <1>2, <1>3, <1>4, <1>5 DEF CallStep

\* A name on its way to the cache was right when it was read, not long ago.
LEMMA FillStep == LookupInv /\ [Next]_vars => \A c \in Calls : FillInv(c)'
<1> SUFFICES ASSUME LookupInv, [Next]_vars, NEW d \in Calls, pc'[d] = "store"
             PROVE  /\ got'[d].name \in Names
                    /\ got'[d].at # Never
                    /\ got'[d].at <= now'
                    /\ now' <= got'[d].at + Lag
                    /\ HadSince(got[d].name, got[d].at)'
  BY DEF FillInv, At
<1> USE LookupAssumption
<1>0. TypeOK /\ FillInv(d) /\ now \in Int
  BY DEF LookupInv, TypeOK, Times
<1>1. ASSUME pc'[d] = pc[d], got'[d] = got[d], now' = now \/ Tick
      PROVE  /\ got'[d].name \in Names
             /\ got'[d].at # Never
             /\ got'[d].at <= now'
             /\ now' <= got'[d].at + Lag
             /\ HadSince(got[d].name, got[d].at)'
  <2>1. /\ got[d].name \in Names /\ got[d].at # Never /\ got[d].at \in Int
        /\ got[d].at <= now /\ now <= got[d].at + Lag
        /\ HadSince(got[d].name, got[d].at)
    BY <1>0, <1>1 DEF FillInv, At, TypeOK, Times
  <2> DEFINE n == got[d].name  t == got[d].at
  <2>2. n \in Names /\ t \in Int /\ t <= now /\ HadSince(n, t)
    BY <2>1
  <2> HIDE DEF n, t
  <2>3. \A m \in Names, u \in Int :
           (u <= now /\ HadSince(m, u)) => (m = name' \/ (last'[m] # Never /\ last'[m] >= u))
    BY <1>0, HadSinceKept DEF HadSince
  <2>4. n = name' \/ (last'[n] # Never /\ last'[n] >= t)
    BY <2>2, <2>3
  <2>5. HadSince(got[d].name, got[d].at)'
    BY <1>1, <2>4 DEF n, t, HadSince
  <2>6. now' <= got[d].at + Lag /\ got[d].at <= now'
    BY <1>0, <1>1, <2>1 DEF Tick, At
  <2> QED
    BY <1>1, <2>1, <2>5, <2>6
<1>2. ASSUME NEW c \in Calls, CallStep(c)
      PROVE  /\ got'[d].name \in Names
             /\ got'[d].at # Never
             /\ got'[d].at <= now'
             /\ now' <= got'[d].at + Lag
             /\ HadSince(got[d].name, got[d].at)'
  <2>1. CASE c # d
    BY <1>0, <1>1, <1>2, <2>1, CallsAreLocal, CallsKeepBusiness
  <2>2. CASE c = d
    BY <1>0, <1>2, <2>2, CallsFill, CallsKeepBusiness DEF HadSince, TypeOK, Times
  <2> QED
    BY <2>1, <2>2
<1>3. CASE Move
  BY <1>1, <1>3 DEF Move
<1>4. CASE Tick
  BY <1>1, <1>4 DEF Tick
<1>5. CASE UNCHANGED vars
  BY <1>1, <1>5 DEF vars
<1> QED
  BY <1>2, <1>3, <1>4, <1>5, StepCases

\* Who finds no business has a reason.
LEMMA AnswerStep == LookupInv /\ [Next]_vars => \A c \in Calls : AnswerInv(c)'
<1> SUFFICES ASSUME LookupInv, [Next]_vars, NEW d \in Calls PROVE AnswerInv(d)'
  OBVIOUS
<1> USE LookupAssumption
<1>0. TypeOK /\ AnswerInv(d) /\ FillInv(d) /\ CacheInv
  BY DEF LookupInv
<1>1. ASSUME NEW c \in Calls, CallStep(c)
      PROVE  AnswerInv(d)'
  <2>1. CASE c # d
    BY <1>0, <1>1, <2>1, CallsAreLocal, CallsKeepBusiness DEF AnswerInv, At, Open
  <2>2. CASE c = d
    <3> USE <1>0, <2>2 DEF TypeOK, AnswerInv, At, Open, Go, Reply, business, history
    <3>1. CASE Begin(d)
      BY <3>1 DEF Begin
    <3>2. CASE Hit(d)
      BY <3>2 DEF Hit, Give, CacheInv
    <3>3. CASE Miss(d) \/ CacheFails(d)
      BY <3>3 DEF Miss, CacheFails
    <3>4. CASE FindById(d)
      BY <3>4 DEF FindById, Found, States
    <3>5. CASE FindByString(d)
      BY <3>5 DEF FindByString, Found, States
    <3>6. CASE FindByIdFails(d) \/ FindByStringFails(d) \/ NoDatabase(d)
      BY <3>6 DEF FindByIdFails, FindByStringFails, NoDatabase
    <3>7. CASE Store(d) \/ StoreFails(d)
      BY <3>7 DEF Store, StoreFails, Give, FillInv
    <3> QED
      BY <1>1, <3>1, <3>2, <3>3, <3>4, <3>5, <3>6, <3>7 DEF CallStep
  <2> QED
    BY <2>1, <2>2
<1>2. CASE Move
  BY <1>0, <1>2 DEF Move, AnswerInv, At, Open, TypeOK
<1>3. CASE Tick
  BY <1>0, <1>3 DEF Tick, AnswerInv, At, Open, business, history
<1>4. CASE UNCHANGED vars
  BY <1>0, <1>4 DEF vars, AnswerInv, At, Open
<1> QED
  BY <1>1, <1>2, <1>3, <1>4, StepCases
-----------------------------------------------------------------------------

\* A call that has an answer takes no step.
LEMMA NamedStays ==
    ASSUME LookupInv, [Next]_vars, NEW d \in Named
    PROVE  /\ d \in Named' /\ got'[d] = got[d] /\ before'[d] = before[d]
           /\ ~CallStep(d)
<1>0. TypeOK /\ d \in Calls /\ answer[d] \in Names /\ AnswerInv(d)
  BY DEF LookupInv, Named
<1>1. pc[d] = "done"
  BY <1>0, LookupAssumption DEF AnswerInv
<1>2. ~CallStep(d)
  BY <1>1 DEF CallStep, At, Begin, Hit, Miss, CacheFails, NoDatabase, FindById, FindByIdFails,
              FindByString, FindByStringFails, Store, StoreFails
<1>3. ASSUME NEW c \in Calls, CallStep(c)
      PROVE  answer'[d] = answer[d] /\ got'[d] = got[d] /\ before'[d] = before[d]
  BY <1>0, <1>2, <1>3, CallsAreLocal
<1>4. answer'[d] = answer[d] /\ got'[d] = got[d] /\ before'[d] = before[d]
  <2>1. CASE Move \/ Tick
    BY <2>1 DEF Move, Tick, history
  <2>2. CASE UNCHANGED vars
    BY <2>2 DEF vars
  <2> QED
    BY <1>3, <2>1, <2>2, StepCases
<1> QED
  BY <1>0, <1>2, <1>4 DEF Named

\* What a call begins with, it keeps.
LEMMA CallsBefore ==
    ASSUME TypeOK, NEW c \in Calls, CallStep(c)
    PROVE  before'[c] = before[c] \/ (before'[c] = Named /\ answer' = answer)
BY DEF TypeOK, CallStep, Begin, Hit, Miss, CacheFails, NoDatabase, FindById, FindByIdFails,
       FindByString, FindByStringFails, Store, StoreFails, history

LEMMA BeforeStep == LookupInv /\ [Next]_vars => (\A c \in Calls : before[c] \subseteq Named)'
<1> SUFFICES ASSUME LookupInv, [Next]_vars, NEW d \in Calls, NEW e \in before'[d]
             PROVE  e \in Named'
  OBVIOUS
<1>0. TypeOK /\ before[d] \subseteq Named
  BY DEF LookupInv
<1>1. ASSUME before'[d] = before[d]
      PROVE  e \in Named'
  BY <1>0, <1>1, NamedStays
<1>2. ASSUME before'[d] = Named
      PROVE  e \in Named'
  BY <1>2, NamedStays
<1>3. ASSUME NEW c \in Calls, CallStep(c)
      PROVE  before'[d] \in {before[d], Named}
  BY <1>0, <1>3, CallsBefore, CallsAreLocal
<1>4. CASE Move \/ Tick \/ UNCHANGED vars
  BY <1>1, <1>4 DEF Move, Tick, vars, history
<1> QED
  BY <1>1, <1>2, <1>3, <1>4, StepCases

\* A call is given the name that the cache has, or the one it stores.
LEMMA CallsName ==
    ASSUME TypeOK, NEW c \in Calls, CallStep(c), c \notin Named, c \in Named',
           faults' = 0
    PROVE  /\ before'[c] = before[c]
           /\ \/ /\ cached # NotCached /\ cached' = cached
                 /\ got'[c].change = cached.change
              \/ /\ At(c, "store") /\ Caches(c)
                 /\ got'[c].change = got[c].change
<1> USE LookupAssumption DEF TypeOK, Named, Go, Reply, history
<1>1. CASE Hit(c)
  BY <1>1 DEF Hit, Give
<1>2. CASE Store(c)
  BY <1>2 DEF Store, Give
<1>3. CASE Begin(c) \/ Miss(c) \/ CacheFails(c)
  BY <1>3 DEF Begin, Miss, CacheFails
<1>4. CASE FindById(c) \/ FindByString(c)
  BY <1>4 DEF FindById, FindByString, Found
<1>5. CASE FindByIdFails(c) \/ FindByStringFails(c) \/ NoDatabase(c) \/ StoreFails(c)
  BY <1>5 DEF FindByIdFails, FindByStringFails, NoDatabase, StoreFails, Fault
<1> QED
  BY <1>1, <1>2, <1>3, <1>4, <1>5 DEF CallStep

\* Failures and races are not forgotten.
LEMMA OrderCondition ==
    ASSUME TypeOK, [Next]_vars, faults' = 0, ~raced'
    PROVE  faults = 0 /\ ~raced /\ (Move => \A c \in Calls : ~At(c, "store"))
<1>1. ASSUME NEW c \in Calls, CallStep(c)
      PROVE  faults = 0 /\ ~raced
  BY <1>1 DEF TypeOK, CallStep, Begin, Hit, Miss, CacheFails, NoDatabase, FindById, FindByIdFails,
              FindByString, FindByStringFails, Store, StoreFails, Fault, history
<1>2. ASSUME Move
      PROVE  faults = 0 /\ ~raced
  BY <1>2 DEF Move
<1>3. ASSUME Tick
      PROVE  faults = 0 /\ ~raced
  BY <1>3 DEF Tick, history
<1>4. ASSUME UNCHANGED vars
      PROVE  faults = 0 /\ ~raced
  BY <1>4 DEF vars
<1>5. Move => \A c \in Calls : ~At(c, "store")
  BY DEF Move
<1> QED
  BY <1>1, <1>2, <1>3, <1>4, <1>5, StepCases

LEMMA OrderStep == LookupInv /\ [Next]_vars => OrderInv' /\ NoGoingBack'
<1> SUFFICES ASSUME LookupInv, [Next]_vars, faults' = 0, ~raced'
             PROVE  /\ \A c \in Calls : pc'[c] = "store" => got'[c].change = moves'
                    /\ (cached # NotCached)' => cached'.change <= moves'
                    /\ \A c \in Named' :
                          /\ got'[c].change <= moves'
                          /\ (cached # NotCached)' => got'[c].change <= cached'.change
                    /\ \A c \in Named', d \in Calls :
                          d \in before'[c] => got'[d].change <= got'[c].change
  BY DEF OrderInv, NoGoingBack, At
<1>0. TypeOK /\ faults = 0 /\ ~raced
  BY OrderCondition DEF LookupInv
<1>1. /\ \A c \in Calls : At(c, "store") => got[c].change = moves
      /\ cached # NotCached => cached.change <= moves
      /\ \A c \in Named : /\ got[c].change <= moves
                          /\ cached # NotCached => got[c].change <= cached.change
      /\ \A c \in Named, d \in Calls : d \in before[c] => got[d].change <= got[c].change
      /\ \A c \in Calls : before[c] \subseteq Named
  BY <1>0 DEF LookupInv, OrderInv, NoGoingBack
<1>n. /\ moves \in Int /\ cached.change \in Int
      /\ \A c \in Calls : got[c].change \in Int
  BY <1>0, LookupAssumption DEF TypeOK, Changes
<1>2. ASSUME NEW c \in Calls, CallStep(c)
      PROVE  /\ \A d \in Calls : pc'[d] = "store" => got'[d].change = moves'
             /\ (cached # NotCached)' => cached'.change <= moves'
             /\ \A d \in Named' : /\ got'[d].change <= moves'
                                  /\ (cached # NotCached)' => got'[d].change <= cached'.change
             /\ \A d \in Named', e \in Calls : e \in before'[d] => got'[e].change <= got'[d].change
  <2>1. moves' = moves
    BY <1>2, CallsKeepBusiness
  <2>2. cached' = cached \/ (At(c, "store") /\ cached'.change = moves)
    BY <1>1, <1>2, CallsCache DEF Caches
  <2>3. \A d \in Calls : pc'[d] = "store" => got'[d].change = moves'
    <3>1. pc'[c] = "store" => got'[c].change = moves'
      BY <1>0, <1>2, <2>1, CallsFill
    <3> QED
      BY <1>0, <1>1, <1>2, <2>1, <3>1, CallsAreLocal DEF At
  <2>4. (cached # NotCached)' => cached'.change <= moves'
    BY <1>1, <1>n, <2>1, <2>2 DEF NotCached
  <2>5. ASSUME NEW d \in Named
        PROVE  /\ d \in Named' /\ got'[d].change = got[d].change /\ got[d].change <= moves
               /\ (cached # NotCached)' => got[d].change <= cached'.change
    BY <1>1, <1>n, <2>2, <2>5, NamedStays DEF NotCached
  <2>6. ASSUME NEW d \in Named', d \notin Named
        PROVE  /\ d \in Calls /\ before'[d] = before[d]
               /\ got'[d].change <= moves
               /\ (cached # NotCached)' => got'[d].change <= cached'.change
               /\ \A e \in Named : got[e].change <= got'[d].change
    <3>1. d \in Calls /\ d = c
      BY <1>0, <1>2, <2>6, CallsAreLocal DEF Named
    <3>2. /\ before'[c] = before[c]
          /\ \/ /\ cached # NotCached /\ cached' = cached
                /\ got'[c].change = cached.change
             \/ /\ At(c, "store") /\ Caches(c)
                /\ got'[c].change = got[c].change
      BY <1>0, <1>2, <2>6, <3>1, CallsName
    <3>3. CASE cached # NotCached /\ cached' = cached /\ got'[c].change = cached.change
      BY <1>1, <1>n, <3>1, <3>2, <3>3 DEF NotCached
    <3>4. CASE At(c, "store") /\ Caches(c) /\ got'[c].change = got[c].change
      BY <1>1, <1>n, <3>1, <3>2, <3>4 DEF Caches, Named
    <3> QED
      BY <3>2, <3>3, <3>4
  <2>7. \A d \in Named' : /\ got'[d].change <= moves'
                          /\ (cached # NotCached)' => got'[d].change <= cached'.change
    BY <2>1, <2>5, <2>6
  <2>8. ASSUME NEW d \in Named', NEW e \in Calls, e \in before'[d]
        PROVE  got'[e].change <= got'[d].change
    <3>1. CASE d \in Named
      <4>1. before'[d] = before[d] /\ d \in Calls
        BY <3>1, NamedStays DEF Named
      <4>2. e \in Named /\ got[e].change <= got[d].change
        BY <1>1, <2>8, <3>1, <4>1
      <4> QED
        BY <2>5, <3>1, <4>2
    <3>2. CASE d \notin Named
      <4>1. e \in Named
        BY <1>1, <2>6, <2>8, <3>2
      <4> QED
        BY <2>5, <2>6, <3>2, <4>1
    <3> QED
      BY <3>1, <3>2
  <2> QED
    BY <2>3, <2>4, <2>7, <2>8
<1>3. CASE Move
  <2>1. \A c \in Calls : pc'[c] # "store"
    BY <1>0, <1>3, OrderCondition DEF Move, At
  <2>2. /\ moves' = moves + 1 /\ cached' = cached /\ got' = got /\ before' = before
        /\ Named' = Named
    BY <1>3 DEF Move, Named
  <2>3. \A c \in Named : c \in Calls
    BY DEF Named
  <2> QED
    BY <1>1, <1>n, <2>1, <2>2, <2>3 DEF NotCached
<1>4. CASE Tick
  <2>1. /\ moves' = moves /\ (cached' = cached \/ cached' = NotCached) /\ got' = got
        /\ before' = before /\ pc' = pc /\ Named' = Named
    BY <1>4 DEF Tick, Named, history, business
  <2> QED
    BY <1>1, <2>1 DEF NotCached, At
<1>5. CASE UNCHANGED vars
  <2>1. /\ moves' = moves /\ cached' = cached /\ got' = got
        /\ before' = before /\ pc' = pc /\ Named' = Named
    BY <1>5 DEF vars, Named
  <2> QED
    BY <1>1, <2>1 DEF NotCached, At
<1> QED
  BY <1>2, <1>3, <1>4, <1>5, StepCases

-----------------------------------------------------------------------------

LEMMA InitLookupInv == Init => LookupInv
<1> SUFFICES ASSUME Init PROVE LookupInv
  OBVIOUS
<1> USE LookupAssumption DEF Init
<1>0. MaxTime \in Nat /\ MaxMoves \in Nat /\ MaxFaults \in Nat /\ Ttl \in Nat
  OBVIOUS
<1>1. TypeOK
  <2>1. NotCached \in [name : Names \cup {NoName}, change : Changes,
                       expires : 0..(MaxTime + Ttl) \cup {Never}]
    BY <1>0 DEF NotCached, Changes
  <2>2. got \in [Calls -> [name : Names \cup {NoName}, change : Changes,
                         at : Times \cup {Never}]]
    BY <1>0 DEF NotRead, Changes
  <2>3. byId \in BOOLEAN /\ raced \in BOOLEAN
    OBVIOUS
  <2> QED
    BY <1>0, <2>1, <2>2, <2>3 DEF TypeOK, States, Times, Changes
<1>2. CacheInv
  BY DEF CacheInv
<1>3. \A c \in Calls : FillInv(c) /\ AnswerInv(c)
  BY DEF FillInv, AnswerInv, At, Open
<1>4. Named = {}
  BY DEF Named
<1>5. (\A c \in Calls : before[c] \subseteq Named) /\ OrderInv /\ NoGoingBack
  BY <1>4 DEF OrderInv, NoGoingBack, At
<1> QED
  BY <1>1, <1>2, <1>3, <1>5 DEF LookupInv

LEMMA NextLookupInv == LookupInv /\ [Next]_vars => LookupInv'
<1> SUFFICES ASSUME LookupInv, [Next]_vars PROVE LookupInv'
  OBVIOUS
<1>1. TypeOK'
  BY StepTypeOK DEF LookupInv
<1> QED
  BY <1>1, CacheStep, FillStep, AnswerStep, BeforeStep, OrderStep DEF LookupInv

\* However calls, changes of the business and failures of either store
\* interleave, what is cached was right when it was read, who is told that
\* there is no business had a reason, and names do not go back.
THEOREM LookupInvariant == Spec => []LookupInv
BY InitLookupInv, NextLookupInv, PTL DEF Spec

\* A 404 of a business that was always there is that of a failed read.
THEOREM LookupNotFound == Spec => []NotFoundHasAReason
<1>1. LookupInv => NotFoundHasAReason
  BY DEF LookupInv, AnswerInv, NotFoundHasAReason
<1> QED
  BY <1>1, LookupInvariant, PTL

\* Names do not go back while nothing fails and no change races with a store.
THEOREM LookupNoGoingBack == Spec => []NoGoingBack
<1>1. LookupInv => NoGoingBack
  BY DEF LookupInv
<1> QED
  BY <1>1, LookupInvariant, PTL
-----------------------------------------------------------------------------
(* The lookup implements RecentName.                                        *)

LEMMA InitRefines == Init => Promise!Init
BY DEF Init, Promise!Init, Open, States

\* A call that goes on waiting changes nothing that the caller can see.
LEMMA Waits ==
    ASSUME TypeOK, NEW c \in Calls, c \in Open, NEW next, Go(c, next),
           next \notin {"idle", "done"},
           UNCHANGED <<now, name, last, answer, gone, failed>>
    PROVE  UNCHANGED Promise!vars
<1>1. Open' = Open
  BY DEF TypeOK, Open, Go
<1> QED
  BY <1>1 DEF Promise!vars

\* A call that ends with an acceptable answer is a Reply of the contract.
LEMMA Replies ==
    ASSUME TypeOK, NEW c \in Calls, c \in Open, NEW a, Reply(c, a),
           UNCHANGED <<now, name, last, gone>>,
           failed' \in {failed, failed \cup {c}},
           \/ a \in Names /\ HadSince(a, now - (Ttl + Lag - 1))
           \/ a = "missing" /\ c \in gone \cup failed
           \/ a = "error" /\ c \in failed'
    PROVE  Promise!Reply(c)
<1>1. Open' = Open \ {c}
  BY DEF TypeOK, Open, Reply, Go
<1>2. a \in Promise!Replies /\ Promise!Acceptable(c, a)
  BY DEF Promise!Replies, Promise!Acceptable, Promise!HadSince, HadSince
<1> QED
  BY <1>1, <1>2 DEF Promise!Reply, Reply

LEMMA StepRefines ==
    ASSUME LookupInv, [Next]_vars
    PROVE  [Promise!Next]_(Promise!vars)
<1> USE LookupAssumption
<1>0. TypeOK /\ CacheInv /\ \A c \in Calls : FillInv(c) /\ AnswerInv(c)
  BY DEF LookupInv
<1>n. now \in Int /\ Ttl \in Int /\ Lag \in Int /\ 0 <= Ttl /\ 0 <= Lag
  BY <1>0 DEF TypeOK, Times
<1>1. ASSUME NEW c \in Calls, Begin(c)
      PROVE  Promise!Begin(c)
  <2>1. Open' = Open \cup {c} /\ c \notin Open
    BY <1>0, <1>1 DEF TypeOK, Begin, Open, Go, At
  <2>2. answer[c] = "none"
    BY <1>0, <1>1 DEF AnswerInv, Begin, At
  <2> QED
    BY <1>1, <2>1, <2>2 DEF Begin, Promise!Begin, business
<1>2. ASSUME NEW c \in Calls, Hit(c)
      PROVE  Promise!Reply(c)
  <2>1. c \in Open
    BY <1>2 DEF Hit, At, Open
  <2>2. /\ cached.name \in Names /\ cached.expires \in Int /\ now < cached.expires
        /\ HadSince(cached.name, cached.expires - Ttl - Lag)
    BY <1>0, <1>2 DEF Hit, CacheInv, TypeOK, Times
  <2>3. HadSince(cached.name, now - (Ttl + Lag - 1))
    BY <1>0, <1>n, <2>2, HadSinceEarlier
  <2> QED
    BY <1>0, <1>2, <2>1, <2>2, <2>3, Replies DEF Hit, Give, business, history
<1>3. ASSUME NEW c \in Calls, Miss(c) \/ CacheFails(c)
      PROVE  UNCHANGED Promise!vars
  <2>1. c \in Open /\ Go(c, "id") /\ UNCHANGED <<now, name, last, answer, gone, failed>>
    BY <1>3 DEF Miss, CacheFails, At, Open, business, history
  <2> QED
    BY <1>0, <2>1, Waits
<1>4. ASSUME NEW c \in Calls, FindById(c) \/ FindByString(c)
      PROVE  Promise!Reply(c) \/ UNCHANGED Promise!vars
  <2>1. c \in Open /\ UNCHANGED <<now, name, last, gone, failed>>
    BY <1>4 DEF FindById, FindByString, At, Open, business, history
  <2>2. \/ Go(c, "string") /\ answer' = answer
        \/ Go(c, "store") /\ answer' = answer
        \/ Reply(c, "missing") /\ c \in gone \cup failed
    <3>1. CASE FindById(c)
      BY <1>0, <2>1, <3>1 DEF FindById, Found, AnswerInv, TypeOK, States
    <3>2. CASE FindByString(c)
      BY <1>0, <2>1, <3>2 DEF FindByString, Found, AnswerInv, TypeOK, States
    <3> QED
      BY <1>4, <3>1, <3>2
  <2>3. CASE Reply(c, "missing") /\ c \in gone \cup failed
    BY <1>0, <2>1, <2>3, Replies
  <2>4. CASE (Go(c, "string") \/ Go(c, "store")) /\ answer' = answer
    BY <1>0, <2>1, <2>4, Waits
  <2> QED
    BY <2>2, <2>3, <2>4
<1>5. ASSUME NEW c \in Calls, FindByIdFails(c)
      PROVE  Promise!ReadFails(c)
  <2>1. c \in Open /\ Open' = Open
    BY <1>0, <1>5 DEF FindByIdFails, At, Go, Open, TypeOK
  <2> QED
    BY <1>5, <2>1 DEF FindByIdFails, Promise!ReadFails, business
<1>6. ASSUME NEW c \in Calls, FindByStringFails(c) \/ NoDatabase(c)
      PROVE  Promise!Reply(c)
  <2>1. c \in Open /\ Reply(c, "error") /\ failed' = failed \cup {c}
        /\ UNCHANGED <<now, name, last, gone>>
    BY <1>6 DEF FindByStringFails, NoDatabase, At, Open, business
  <2> QED
    BY <1>0, <2>1, Replies
<1>7. ASSUME NEW c \in Calls, Store(c) \/ StoreFails(c)
      PROVE  Promise!Reply(c)
  <2>1. /\ c \in Open /\ At(c, "store") /\ Reply(c, got[c].name)
        /\ UNCHANGED <<now, name, last, gone, failed>>
    BY <1>7 DEF Store, StoreFails, Give, At, Open, business, history
  <2>2. /\ got[c].name \in Names /\ got[c].at \in Int /\ now <= got[c].at + Lag
        /\ HadSince(got[c].name, got[c].at)
    BY <1>0, <2>1 DEF FillInv, TypeOK, Times
  <2>3. HadSince(got[c].name, now - (Ttl + Lag - 1))
    BY <1>0, <1>n, <2>2, HadSinceEarlier
  <2> QED
    BY <1>0, <2>1, <2>2, <2>3, Replies
<1>8. ASSUME Move
      PROVE  Promise!Move
  <2>1. Open' = Open
    BY <1>8 DEF Move, Open
  <2> QED
    BY <1>8, <2>1 DEF Move, Promise!Move, States
<1>9. ASSUME Tick
      PROVE  Promise!Tick
  <2>1. Open' = Open
    BY <1>9 DEF Tick, Open
  <2> QED
    BY <1>9, <2>1 DEF Tick, Promise!Tick, business, history
<1>10. ASSUME UNCHANGED vars
       PROVE  UNCHANGED Promise!vars
  BY <1>10 DEF vars, Promise!vars, Open
<1>11. ASSUME NEW c \in Calls, CallStep(c)
       PROVE  [Promise!Next]_(Promise!vars)
  BY <1>1, <1>2, <1>3, <1>4, <1>5, <1>6, <1>7, <1>11 DEF CallStep, Promise!Next
<1> QED
  BY <1>8, <1>9, <1>10, <1>11, StepCases DEF Promise!Next

\* For any time to live and any delay of a store, the lookup answers with names
\* no older than the two together, with "not found" only for a reason and with
\* an error only after a failed read: it implements RecentName.
THEOREM LookupImplementsRecentName == Spec => ImplementsRecentName
<1>1. Init => Promise!Init
  BY InitRefines
<1>2. LookupInv /\ [Next]_vars => [Promise!Next]_(Promise!vars)
  BY StepRefines
<1> QED
  BY <1>1, <1>2, LookupInvariant, PTL DEF Spec, ImplementsRecentName, Promise!Spec
=============================================================================
