---------------------------- MODULE BusinessLookup ---------------------------
(***************************************************************************)
(* get_database_name of app/services/business_service.py for one business:  *)
(* a read of the cache in Redis, two reads of the platform database, a      *)
(* write of the cache.  No code ever takes a name out of the cache; only    *)
(* its time to live does.                                                   *)
(*                                                                         *)
(* The businesses belong to another program, which may move one to another  *)
(* database, make it or remove it at any time (Move).                       *)
(***************************************************************************)
EXTENDS Integers

CONSTANTS Calls, Names,
          NoDocument, NoName, \* no such business; one without databaseName
          Ttl,       \* expire of the cached name
          Lag,       \* the longest time from the read of a name to its store
          MaxTime,   \* bound: ticks of the clock
          MaxMoves,  \* bound: changes of the business
          MaxFaults, \* bound: calls of Redis and MongoDB that raise, and calls
                     \* in a worker without MongoDB
          Never

ASSUME LookupAssumption ==
    /\ Ttl \in Nat \ {0}
    /\ {Lag, MaxTime, MaxMoves, MaxFaults} \subseteq Nat
    /\ NoDocument # NoName
    /\ {NoDocument, NoName, "none", "missing", "error"} \cap Names = {}
    /\ Never \notin Int

VARIABLES now, name, last, answer, gone, failed,  \* as in RecentName
          byId,    \* is the document's _id an ObjectId, or the string itself?
          moves,   \* how often the business changed
          cached,  \* the cached name, of which change it is, when it expires
          pc,      \* pc[c]: what call c waits for
          got,     \* got[c]: the name c is to store, when it was read, and the
                   \* change of the business it came with
          before,  \* before[c]: the calls that were given a name before c began
          raced,   \* did the business change between a read and its store?
          faults   \* calls that raised

vars == <<now, name, last, answer, gone, failed, byId, moves, cached, pc, got,
          before, raced, faults>>

business == <<name, last, byId, moves>>
history == <<gone, failed, before, raced>>

States == Names \cup {NoDocument, NoName}
Open == {c \in Calls : pc[c] \notin {"idle", "done"}}

NotCached == [name |-> NoName, change |-> 0, expires |-> Never]
NotRead == [name |-> NoName, change |-> 0, at |-> Never]
Times == 0..MaxTime
Changes == 0..MaxMoves

TypeOK ==
    /\ now \in Times
    /\ name \in States
    /\ last \in [Names -> Times \cup {Never}]
    /\ answer \in [Calls -> Names \cup {"none", "missing", "error"}]
    /\ gone \in SUBSET Calls
    /\ failed \in SUBSET Calls
    /\ byId \in BOOLEAN
    /\ moves \in Changes
    /\ cached \in [name : Names \cup {NoName}, change : Changes,
                   expires : 0..(MaxTime + Ttl) \cup {Never}]
    /\ pc \in [Calls -> {"idle", "cache", "id", "string", "store", "done"}]
    /\ got \in [Calls -> [name : Names \cup {NoName}, change : Changes,
                          at : Times \cup {Never}]]
    /\ before \in [Calls -> SUBSET Calls]
    /\ raced \in BOOLEAN
    /\ faults \in 0..MaxFaults

Init ==
    /\ now = 0
    /\ name \in States
    /\ last = [n \in Names |-> Never]
    /\ answer = [c \in Calls |-> "none"]
    /\ gone = {} /\ failed = {}
    /\ byId \in BOOLEAN
    /\ moves = 0
    /\ cached = NotCached
    /\ pc = [c \in Calls |-> "idle"]
    /\ got = [c \in Calls |-> NotRead]
    /\ before = [c \in Calls |-> {}]
    /\ raced = FALSE
    /\ faults = 0

-----------------------------------------------------------------------------

At(c, here) == pc[c] = here
Go(c, next) == pc' = [pc EXCEPT ![c] = next]

Fault ==
    /\ faults < MaxFaults
    /\ faults' = faults + 1

Reply(c, a) ==
    /\ Go(c, "done")
    /\ answer' = [answer EXCEPT ![c] = a]

\* The name of a record of a name; of that record only the change is remembered.
Give(c, r) ==
    /\ Reply(c, r.name)
    /\ got' = [got EXCEPT ![c] = [name |-> NoName, change |-> r.change, at |-> Never]]

\* The calls that were given a name.
Named == {c \in Calls : answer[c] \in Names}

Begin(c) ==
    /\ At(c, "idle")
    /\ Go(c, "cache")
    /\ gone' = IF name \in Names THEN gone ELSE gone \cup {c}
    /\ before' = [before EXCEPT ![c] = Named]
    /\ UNCHANGED <<now, business, answer, failed, cached, got, raced, faults>>

\* Mutant: a hit starts the time to live anew.
HitSlides(c) ==
    /\ At(c, "cache")
    /\ cached # NotCached
    /\ Give(c, cached)
    /\ cached' = [cached EXCEPT !.expires = now + Ttl]
    /\ UNCHANGED <<now, business, history, faults>>

\* The cache has a name, which is the answer.
Hit(c) ==
    /\ At(c, "cache")
    /\ cached # NotCached
    /\ Give(c, cached)
    /\ UNCHANGED <<now, business, history, cached, faults>>

\* The cache has none.
Miss(c) ==
    /\ At(c, "cache")
    /\ cached = NotCached
    /\ Go(c, "id")
    /\ UNCHANGED <<now, business, answer, history, cached, got, faults>>

\* cache_get swallows what Redis raises.
CacheFails(c) ==
    /\ At(c, "cache")
    /\ Fault
    /\ Go(c, "id")
    /\ UNCHANGED <<now, business, answer, history, cached, got>>

\* get_platform_db raises in a worker that went on without MongoDB.
NoDatabase(c) ==
    /\ At(c, "id")
    /\ Fault
    /\ failed' = failed \cup {c}
    /\ Reply(c, "error")
    /\ UNCHANGED <<now, business, gone, before, raced, cached, got>>

\* A document was found: its name goes to the cache, if it has one.
Found(c) ==
    IF name = NoName
    THEN Reply(c, "missing") /\ UNCHANGED got
    ELSE /\ got' = [got EXCEPT ![c] = [name |-> name, change |-> moves, at |-> now]]
         /\ Go(c, "store")
         /\ UNCHANGED answer

\* Mutant: a business that the ObjectId does not find is not found at all.
FindByIdOnly(c) ==
    /\ At(c, "id")
    /\ IF byId /\ name # NoDocument
       THEN Found(c)
       ELSE Reply(c, "missing") /\ UNCHANGED got
    /\ UNCHANGED <<now, business, history, cached, faults>>

\* find_one by ObjectId.
FindById(c) ==
    /\ At(c, "id")
    /\ IF byId /\ name # NoDocument
       THEN Found(c)
       ELSE Go(c, "string") /\ UNCHANGED <<answer, got>>
    /\ UNCHANGED <<now, business, history, cached, faults>>

\* The id is no ObjectId, or the read raises: both are swallowed.
FindByIdFails(c) ==
    /\ At(c, "id")
    /\ Fault
    /\ failed' = failed \cup {c}
    /\ Go(c, "string")
    /\ UNCHANGED <<now, business, answer, gone, before, raced, cached, got>>

\* find_one by the string; nothing found here is a business not found.
FindByString(c) ==
    /\ At(c, "string")
    /\ IF ~byId /\ name # NoDocument
       THEN Found(c)
       ELSE Reply(c, "missing") /\ UNCHANGED got
    /\ UNCHANGED <<now, business, history, cached, faults>>

\* What this read raises goes on to the caller.
FindByStringFails(c) ==
    /\ At(c, "string")
    /\ Fault
    /\ failed' = failed \cup {c}
    /\ Reply(c, "error")
    /\ UNCHANGED <<now, business, gone, before, raced, cached, got>>

\* Mutant: the time to live is given in milliseconds.
CachesMillis(c) ==
    cached' = [name |-> got[c].name, change |-> got[c].change,
               expires |-> now + 1000 * Ttl]

\* Mutant: SETEX with NX, which keeps a name that is there.
CachesFirst(c) ==
    cached' = IF cached = NotCached
              THEN [name |-> got[c].name, change |-> got[c].change,
                    expires |-> now + Ttl]
              ELSE cached

\* SETEX, over whatever is in the cache by now.
Caches(c) ==
    cached' = [name |-> got[c].name, change |-> got[c].change, expires |-> now + Ttl]

Store(c) ==
    /\ At(c, "store")
    /\ Caches(c)
    /\ Give(c, got[c])
    /\ UNCHANGED <<now, business, history, faults>>

\* cache_set swallows what Redis raises, and the name may be stored.
StoreFails(c) ==
    /\ At(c, "store")
    /\ Fault
    /\ Caches(c) \/ UNCHANGED cached
    /\ Give(c, got[c])
    /\ UNCHANGED <<now, business, history>>

\* The platform changes the business.
Move ==
    /\ moves < MaxMoves
    /\ moves' = moves + 1
    /\ name' \in States \ {name}
    /\ last' = [n \in Names |-> IF n = name THEN now ELSE last[n]]
    /\ gone' = IF name' \in Names THEN gone ELSE gone \cup Open
    /\ raced' = (raced \/ \E c \in Calls : At(c, "store"))
    /\ UNCHANGED <<now, answer, failed, byId, cached, pc, got, before, faults>>

\* Time passes, at most Lag ticks of it between a read and its store.
Tick ==
    /\ now < MaxTime
    /\ \A c \in Calls : At(c, "store") => now < got[c].at + Lag
    /\ now' = now + 1
    /\ cached' = IF cached.expires = now + 1 THEN NotCached ELSE cached
    /\ UNCHANGED <<business, answer, history, pc, got, faults>>

Next ==
    \/ \E c \in Calls :
          \/ Begin(c) \/ Hit(c) \/ Miss(c) \/ CacheFails(c)
          \/ NoDatabase(c) \/ FindById(c) \/ FindByIdFails(c)
          \/ FindByString(c) \/ FindByStringFails(c)
          \/ Store(c) \/ StoreFails(c)
    \/ Move
    \/ Tick

Spec == Init /\ [][Next]_vars

-----------------------------------------------------------------------------

\* The lookup promises names that are younger than the life of a cached name and
\* the time it may wait for its store together.
Promise == INSTANCE RecentName WITH Window <- Ttl + Lag - 1, open <- Open

\* However reads, stores, changes and failures interleave, the lookup answers
\* as RecentName allows: it implements that specification.
ImplementsRecentName == Promise!Spec

HadSince(n, t) == n = name \/ (last[n] # Never /\ last[n] >= t)

\* A name is in the cache with an expiry, and was right at most Lag before it
\* got there.
CacheInv ==
    cached # NotCached =>
        /\ cached.name \in Names
        /\ cached.expires # Never
        /\ now < cached.expires
        /\ cached.expires <= now + Ttl
        /\ HadSince(cached.name, cached.expires - Ttl - Lag)

\* A name on its way to the cache was right when it was read, not long ago.
FillInv(c) ==
    At(c, "store") =>
        /\ got[c].name \in Names
        /\ got[c].at # Never
        /\ got[c].at <= now
        /\ now <= got[c].at + Lag
        /\ HadSince(got[c].name, got[c].at)

\* A call has no answer before it is done; whoever finds no business did so for
\* a reason: a read by ObjectId that found nothing, although documents have
\* ObjectIds, failed or met no document.
AnswerInv(c) ==
    /\ pc[c] # "done" => answer[c] = "none"
    /\ (At(c, "string") /\ byId) => c \in gone \cup failed
    /\ (c \in Open /\ name \notin Names) => c \in gone
    /\ answer[c] = "missing" => c \in gone \cup failed

\* While nothing fails and no change races with a store, what goes to the cache
\* is of the last change, and no call was given a later name than the cache has.
OrderInv ==
    (faults = 0 /\ ~raced) =>
        /\ \A c \in Calls : At(c, "store") => got[c].change = moves
        /\ cached # NotCached => cached.change <= moves
        /\ \A c \in Named : /\ got[c].change <= moves
                            /\ cached # NotCached => got[c].change <= cached.change

\* A 404 for a business that was there all through the call has a failed read
\* to blame: the cache never remembers that a business was missing.
NotFoundHasAReason ==
    \A c \in Calls :
        answer[c] = "missing" => c \in gone \cup failed

\* Names do not go back: as long as nothing fails and the business does not
\* change between a read and its store, a call that begins after another was
\* answered never gets an older name than that one.
NoGoingBack ==
    (faults = 0 /\ ~raced) =>
        \A c \in Named, d \in Calls : d \in before[c] => got[d].change <= got[c].change

\* The inductive invariant of the lookup.
LookupInv ==
    /\ TypeOK
    /\ CacheInv
    /\ \A c \in Calls : FillInv(c) /\ AnswerInv(c)
    /\ \A c \in Calls : before[c] \subseteq Named
    /\ OrderInv
    /\ NoGoingBack
=============================================================================
