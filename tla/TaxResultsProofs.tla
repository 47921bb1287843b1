-------------------------- MODULE TaxResultsProofs --------------------------
(***************************************************************************)
(* What TaxResults guarantees for any number of calls, readers, invoices    *)
(* and failing operations.                                                 *)
(***************************************************************************)
EXTENDS TaxResults, TLAPS

\* Every step keeps the types.
LEMMA StepTypeOK == TypeOK /\ [Next]_vars => TypeOK'
<1> SUFFICES ASSUME TypeOK, [Next]_vars PROVE TypeOK'
  OBVIOUS
<1> USE YearAssumption DEF TypeOK, Results, Docs, Go, End, At, Fault, Doc
<1>1. ASSUME NEW i \in Invoices, Issue(i)
      PROVE  TypeOK'
  BY <1>1 DEF Issue
<1>2. CASE EditProducts
  BY <1>2 DEF EditProducts
<1>3. ASSUME NEW c \in Calls, Post(c)
      PROVE  TypeOK'
  BY <1>3 DEF Post, Acked
<1>4. ASSUME NEW c \in Calls, ReadInvoices(c)
      PROVE  TypeOK'
  BY <1>4 DEF ReadInvoices
<1>5. ASSUME NEW c \in Calls, ReadProducts(c)
      PROVE  TypeOK'
  BY <1>5 DEF ReadProducts
<1>6. ASSUME NEW c \in Calls, ReadFails(c)
      PROVE  TypeOK'
  BY <1>6 DEF ReadFails
<1>7. ASSUME NEW c \in Calls, CreateIndex(c)
      PROVE  TypeOK'
  BY <1>7 DEF CreateIndex
<1>8. ASSUME NEW c \in Calls, Match(c)
      PROVE  TypeOK'
  <2>1. Doc(c) \in Docs
    OBVIOUS
  <2>2. docs' \in SUBSET Docs
    BY <1>8, <2>1 DEF Match, UpdateMatched
  <2>3. pc' \in [Calls -> {"idle", "invoices", "products", "index", "match", "insert", "done"}]
    BY <1>8 DEF Match, UpdateMatched
  <2>4. told' \in [Calls -> {"none", "success", "error"}]
    BY <1>8 DEF Match, UpdateMatched
  <2>5. indexed' \in BOOLEAN /\ faults' \in 0..MaxFaults
    BY <1>8 DEF Match, UpdateMatched
  <2>6. UNCHANGED <<issued, products, read, seen, past>>
    BY <1>8 DEF Match
  <2> QED
    BY <2>2, <2>3, <2>4, <2>5, <2>6
<1>9. ASSUME NEW c \in Calls, Insert(c)
      PROVE  TypeOK'
  <2>1. Doc(c) \in Docs
    OBVIOUS
  <2>2. docs' \in SUBSET Docs
    BY <1>9, <2>1 DEF Insert, UpdateMatched
  <2>3. pc' \in [Calls -> {"idle", "invoices", "products", "index", "match", "insert", "done"}]
    BY <1>9 DEF Insert, UpdateMatched
  <2>4. told' \in [Calls -> {"none", "success", "error"}]
    BY <1>9 DEF Insert, UpdateMatched
  <2>5. indexed' \in BOOLEAN /\ faults' \in 0..MaxFaults
    BY <1>9 DEF Insert, UpdateMatched
  <2>6. UNCHANGED <<issued, products, read, seen, past>>
    BY <1>9 DEF Insert
  <2> QED
    BY <2>2, <2>3, <2>4, <2>5, <2>6
<1>10. ASSUME NEW c \in Calls, PersistFails(c)
       PROVE  TypeOK'
  <2>1. Doc(c) \in Docs
    OBVIOUS
  <2>2. docs' \in SUBSET Docs
    BY <1>10, <2>1 DEF PersistFails
  <2>3. pc' \in [Calls -> {"idle", "invoices", "products", "index", "match", "insert", "done"}]
    BY <1>10 DEF PersistFails
  <2>4. told' \in [Calls -> {"none", "success", "error"}]
    BY <1>10 DEF PersistFails
  <2>5. indexed' \in BOOLEAN
    BY <1>10 DEF PersistFails
  <2>6. faults' \in 0..MaxFaults /\ UNCHANGED <<issued, products, read, seen, past>>
    BY <1>10 DEF PersistFails
  <2> QED
    BY <2>2, <2>3, <2>4, <2>5, <2>6
<1>11. ASSUME NEW g \in Gets, Get(g)
       PROVE  TypeOK'
  BY <1>11 DEF Get
<1>12. CASE UNCHANGED vars
  BY <1>12 DEF vars
<1> QED
  BY <1>1, <1>2, <1>3, <1>4, <1>5, <1>6, <1>7, <1>8, <1>9, <1>10, <1>11, <1>12 DEF Next

-----------------------------------------------------------------------------

\* A step of the upsert and its exceptions stores the result of the call, or
\* leaves the document that there is, or stands before an insert.
Stores(c) ==
    /\ pc[c] \in {"match", "insert"}
    /\ docs' = {Doc(c)}
    /\ End(c, "success")
    /\ indexed' = indexed

Keeps(c) ==
    /\ docs' = docs
    /\ (docs # {} /\ pc[c] = "insert") \/ faults' # 0
    /\ End(c, "success")
    /\ indexed => indexed'

GoesToInsert(c) ==
    /\ pc[c] = "match"
    /\ docs = {} /\ docs' = docs
    /\ Go(c, "insert")
    /\ UNCHANGED <<told, indexed>>

Persists(c) ==
    /\ pc[c] \in {"index", "match", "insert"}
    /\ Stores(c) \/ Keeps(c) \/ GoesToInsert(c)
    /\ faults' \in {faults, faults + 1}
    /\ UNCHANGED <<issued, products, read, seen, past>>

\* These are all the steps of the upsert, as there is one document and an index.
LEMMA PersistSteps ==
    ASSUME TaxInv, NEW c \in Calls, Match(c) \/ Insert(c) \/ PersistFails(c)
    PROVE  Persists(c)
<1> USE YearAssumption DEF TaxInv, DocsInv, CallInv, At, End, Go
<1>1. CASE Match(c)
  <2>1. CASE UpdateMatched(c)
    BY <1>1, <2>1 DEF Match, UpdateMatched, Persists, Stores
  <2>2. CASE docs = {} /\ Go(c, "insert") /\ UNCHANGED <<docs, told>>
    BY <1>1, <2>2 DEF Match, Persists, GoesToInsert
  <2> QED
    BY <1>1, <2>1, <2>2 DEF Match
<1>2. CASE Insert(c)
  <2>1. indexed
    BY <1>2 DEF Insert
  <2>2. CASE docs = {} /\ docs' = docs \cup {Doc(c)} /\ End(c, "success")
    BY <1>2, <2>2 DEF Insert, Persists, Stores
  <2>3. CASE UpdateMatched(c)
    BY <1>2, <2>3 DEF Insert, UpdateMatched, Persists, Stores
  <2>4. CASE docs # {} /\ End(c, "success") /\ UNCHANGED docs
    BY <1>2, <2>4 DEF Insert, Persists, Keeps
  <2> QED
    BY <1>2, <2>1, <2>2, <2>3, <2>4 DEF Insert
<1>3. CASE PersistFails(c)
  <2>1. faults' = faults + 1 /\ faults' # 0
    BY <1>3 DEF PersistFails, Fault, TypeOK
  <2>2. CASE UNCHANGED <<docs, indexed>>
    BY <1>3, <2>1, <2>2 DEF PersistFails, Persists, Keeps
  <2>3. CASE At(c, "index") /\ indexed' = TRUE /\ UNCHANGED docs
    BY <1>3, <2>1, <2>3 DEF PersistFails, Persists, Keeps
  <2>4. CASE /\ At(c, "match") /\ docs # {} /\ UNCHANGED indexed
             /\ \E d \in docs : docs' = (docs \ {d}) \cup {Doc(c)}
    BY <1>3, <2>1, <2>4 DEF PersistFails, Persists, Stores
  <2>5. CASE At(c, "insert") /\ docs = {} /\ docs' = {Doc(c)} /\ UNCHANGED indexed
    BY <1>3, <2>1, <2>5 DEF PersistFails, Persists, Stores
  <2> QED
    BY <1>3, <2>2, <2>3, <2>4, <2>5 DEF PersistFails
<1> QED
  BY <1>1, <1>2, <1>3

\* What a step does to the rest of the invariant.
Rest ==
    /\ DocsInv
    /\ \A c \in Calls : CallInv(c) /\ ReadInv(c)
    /\ ResultIsCurrent
    /\ LaterCallWins

LEMMA PersistRest ==
    ASSUME TaxInv, TypeOK', NEW c \in Calls, Persists(c)
    PROVE  Rest'
<1> USE YearAssumption DEF TaxInv, TypeOK, Persists, Acked, Go, End
<1>1. pc[c] # "done" /\ told[c] = "none" /\ c \notin Acked
  BY DEF CallInv
<1>2. Acked \subseteq Acked'
  BY DEF Stores, Keeps, GoesToInsert
<1>3. faults' = 0 => faults = 0
  OBVIOUS
<1>4. \A b \in Calls : CallInv(b)'
  <2> SUFFICES ASSUME NEW b \in Calls PROVE CallInv(b)'
    OBVIOUS
  <2>1. CallInv(b)
    OBVIOUS
  <2>2. (told[b] = "none" <=> pc[b] # "done")'
    <3>1. CASE b = c
      BY <1>1, <3>1 DEF Stores, Keeps, GoesToInsert
    <3>2. CASE b # c
      <4>1. pc'[b] = pc[b]
        BY <3>2 DEF Stores, Keeps, GoesToInsert
      <4>2. told'[b] = told[b]
        BY <3>2 DEF Stores, Keeps, GoesToInsert
      <4> QED
        BY <2>1, <4>1, <4>2 DEF CallInv
    <3> QED
      BY <3>1, <3>2
  <2>3. pc'[b] # "idle" \/ pc'[b] = pc[b]
    BY DEF Stores, Keeps, GoesToInsert
  <2>4. (past[b].acked \subseteq Acked)'
    BY <1>2, <2>1 DEF CallInv
  <2>5. pc'[b] \in {"match", "insert"} => indexed'
    <3>1. pc'[b] \in {"match", "insert"} => pc[b] \in {"match", "insert"}
      BY DEF Stores, Keeps, GoesToInsert
    <3>2. indexed => indexed'
      BY DEF Stores, Keeps, GoesToInsert
    <3> QED
      BY <2>1, <3>1, <3>2 DEF CallInv
  <2> QED
    BY <2>1, <2>2, <2>3, <2>4, <2>5 DEF CallInv
<1>5. \A b \in Calls : ReadInv(b)'
  BY DEF Stores, Keeps, GoesToInsert, ReadInv, InYear
<1>6. CASE Stores(c)
  <2>1. indexed /\ c \in Acked'
    BY <1>6 DEF Stores, CallInv
  <2>2. DocsInv'
    BY <1>6, <2>1, <1>3 DEF Stores, DocsInv, Doc
  <2>3. ResultIsCurrent'
    BY <1>6 DEF Stores, ResultIsCurrent, ReadInv, Doc, InYear, Results
  <2>4. LaterCallWins'
    BY <1>6, <1>1 DEF Stores, LaterCallWins, CallInv, Doc
  <2> QED
    BY <1>4, <1>5, <2>2, <2>3, <2>4 DEF Rest
<1>7. CASE Keeps(c)
  <2>1. DocsInv'
    <3> USE DEF Keeps, DocsInv
    <3>1. (\A d, e \in docs : d = e)'
      BY <1>7
    <3>5. (\A d \in docs : d.by \in Acked)'
      BY <1>7, <1>2
    <3>2. docs' # {} => indexed'
      BY <1>7
    <3>3. faults' = 0 => docs' # {}
      BY <1>7
    <3>4. ASSUME NEW b \in Calls, faults' = 0, past'[b].acked # {}
          PROVE  pc'[b] # "insert"
      <4>1. pc[b] # "insert"
        BY <1>3, <3>4
      <4>2. pc'[b] = pc[b] \/ pc'[b] = "done"
        BY <1>7
      <4> QED
        BY <4>1, <4>2
    <3> QED
      BY <3>1, <3>2, <3>3, <3>4, <3>5
  <2>2. ResultIsCurrent'
    BY <1>7 DEF Keeps, ResultIsCurrent, InYear
  <2>3. ASSUME faults' = 0, NEW b \in Acked', NEW d \in docs'
        PROVE  d.by \notin past[b].acked
    BY <1>7, <1>3, <2>3 DEF Keeps, DocsInv, LaterCallWins, CallInv
  <2>4. LaterCallWins'
    BY <2>3 DEF LaterCallWins
  <2> QED
    BY <1>4, <1>5, <2>1, <2>2, <2>4 DEF Rest
<1>8. CASE GoesToInsert(c)
  <2>1. faults = 0 => past[c].acked = {}
    BY <1>8 DEF GoesToInsert, DocsInv, CallInv
  <2>2. DocsInv'
    BY <1>8, <2>1, <1>3 DEF GoesToInsert, DocsInv
  <2>3. ResultIsCurrent' /\ LaterCallWins'
    BY <1>8 DEF GoesToInsert, ResultIsCurrent, LaterCallWins
  <2> QED
    BY <1>4, <1>5, <2>2, <2>3 DEF Rest
<1> QED
  BY <1>6, <1>7, <1>8

\* Every step keeps the invariant.
LEMMA StepInv == TaxInv /\ [Next]_vars => TaxInv'
<1> SUFFICES ASSUME TaxInv, [Next]_vars PROVE TaxInv'
  OBVIOUS
<1>1. TypeOK'
  BY StepTypeOK DEF TaxInv
<1> SUFFICES Rest'
  BY <1>1 DEF TaxInv, Rest
<1> USE YearAssumption DEF TaxInv, TypeOK, Acked, Go, End, At, Fault
<1>2. ASSUME NEW i \in Invoices, Issue(i)
      PROVE  Rest'
  <2>1. \A b \in Calls : CallInv(b)' /\ ReadInv(b)'
    BY <1>2 DEF Issue, CallInv, ReadInv, InYear
  <2>2. DocsInv' /\ LaterCallWins'
    BY <1>2 DEF Issue, DocsInv, LaterCallWins
  <2>3. ResultIsCurrent'
    BY <1>2 DEF Issue, ResultIsCurrent, InYear
  <2> QED
    BY <2>1, <2>2, <2>3 DEF Rest
<1>3. CASE EditProducts
  <2>1. \A b \in Calls : CallInv(b)' /\ ReadInv(b)'
    BY <1>3 DEF EditProducts, CallInv, ReadInv, InYear, Results
  <2>2. DocsInv' /\ LaterCallWins'
    BY <1>3 DEF EditProducts, DocsInv, LaterCallWins
  <2>3. ResultIsCurrent'
    BY <1>3 DEF EditProducts, ResultIsCurrent, InYear, Docs, Results
  <2> QED
    BY <2>1, <2>2, <2>3 DEF Rest
<1>4. ASSUME NEW c \in Calls, Post(c)
      PROVE  Rest'
  <2>1. c \notin Acked
    BY <1>4 DEF Post, CallInv
  <2>2. Acked' = Acked
    BY <1>4, <2>1 DEF Post
  <2>3. \A b \in Calls : CallInv(b)' /\ ReadInv(b)'
    BY <1>4, <2>2 DEF Post, CallInv, ReadInv, InYear
  <2>4. DocsInv'
    BY <1>4, <2>2 DEF Post, DocsInv
  <2>5. ResultIsCurrent'
    BY <1>4, <2>1 DEF Post, ResultIsCurrent, DocsInv, InYear
  <2>6. LaterCallWins'
    BY <1>4, <2>1, <2>2 DEF Post, LaterCallWins
  <2> QED
    BY <2>3, <2>4, <2>5, <2>6 DEF Rest
<1>5. ASSUME NEW c \in Calls, ReadInvoices(c)
      PROVE  Rest'
  <2>1. \A b \in Calls : CallInv(b)' /\ ReadInv(b)'
    BY <1>5 DEF ReadInvoices, CallInv, ReadInv, InYear, Results
  <2>2. DocsInv' /\ LaterCallWins'
    BY <1>5 DEF ReadInvoices, DocsInv, LaterCallWins
  <2>3. ResultIsCurrent'
    BY <1>5 DEF ReadInvoices, ResultIsCurrent, InYear
  <2> QED
    BY <2>1, <2>2, <2>3 DEF Rest
<1>6. ASSUME NEW c \in Calls, ReadProducts(c)
      PROVE  Rest'
  <2>1. \A b \in Calls : CallInv(b)' /\ ReadInv(b)'
    BY <1>6 DEF ReadProducts, CallInv, ReadInv, InYear, Results
  <2>2. DocsInv' /\ LaterCallWins'
    BY <1>6 DEF ReadProducts, DocsInv, LaterCallWins
  <2>3. ResultIsCurrent'
    BY <1>6 DEF ReadProducts, ResultIsCurrent, InYear
  <2> QED
    BY <2>1, <2>2, <2>3 DEF Rest
<1>7. ASSUME NEW c \in Calls, ReadFails(c)
      PROVE  Rest'
  <2>1. Acked' = Acked /\ faults' # 0
    BY <1>7 DEF ReadFails, CallInv
  <2>2. \A b \in Calls : CallInv(b)' /\ ReadInv(b)'
    BY <1>7, <2>1 DEF ReadFails, CallInv, ReadInv, InYear
  <2>3. DocsInv' /\ LaterCallWins'
    BY <1>7, <2>1 DEF ReadFails, DocsInv, LaterCallWins
  <2>4. ResultIsCurrent'
    BY <1>7 DEF ReadFails, ResultIsCurrent, InYear
  <2> QED
    BY <2>2, <2>3, <2>4 DEF Rest
<1>8. ASSUME NEW c \in Calls, CreateIndex(c)
      PROVE  Rest'
  <2>1. \A b \in Calls : CallInv(b)' /\ ReadInv(b)'
    BY <1>8 DEF CreateIndex, CallInv, ReadInv, InYear
  <2>2. DocsInv' /\ LaterCallWins'
    BY <1>8 DEF CreateIndex, DocsInv, LaterCallWins
  <2>3. ResultIsCurrent'
    BY <1>8 DEF CreateIndex, ResultIsCurrent, InYear
  <2> QED
    BY <2>1, <2>2, <2>3 DEF Rest
<1>9. ASSUME NEW c \in Calls, Match(c) \/ Insert(c) \/ PersistFails(c)
      PROVE  Rest'
  BY <1>1, <1>9, PersistSteps, PersistRest
<1>10. CASE (\E g \in Gets : Get(g)) \/ UNCHANGED vars
  <2>1. UNCHANGED <<issued, products, indexed, docs, pc, read, told, faults, past>>
    BY <1>10 DEF Get, vars
  <2>2. \A b \in Calls : CallInv(b)' /\ ReadInv(b)'
    BY <2>1 DEF CallInv, ReadInv, InYear
  <2>3. DocsInv' /\ LaterCallWins'
    BY <2>1 DEF DocsInv, LaterCallWins
  <2>4. ResultIsCurrent'
    BY <2>1 DEF ResultIsCurrent, InYear
  <2> QED
    BY <2>2, <2>3, <2>4 DEF Rest
<1> QED
  BY <1>2, <1>3, <1>4, <1>5, <1>6, <1>7, <1>8, <1>9, <1>10 DEF Next

\* However calls, edits and failures interleave in /taxes, the year has one
\* document, of a call that is through and is told success.
THEOREM TaxesInv == Spec => []TaxInv
<1>1. Init => TaxInv
  <2> SUFFICES ASSUME Init PROVE TaxInv
    OBVIOUS
  <2> USE YearAssumption DEF Init
  <2>1. TypeOK
    <3>1. 0 \in 0..MaxEdits /\ 0 \in 0..MaxFaults
      OBVIOUS
    <3>2. read \in [Calls -> Results]
      BY <3>1 DEF Results
    <3>3. past \in [Calls -> [issued : SUBSET Invoices, products : 0..MaxEdits,
                             acked : SUBSET Calls]]
      BY <3>1
    <3> QED
      BY <3>1, <3>2, <3>3 DEF TypeOK
  <2>2. Acked = {}
    BY DEF Acked
  <2>3. DocsInv /\ ResultIsCurrent /\ LaterCallWins
    BY <2>2 DEF DocsInv, ResultIsCurrent, LaterCallWins
  <2>4. \A c \in Calls : CallInv(c) /\ ReadInv(c)
    BY DEF CallInv, ReadInv
  <2> QED
    BY <2>1, <2>3, <2>4 DEF TaxInv
<1> QED
  BY <1>1, StepInv, PTL DEF Spec

\* What GET /taxes serves was made from the invoices and the products of some
\* time since its call came.
THEOREM TaxesResultIsCurrent == Spec => []ResultIsCurrent
<1>1. TaxInv => ResultIsCurrent
  BY DEF TaxInv
<1> QED
  BY <1>1, TaxesInv, PTL

\* As long as the database does not fail, a recomputation that comes after
\* another one replaces its result.
THEOREM TaxesLaterCallWins == Spec => []LaterCallWins
<1>1. TaxInv => LaterCallWins
  BY DEF TaxInv
<1> QED
  BY <1>1, TaxesInv, PTL

-----------------------------------------------------------------------------

\* What FoundStaysFound rests on: who was shown a result was shown one that is
\* there, and still is, maybe in another version.
FoundIsThere == (\E g \in Gets : seen[g] = "found") => docs # {}

\* No step takes the document of a year away, not even one that fails.
LEMMA DocsStay == docs # {} /\ [Next]_vars => docs' # {}
<1> SUFFICES ASSUME docs # {}, [Next]_vars PROVE docs' # {}
  OBVIOUS
<1>1. ASSUME NEW c \in Calls, Match(c) \/ Insert(c) \/ PersistFails(c)
      PROVE  docs' # {}
  BY <1>1 DEF Match, Insert, PersistFails, UpdateMatched
<1>2. ASSUME NEW c \in Calls,
             \/ Post(c) \/ ReadInvoices(c) \/ ReadProducts(c) \/ ReadFails(c)
             \/ CreateIndex(c)
      PROVE  docs' # {}
  BY <1>2 DEF Post, ReadInvoices, ReadProducts, ReadFails, CreateIndex
<1> QED
  BY <1>1, <1>2 DEF Next, vars, Issue, EditProducts, Get

\* Only a read that finds the document says that it did.
LEMMA FoundStep == TypeOK /\ FoundIsThere /\ [Next]_vars => FoundIsThere'
<1> SUFFICES ASSUME TypeOK, FoundIsThere, [Next]_vars, NEW g \in Gets, seen'[g] = "found"
             PROVE  docs' # {}
  BY DEF FoundIsThere
<1>1. CASE seen[g] = "found"
  BY <1>1, DocsStay DEF FoundIsThere
<1>2. CASE seen[g] # "found"
  <2>1. PICK h \in Gets : Get(h)
    BY <1>2
    DEF Next, vars, Issue, EditProducts, Post, ReadInvoices, ReadProducts, ReadFails,
        CreateIndex, Match, Insert, PersistFails
  <2>2. docs # {}
    BY <1>2, <2>1 DEF Get, TypeOK
  <2> QED
    BY <2>2, DocsStay
<1> QED
  BY <1>1, <1>2

\* Once one reader was shown a result no reader is told that there is none, however
\* calls race and whatever fails.
THEOREM TaxesFoundStaysFound == Spec => FoundStaysFound
<1>1. Init => FoundIsThere
  BY DEF Init, FoundIsThere
<1>2. TypeOK /\ FoundIsThere /\ [Next]_vars => FoundIsThere'
  BY FoundStep
<1>3. TaxInv => TypeOK
  BY DEF TaxInv
<1>4. TypeOK /\ FoundIsThere /\ [Next]_vars =>
        [\A g, h \in Gets :
            seen[g] = "found" /\ seen[h] = "none" => seen'[h] # "missing"]_vars
  <2> SUFFICES ASSUME TypeOK, FoundIsThere, [Next]_vars, NEW g \in Gets, NEW h \in Gets,
                      seen[g] = "found", seen[h] = "none", seen'[h] = "missing"
               PROVE  FALSE
    OBVIOUS
  <2>1. docs # {}
    BY DEF FoundIsThere
  <2>2. PICK k \in Gets : Get(k)
    BY DEF Next, vars, Issue, EditProducts, Post, ReadInvoices, ReadProducts, ReadFails,
           CreateIndex, Match, Insert, PersistFails
  <2> QED
    BY <2>1, <2>2 DEF Get, TypeOK
<1> QED
  BY TaxesInv, <1>1, <1>2, <1>3, <1>4, PTL DEF Spec, FoundStaysFound
=============================================================================
