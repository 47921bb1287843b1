----------------------------- MODULE TaxResults -----------------------------
(***************************************************************************)
(* The taxes of a year: POST /taxes/{business_id}/{year}, which computes and *)
(* persists them, and GET of the same path, which reads them (the second     *)
(* half of app/routers/accounting.py), for one business and one year.       *)
(*                                                                         *)
(* What is computed is a function of the invoices and the products that were *)
(* read, so that a result is here the set of invoices and the version of the *)
(* products it was made from.  The two are read by two awaits, and calls on  *)
(* all workers interleave with each other and with the platform's edits.    *)
(***************************************************************************)
EXTENDS Integers, FiniteSets

CONSTANTS Calls,      \* POST requests
          Gets,       \* GET requests
          Invoices,   \* invoices that the business may issue
          Issued,     \* Issued[i]: when i is issued, in halves of a day from 1 January
          LastDay,    \* the midnight that 31 December begins with
          MaxEdits,   \* bound: changes of the products
          MaxFaults   \* bound: database operations that raise

ASSUME YearAssumption ==
    /\ Issued \in [Invoices -> Int]
    /\ {LastDay, MaxEdits, MaxFaults} \subseteq Nat

VARIABLES issued,    \* the invoices of the tenant's collection (none is ever taken away)
          products,  \* the version of the tenant's products
          indexed,   \* is (business_id, year) a unique index of tax_results?
          docs,      \* the documents of tax_results for this year
          pc,        \* pc[c]: the await that call c stands at
          read,      \* read[c]: what call c has read
          told,      \* told[c]: the answer to call c
          seen,      \* seen[g]: the answer to GET request g
          faults,    \* operations that raised so far
          past       \* past[c], history: what was there when call c came

vars == <<issued, products, indexed, docs, pc, read, told, seen, faults, past>>

Results == [invoices : SUBSET Invoices, products : 0..MaxEdits]
Docs == [by : Calls, result : Results]

TypeOK ==
    /\ issued \in SUBSET Invoices
    /\ products \in 0..MaxEdits
    /\ indexed \in BOOLEAN
    /\ docs \in SUBSET Docs
    /\ pc \in [Calls -> {"idle", "invoices", "products", "index", "match", "insert", "done"}]
    /\ read \in [Calls -> Results]
    /\ told \in [Calls -> {"none", "success", "error"}]
    /\ seen \in [Gets -> {"none", "found", "missing"}]
    /\ faults \in 0..MaxFaults
    /\ past \in [Calls -> [issued : SUBSET Invoices, products : 0..MaxEdits,
                         acked : SUBSET Calls]]

Init ==
    /\ issued \in SUBSET Invoices
    /\ products = 0
    /\ indexed = FALSE
    /\ docs = {}
    /\ pc = [c \in Calls |-> "idle"]
    /\ read = [c \in Calls |-> [invoices |-> {}, products |-> 0]]
    /\ told = [c \in Calls |-> "none"]
    /\ seen = [g \in Gets |-> "none"]
    /\ faults = 0
    /\ past = [c \in Calls |-> [issued |-> {}, products |-> 0, acked |-> {}]]

-----------------------------------------------------------------------------

At(c, here) == pc[c] = here
Go(c, next) == pc' = [pc EXCEPT ![c] = next]

End(c, answer) ==
    /\ Go(c, "done")
    /\ told' = [told EXCEPT ![c] = answer]

\* The calls that were told that their result is persisted.
Acked == {c \in Calls : told[c] = "success"}

Fault ==
    /\ faults < MaxFaults
    /\ faults' = faults + 1

\* datetime(year, 1, 1) to datetime(year, 12, 31), both at midnight.
InYear(i) == Issued[i] \in 0..LastDay

\* The platform writes the tenant's collections.
Issue(i) ==
    /\ i \notin issued
    /\ issued' = issued \cup {i}
    /\ UNCHANGED <<products, indexed, docs, pc, read, told, seen, faults, past>>

EditProducts ==
    /\ products < MaxEdits
    /\ products' = products + 1
    /\ UNCHANGED <<issued, indexed, docs, pc, read, told, seen, faults, past>>

-----------------------------------------------------------------------------
(* calculate_taxes_for_year                                                 *)

\* The business has a database, or not (404).
Post(c) ==
    /\ At(c, "idle")
    /\ \/ Go(c, "invoices") /\ UNCHANGED told
       \/ End(c, "error")
    /\ past' = [past EXCEPT ![c] =
                   [issued |-> issued, products |-> products, acked |-> Acked]]
    /\ UNCHANGED <<issued, products, indexed, docs, read, seen, faults>>

\* Mutant: the invoices of a result that there is are taken again.
ReadMemoized(c) ==
    /\ At(c, "invoices")
    /\ \/ /\ docs = {}
          /\ read' = [read EXCEPT ![c].invoices = {i \in issued : InYear(i)}]
       \/ \E d \in docs : read' = [read EXCEPT ![c].invoices = d.result.invoices]
    /\ Go(c, "products")
    /\ UNCHANGED <<issued, products, indexed, docs, told, seen, faults, past>>

ReadInvoices(c) ==
    /\ At(c, "invoices")
    /\ read' = [read EXCEPT ![c].invoices = {i \in issued : InYear(i)}]
    /\ Go(c, "products")
    /\ UNCHANGED <<issued, products, indexed, docs, told, seen, faults, past>>

\* The taxes are computed, and the analyzer and the language model asked; what
\* these two raise is caught.
ReadProducts(c) ==
    /\ At(c, "products")
    /\ read' = [read EXCEPT ![c].products = products]
    /\ Go(c, "index")
    /\ UNCHANGED <<issued, products, indexed, docs, told, seen, faults, past>>

\* A read raises, or the computation does on what was read: an unhandled 500.
ReadFails(c) ==
    /\ pc[c] \in {"idle", "invoices", "products"}
    /\ Fault
    /\ End(c, "error")
    /\ UNCHANGED <<issued, products, indexed, docs, read, seen, past>>

\* Mutant: an index that is not unique.
CreatePlainIndex(c) ==
    /\ At(c, "index")
    /\ Go(c, "match")
    /\ UNCHANGED <<issued, products, indexed, docs, read, told, seen, faults, past>>

\* create_index(unique=True), a no-op when there is one.
CreateIndex(c) ==
    /\ At(c, "index")
    /\ indexed' = TRUE
    /\ Go(c, "match")
    /\ UNCHANGED <<issued, products, docs, read, told, seen, faults, past>>

Doc(c) == [by |-> c, result |-> read[c]]

\* Mutant: $setOnInsert, which leaves a document that there is alone.
KeepMatched(c) ==
    /\ docs # {}
    /\ UNCHANGED docs
    /\ End(c, "success")

\* update_one(..., {"$set": doc}, upsert=True) replaces the document it matches.
UpdateMatched(c) ==
    /\ docs # {}
    /\ \E d \in docs : docs' = (docs \ {d}) \cup {Doc(c)}
    /\ End(c, "success")

\* Mutant: the old document is deleted, then the new one inserted.
DeleteFirst(c) ==
    /\ At(c, "match")
    /\ docs' = {}
    /\ Go(c, "insert")
    /\ UNCHANGED <<issued, products, indexed, read, told, seen, faults, past>>

\* The upsert matches a document, or is going to insert one.
Match(c) ==
    /\ At(c, "match")
    /\ \/ UpdateMatched(c)
       \/ docs = {} /\ Go(c, "insert") /\ UNCHANGED <<docs, told>>
    /\ UNCHANGED <<issued, products, indexed, read, seen, faults, past>>

\* The insert of an upsert that matched nothing.  If another document came in
\* between, the unique index refuses it: the server tries the update instead,
\* or the exception is raised and swallowed.
Insert(c) ==
    /\ At(c, "insert")
    /\ \/ /\ docs = {} \/ ~indexed
          /\ docs' = docs \cup {Doc(c)}
          /\ End(c, "success")
       \/ indexed /\ UpdateMatched(c)
       \/ /\ indexed /\ docs # {}
          /\ End(c, "success")
          /\ UNCHANGED docs
    /\ UNCHANGED <<issued, products, indexed, read, seen, faults, past>>

\* create_index or update_one raises for another reason, applied or not; the
\* exception is logged and the answer is the same.
PersistFails(c) ==
    /\ pc[c] \in {"index", "match", "insert"}
    /\ Fault
    /\ End(c, "success")
    /\ \/ UNCHANGED <<docs, indexed>>
       \/ At(c, "index") /\ indexed' = TRUE /\ UNCHANGED docs
       \/ At(c, "match") /\ docs # {} /\ UNCHANGED indexed
            /\ \E d \in docs : docs' = (docs \ {d}) \cup {Doc(c)}
       \/ At(c, "insert") /\ docs = {} /\ docs' = {Doc(c)} /\ UNCHANGED indexed
    /\ UNCHANGED <<issued, products, read, seen, past>>

-----------------------------------------------------------------------------

\* get_tax_results: a document, or success: false.
Get(g) ==
    /\ seen[g] = "none"
    /\ seen' = [seen EXCEPT ![g] = IF docs = {} THEN "missing" ELSE "found"]
    /\ UNCHANGED <<issued, products, indexed, docs, pc, read, told, faults, past>>

Next ==
    \/ \E i \in Invoices : Issue(i)
    \/ EditProducts
    \/ \E c \in Calls :
          \/ Post(c) \/ ReadInvoices(c) \/ ReadProducts(c) \/ ReadFails(c)
          \/ CreateIndex(c) \/ Match(c) \/ Insert(c) \/ PersistFails(c)
    \/ \E g \in Gets : Get(g)

Spec == Init /\ [][Next]_vars

-----------------------------------------------------------------------------

\* What a call knows at the await it stands at.
CallInv(c) ==
    /\ told[c] = "none" <=> pc[c] # "done"
    /\ pc[c] = "idle" => past[c].acked = {}
    /\ past[c].acked \subseteq Acked
    /\ past[c].issued \subseteq issued
    /\ past[c].products <= products
    /\ pc[c] \in {"match", "insert"} => indexed

\* What was read is a set of invoices that there are, of the year, and none
\* that was there when the call came is left out.
ReadInv(c) ==
    /\ read[c].invoices \subseteq {i \in issued : InYear(i)}
    /\ read[c].products <= products
    /\ pc[c] \in {"products", "index", "match", "insert"} =>
          {i \in past[c].issued : InYear(i)} \subseteq read[c].invoices
    /\ pc[c] \in {"index", "match", "insert"} => past[c].products <= read[c].products

\* A served result was made from the invoices and the products of some time
\* between its call and now: none that the call could see is left out by the
\* reads of accounting.py:412-413 and none is made up, however other calls and
\* edits come in between.
ResultIsCurrent ==
    \A d \in docs :
        /\ {i \in past[d.by].issued : InYear(i)} \subseteq d.result.invoices
        /\ d.result.invoices \subseteq {i \in issued : InYear(i)}
        /\ d.result.products \in past[d.by].products..products

\* A call that comes after another one was told success is not undone by it:
\* once both are told, the upsert of accounting.py:517 serves no result of the
\* earlier one, as long as no operation of the database raises.
LaterCallWins ==
    faults = 0 =>
        \A c \in Acked : \A d \in docs : d.by \notin past[c].acked

\* However calls race in the upsert, the year has one document, of a call that
\* is through and is told success; without a failure such a call leaves one behind.
DocsInv ==
    /\ \A d, e \in docs : d = e
    /\ \A d \in docs : d.by \in Acked
    /\ docs # {} => indexed
    /\ faults = 0 /\ Acked # {} => docs # {}
    /\ \A c \in Calls : faults = 0 /\ past[c].acked # {} => pc[c] # "insert"

TaxInv ==
    /\ TypeOK
    /\ DocsInv
    /\ \A c \in Calls : CallInv(c) /\ ReadInv(c)
    /\ ResultIsCurrent
    /\ LaterCallWins

\* A client that was shown a result is never told later that there is none, as
\* a recomputation changes the document in one step.
FoundStaysFound ==
    [][\A g, h \in Gets :
          seen[g] = "found" /\ seen[h] = "none" => seen'[h] # "missing"]_vars

\* "Calculate Tunisian taxes for the given year" (accounting.py:396): a result
\* is made from every invoice of the year that was there when its call came,
\* those of 31 December included.
YearIsWhole ==
    \A d \in docs :
        {i \in past[d.by].issued : Issued[i] \in 0..(LastDay + 1)} \subseteq d.result.invoices
=============================================================================
