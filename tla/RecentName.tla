----------------------------- MODULE RecentName ------------------------------
(***************************************************************************)
(* What the lookup of a business promises to its callers: the name of a     *)
(* database the business has now or had within the last Window ticks, "not  *)
(* found" only for a reason, and an error only after a read that raised.    *)
(* How names are kept in between is not said here.                          *)
(***************************************************************************)
EXTENDS Integers

CONSTANTS Calls, Names,
          NoDocument, NoName, \* no such business; one without databaseName
          Window,             \* how old an answer may be, in ticks
          Never

VARIABLES now,
          name,    \* databaseName of the business, NoDocument or NoName
          last,    \* last[n]: when name was n for the last time, if it is not now
          open,    \* calls that wait for an answer
          answer,  \* answer[c]: a name, "missing" or "error"; "none" before
          gone,    \* calls while which there was no name
          failed   \* calls of which a read of the database raised

vars == <<now, name, last, open, answer, gone, failed>>

Replies == Names \cup {"missing", "error"}

\* The business had the name n at time t or later.
HadSince(n, t) == n = name \/ (last[n] # Never /\ last[n] >= t)

Init ==
    /\ now = 0
    /\ name \in Names \cup {NoDocument, NoName}
    /\ last = [n \in Names |-> Never]
    /\ open = {} /\ gone = {} /\ failed = {}
    /\ answer = [c \in Calls |-> "none"]

Begin(c) ==
    /\ c \notin open /\ answer[c] = "none"
    /\ open' = open \cup {c}
    /\ gone' = IF name \in Names THEN gone ELSE gone \cup {c}
    /\ UNCHANGED <<now, name, last, answer, failed>>

ReadFails(c) ==
    /\ c \in open
    /\ failed' = failed \cup {c}
    /\ UNCHANGED <<now, name, last, open, answer, gone>>

Acceptable(c, a) ==
    \/ a \in Names /\ HadSince(a, now - Window)
    \/ a = "missing" /\ c \in gone \cup failed'
    \/ a = "error" /\ c \in failed'

Reply(c) ==
    /\ c \in open
    /\ open' = open \ {c}
    /\ failed' \in {failed, failed \cup {c}}
    /\ \E a \in Replies : Acceptable(c, a) /\ answer' = [answer EXCEPT ![c] = a]
    /\ UNCHANGED <<now, name, last, gone>>

\* The platform gives the business another database, or makes or removes it.
Move ==
    /\ name' \in (Names \cup {NoDocument, NoName}) \ {name}
    /\ last' = [n \in Names |-> IF n = name THEN now ELSE last[n]]
    /\ gone' = IF name' \in Names THEN gone ELSE gone \cup open
    /\ UNCHANGED <<now, open, answer, failed>>

Tick ==
    /\ now' = now + 1
    /\ UNCHANGED <<name, last, open, answer, gone, failed>>

Next == (\E c \in Calls : Begin(c) \/ ReadFails(c) \/ Reply(c)) \/ Move \/ Tick

Spec == Init /\ [][Next]_vars
=============================================================================
