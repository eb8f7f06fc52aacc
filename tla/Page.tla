-------------------------------- MODULE Page --------------------------------
(***************************************************************************)
(* What the pages of the frontend have in common.  A page is a component   *)
(* with a state of its own (page); it sends requests and goes on, answers  *)
(* come later and in any order.  A page that shows another object stays    *)
(* the same component, so answers for the object before still reach it;    *)
(* answers for a page that is gone are dropped.  The backend serves each   *)
(* request in a transaction, one after the other here (db).                *)
(***************************************************************************)
EXTENDS Integers, FiniteSets, Sequences

CONSTANTS
    Unanswered, Failed, NotFound, Pending, \* answers, and a page without data
    Closed,                                \* the route of no page of this kind
    MaxCalls, MaxOpens, MaxEdits, MaxFailures

VARIABLES
    db,      \* what is stored
    page,    \* the state of the component
    calls,   \* requests that are under way or answered
    spent    \* how often was opened, edited and failed

vars == <<db, page, calls, spent>>

(* A request; requests alike count as one. *)
Request(kind, what) == [kind |-> kind, what |-> what, answer |-> Unanswered]
Waiting(c, kind) == c.kind = kind /\ c.answer = Unanswered
Answered(c, kind) == c.kind = kind /\ c.answer # Unanswered

(* At most MaxCalls are under way. *)
Exchange(done, sent) ==
    /\ Cardinality((calls \ done) \union sent) <= MaxCalls
    /\ calls' = (calls \ done) \union sent
Send(c) == c \notin calls /\ Exchange({}, {c})
Arrived(c) == Exchange({c}, {})
Reply(c, answer) == Exchange({c}, {[c EXCEPT !.answer = answer]})

Limit == [opens |-> MaxOpens, edits |-> MaxEdits, failures |-> MaxFailures]
Spend(what) == spent[what] < Limit[what] /\ spent' = [spent EXCEPT ![what] = @ + 1]
NothingSpent == [what \in DOMAIN Limit |-> 0]

PageTypeOK ==
    /\ Cardinality(calls) <= MaxCalls
    /\ \A c \in calls : DOMAIN c = {"kind", "what", "answer"}
    /\ \A what \in DOMAIN Limit : spent[what] \in 0 .. Limit[what]

(* A request that fails in the backend is rolled back; one whose answer    *)
(* never comes ends with an error too.                                     *)
Refuse ==
    /\ Spend("failures")
    /\ \E c \in calls :
          /\ c.answer = Unanswered
          /\ Reply(c, Failed)
    /\ UNCHANGED <<db, page>>

(* The answers a page does not live to see. *)
Forget ==
    /\ page.route = Closed
    /\ \E c \in calls : c.answer # Unanswered /\ Arrived(c)
    /\ UNCHANGED <<db, page, spent>>
=============================================================================
