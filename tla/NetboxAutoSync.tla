--------------------------- MODULE NetboxAutoSync ---------------------------
(***************************************************************************)
(* The automatic sync of the circuits in Netbox.  Requests change what     *)
(* Netbox is to show; triggers record that in netbox_sync_anstoss, in the  *)
(* same transaction.  A worker on every replica of the backend runs the    *)
(* sync, one at a time (an advisory lock), stores the result in            *)
(* netbox_sync and deletes the rows it had read.                           *)
(*                                                                         *)
(* What Netbox is to show is the active plan, the content shared by all    *)
(* plans (baseline, cables, ports, geometry) and the rows of the plan      *)
(* itself; a version number stands for each content.  Transactions are     *)
(* READ COMMITTED: each read of a run sees what is committed then.         *)
(***************************************************************************)
EXTENDS Naturals, FiniteSets

CONSTANTS
    Baseline, Plan,  \* plan 0 and the other plans
    Request,         \* the requests, each one transaction
    Replica,         \* the backend's processes, each with a worker
    Faulty,          \* what to show for which the sync finds issues
    MaxFaults,       \* bound: failed runs, crashes and edits in Netbox together
    Shared,          \* the content all plans share
    Partial, Foreign \* Netbox after an interrupted run, after an edit by hand

Plans == {Baseline} \union Plan
Content == {Shared} \union Plan
Target == [plan : Plans, shared : Nat, own : Nat]
Anstoss == Request \union {"migration"}
Late == {"edit", "change"}

ASSUME NamesAssumption ==
    /\ Baseline \notin Plan /\ Shared \notin Plans
    /\ "migration" \notin Request
    /\ Partial \notin Target /\ Foreign \notin Target
ASSUME BoundsAssumption == Faulty \subseteq Target /\ MaxFaults \in Nat

VARIABLES
    netbox_active,   \* the plan active in Netbox
    version,         \* the committed content
    tx,              \* the transactions of the requests
    anstoss,         \* netbox_sync_anstoss: the requests (and the migration) whose row is committed
    netbox_sync,     \* ergebnis, retry (naechster_versuch), interval_over (letzter_lauf)
    issue_rows,      \* netbox_sync_issue holds rows
    netbox,          \* what Netbox shows
    pc, seen, target, due_read, \* a worker: its step, the rows it read, what it
                                \* computed, whether the interval was over when it looked
    faults,
    late_old, late_new \* history: what no row records, before and since the last run
                       \* started: an edit in Netbox, a change of the active plan

dbVars == <<netbox_active, version, tx>>
workerVars == <<pc, seen, target, due_read>>
lateVars == <<late_old, late_new>>
vars == <<dbVars, anstoss, netbox_sync, issue_rows, netbox, workerVars, faults, lateVars>>

-----------------------------------------------------------------------------
NoTarget == [plan |-> Baseline, shared |-> 0, own |-> 0]

(* What Netbox is to show. *)
Own(p) == IF p = Baseline THEN 0 ELSE version[p]
Desired == [plan |-> netbox_active, shared |-> version[Shared], own |-> Own(netbox_active)]
HasIssues(t) == t \in Faulty

New == [state |-> "new", content |-> Shared, recorded |-> FALSE]
Done == [state |-> "done", content |-> Shared, recorded |-> FALSE]

(* The steps of a run, in its transaction, holding the lock. *)
Running == {"locked", "due", "planned", "shared_read", "computed", "pushing", "pushed"}

TypeOK ==
    /\ netbox_active \in Plans
    /\ version \in [Content -> Nat]
    /\ tx \in [Request -> [state : {"new", "open", "done"}, content : Content, recorded : BOOLEAN]]
    /\ anstoss \subseteq Anstoss
    /\ netbox_sync \in [ergebnis : {"none", "ok", "issues", "fehler"},
                        retry : {"none", "waiting", "over"}, interval_over : BOOLEAN]
    /\ issue_rows \in BOOLEAN
    /\ netbox \in Target \union {Partial, Foreign}
    /\ pc \in [Replica -> {"idle", "failed", "fail_unlocked", "fail_locked"} \union Running]
    /\ seen \in [Replica -> SUBSET Anstoss]
    /\ target \in [Replica -> Target]
    /\ due_read \in [Replica -> BOOLEAN]
    /\ faults \in Nat
    /\ late_old \subseteq Late /\ late_new \subseteq Late

Init ==
    /\ netbox_active = Baseline
    /\ version = [c \in Content |-> 0]
    /\ tx = [r \in Request |-> New]
    /\ anstoss = {"migration"}
    /\ netbox_sync = [ergebnis |-> "none", retry |-> "none", interval_over |-> TRUE]
    /\ issue_rows = FALSE
    /\ netbox = Foreign
    /\ pc = [w \in Replica |-> "idle"]
    /\ seen = [w \in Replica |-> {}]
    /\ target = [w \in Replica |-> NoTarget]
    /\ due_read = [w \in Replica |-> FALSE]
    /\ faults = 0
    /\ late_old = {} /\ late_new = {}

-----------------------------------------------------------------------------
(* Requests *)

(* A change of content c.  The triggers run now, with the active plan that *)
(* is committed now; a plan's rows are recorded only if it is active.      *)
Change(r, c) ==
    /\ tx[r].state = "new"
    /\ tx' = [tx EXCEPT ![r] = [state |-> "open", content |-> c,
                                recorded |-> c = Shared \/ c = netbox_active]]
    /\ UNCHANGED <<netbox_active, version, anstoss, netbox_sync, issue_rows, netbox, workerVars,
                   faults, lateVars>>

CommitChange(r) ==
    LET c == tx[r].content
    IN  /\ tx[r].state = "open"
        /\ tx' = [tx EXCEPT ![r] = Done]
        /\ version' = [version EXCEPT ![c] = @ + 1]
        /\ anstoss' = IF tx[r].recorded THEN anstoss \union {r} ELSE anstoss
        /\ late_new' = IF ~ tx[r].recorded /\ c = netbox_active THEN late_new \union {"change"}
                                                                ELSE late_new
        /\ UNCHANGED <<netbox_active, netbox_sync, issue_rows, netbox, workerVars, faults,
                       late_old>>

(* The request fails, or its replica stops. *)
RollbackChange(r) ==
    /\ tx[r].state = "open"
    /\ tx' = [tx EXCEPT ![r] = Done]
    /\ UNCHANGED <<netbox_active, version, anstoss, netbox_sync, issue_rows, netbox, workerVars,
                   faults, lateVars>>

(* setNetboxActivePlan: row locks on plan make such requests one after the *)
(* other, so this is the commit.                                           *)
SetNetboxActivePlan(r, p) ==
    /\ tx[r].state = "new"
    /\ tx' = [tx EXCEPT ![r] = Done]
    /\ netbox_active' = p
    /\ anstoss' = IF p # netbox_active THEN anstoss \union {r} ELSE anstoss
    /\ UNCHANGED <<version, netbox_sync, issue_rows, netbox, workerVars, faults, lateVars>>

(* syncNetbox: records a change and ends the wait after a failure. *)
SyncNetbox(r) ==
    /\ tx[r].state = "new"
    /\ tx' = [tx EXCEPT ![r] = Done]
    /\ anstoss' = anstoss \union {r}
    /\ netbox_sync' = [netbox_sync EXCEPT !.retry = "none"]
    /\ UNCHANGED <<netbox_active, version, issue_rows, netbox, workerVars, faults, lateVars>>

-----------------------------------------------------------------------------
(* A run, on replica w *)

(* The run is over, and what it had read. *)
Forget(w) ==
    /\ seen' = [seen EXCEPT ![w] = {}]
    /\ target' = [target EXCEPT ![w] = NoTarget]
    /\ due_read' = [due_read EXCEPT ![w] = FALSE]

(* run wakes after a committed request or a minute, and sync_if_due takes  *)
(* the lock (without it the run is over) and reads netbox_sync.            *)
StartRun(w) ==
    /\ pc[w] = "idle"
    /\ \A v \in Replica : pc[v] \notin Running
    /\ netbox_sync.retry # "waiting"
    /\ pc' = [pc EXCEPT ![w] = "locked"]
    /\ due_read' = [due_read EXCEPT ![w] = netbox_sync.interval_over]
    /\ UNCHANGED <<dbVars, anstoss, netbox_sync, issue_rows, netbox, seen, target, faults,
                   lateVars>>

(* Without the rows; without the interval: faults. *)
IntervalNotOver(w) == ~ (due_read[w] \/ netbox_sync.interval_over)
NoChange(w) == anstoss = {}

(* Without rows recording changes, and the interval not over. *)
NothingDue(w) == anstoss = {} /\ ~ (due_read[w] \/ netbox_sync.interval_over)

(* The rows recording changes; if nothing is due, the run is over.         *)
ReadChanges(w) ==
    /\ pc[w] = "locked"
    /\ IF NothingDue(w)
       THEN /\ pc' = [pc EXCEPT ![w] = "idle"]
            /\ Forget(w)
            /\ UNCHANGED lateVars
       ELSE /\ pc' = [pc EXCEPT ![w] = "due"]
            /\ seen' = [seen EXCEPT ![w] = anstoss]
            /\ late_old' = late_old \union late_new
            /\ late_new' = {}
            /\ UNCHANGED <<target, due_read>>
    /\ UNCHANGED <<dbVars, anstoss, netbox_sync, issue_rows, netbox, faults>>

ReadPlan(w) ==
    /\ pc[w] = "due"
    /\ pc' = [pc EXCEPT ![w] = "planned"]
    /\ target' = [target EXCEPT ![w].plan = netbox_active]
    /\ UNCHANGED <<dbVars, anstoss, netbox_sync, issue_rows, netbox, seen, due_read, faults,
                   lateVars>>

ReadShared(w) ==
    /\ pc[w] = "planned"
    /\ pc' = [pc EXCEPT ![w] = "shared_read"]
    /\ target' = [target EXCEPT ![w].shared = version[Shared]]
    /\ UNCHANGED <<dbVars, anstoss, netbox_sync, issue_rows, netbox, seen, due_read, faults,
                   lateVars>>

ReadOwn(w) ==
    /\ pc[w] = "shared_read"
    /\ pc' = [pc EXCEPT ![w] = "computed"]
    /\ target' = [target EXCEPT ![w].own = Own(target[w].plan)]
    /\ UNCHANGED <<dbVars, anstoss, netbox_sync, issue_rows, netbox, seen, due_read, faults,
                   lateVars>>

(* A fault: the issues do not keep Netbox as it is. *)
StartPushAnyway(w) ==
    /\ pc[w] = "computed"
    /\ netbox # target[w]
    /\ pc' = [pc EXCEPT ![w] = "pushing"]
    /\ netbox' = Partial
    /\ UNCHANGED <<dbVars, anstoss, netbox_sync, issue_rows, seen, target, due_read, faults,
                   lateVars>>

(* The steps in Netbox; issues keep it as it is. *)
StartPush(w) ==
    /\ pc[w] = "computed"
    /\ ~ HasIssues(target[w])
    /\ netbox # target[w]
    /\ pc' = [pc EXCEPT ![w] = "pushing"]
    /\ netbox' = Partial
    /\ UNCHANGED <<dbVars, anstoss, netbox_sync, issue_rows, seen, target, due_read, faults,
                   lateVars>>

FinishPush(w) ==
    /\ pc[w] = "pushing"
    /\ pc' = [pc EXCEPT ![w] = "pushed"]
    /\ netbox' = target[w]
    /\ UNCHANGED <<dbVars, anstoss, netbox_sync, issue_rows, seen, target, due_read, faults,
                   lateVars>>

(* Faults: all changes count as synced; the issues of the last run stay;   *)
(* a result the column does not allow.                                     *)
AllSynced(w) == {}
IssuesAdded(w) == issue_rows \/ HasIssues(target[w])
ResultUnknown(w) == IF HasIssues(target[w]) THEN "issue" ELSE "ok"

(* What of netbox_sync_anstoss stays: the changes the run did not see. *)
NotSeen(w) == anstoss \ seen[w]

(* The issues of the last run are deleted and those of this one inserted. *)
IssuesStored(w) == HasIssues(target[w])

Result(w) == IF HasIssues(target[w]) THEN "issues" ELSE "ok"

(* The result, and the changes the run saw are synced.  It waits for a     *)
(* store_failure that is deleting issues; one that waits for it (waiting)  *)
(* finds the rows it wanted to delete gone and does not see the new ones.  *)
StoreResult(w) ==
    /\ \/ pc[w] = "pushed"
       \/ pc[w] = "computed" /\ (HasIssues(target[w]) \/ netbox = target[w])
    /\ \A v \in Replica : pc[v] # "fail_locked"
    /\ \E waiting \in SUBSET {v \in Replica : pc[v] = "failed" /\ issue_rows} :
          pc' = [v \in Replica |-> IF v = w THEN "idle"
                                  ELSE IF v \in waiting THEN "fail_unlocked" ELSE pc[v]]
    /\ netbox_sync' = [ergebnis |-> Result(w), retry |-> "none", interval_over |-> FALSE]
    /\ issue_rows' = IssuesStored(w)
    /\ anstoss' = NotSeen(w)
    /\ late_old' = IF HasIssues(target[w]) THEN late_old ELSE {}
    /\ Forget(w)
    /\ UNCHANGED <<dbVars, netbox, faults, late_new>>

-----------------------------------------------------------------------------
(* Failures *)

(* Netbox or the database fails: the transaction is rolled back. *)
FailRun(w) ==
    /\ pc[w] \in Running
    /\ faults < MaxFaults
    /\ faults' = faults + 1
    /\ pc' = [pc EXCEPT ![w] = "failed"]
    /\ Forget(w)
    /\ UNCHANGED <<dbVars, anstoss, netbox_sync, issue_rows, netbox, lateVars>>

(* store_failure, in a transaction of its own and without the lock: first  *)
(* the issues are deleted, those committed by then; deleted rows are       *)
(* locked until it commits.  (The waits get longer with the failed runs in *)
(* a row, fehlversuche; here a wait is any time.)                          *)
DeleteIssues(w) ==
    /\ pc[w] = "failed"
    /\ \A v \in Replica : pc[v] # "fail_locked"
    /\ pc' = [pc EXCEPT ![w] = IF issue_rows THEN "fail_locked" ELSE "fail_unlocked"]
    /\ UNCHANGED <<dbVars, anstoss, netbox_sync, issue_rows, netbox, seen, target, due_read, faults,
                   lateVars>>

StoreFailure(w) ==
    /\ pc[w] \in {"fail_locked", "fail_unlocked"}
    /\ pc' = [pc EXCEPT ![w] = "idle"]
    /\ issue_rows' = (issue_rows /\ pc[w] = "fail_unlocked")
    /\ netbox_sync' = [ergebnis |-> "fehler", retry |-> "waiting", interval_over |-> FALSE]
    /\ UNCHANGED <<dbVars, anstoss, netbox, seen, target, due_read, faults, lateVars>>

(* The process ends and starts again, or storing the failure fails: the    *)
(* database rolls back what is open.                                       *)
Crash(w) ==
    /\ pc[w] # "idle"
    /\ faults < MaxFaults
    /\ faults' = faults + 1
    /\ pc' = [pc EXCEPT ![w] = "idle"]
    /\ Forget(w)
    /\ UNCHANGED <<dbVars, anstoss, netbox_sync, issue_rows, netbox, lateVars>>

-----------------------------------------------------------------------------
(* Time, and people in Netbox *)

RetryElapses ==
    /\ netbox_sync.retry = "waiting"
    /\ netbox_sync' = [netbox_sync EXCEPT !.retry = "over"]
    /\ UNCHANGED <<dbVars, anstoss, issue_rows, netbox, workerVars, faults, lateVars>>

IntervalElapses ==
    /\ ~ netbox_sync.interval_over
    /\ netbox_sync' = [netbox_sync EXCEPT !.interval_over = TRUE]
    /\ UNCHANGED <<dbVars, anstoss, issue_rows, netbox, workerVars, faults, lateVars>>

(* Someone edits a circuit by hand, between runs. *)
EditNetbox ==
    /\ \A w \in Replica : pc[w] \notin Running
    /\ faults < MaxFaults
    /\ faults' = faults + 1
    /\ netbox' = Foreign
    /\ late_new' = late_new \union {"edit"}
    /\ UNCHANGED <<dbVars, anstoss, netbox_sync, issue_rows, workerVars, late_old>>

-----------------------------------------------------------------------------
Requests ==
    \E r \in Request :
        \/ \E c \in Content : Change(r, c)
        \/ CommitChange(r)
        \/ RollbackChange(r)
        \/ \E p \in Plans : SetNetboxActivePlan(r, p)
        \/ SyncNetbox(r)

Step(w) ==
    \/ StartRun(w) \/ ReadChanges(w) \/ ReadPlan(w) \/ ReadShared(w) \/ ReadOwn(w)
    \/ StartPush(w) \/ FinishPush(w) \/ StoreResult(w)
    \/ DeleteIssues(w) \/ StoreFailure(w)

Fault == EditNetbox \/ \E w \in Replica : FailRun(w) \/ Crash(w)
Time == RetryElapses \/ IntervalElapses

Next == Requests \/ (\E w \in Replica : Step(w)) \/ Fault \/ Time

(* The worker's loop never ends and its timer wakes it every minute; the   *)
(* wait after a failure ends.  Nobody has to send a request, nothing has   *)
(* to fail, and the interval is left to the properties that need it.       *)
Fairness ==
    /\ \A w \in Replica : WF_vars(Step(w))
    /\ WF_vars(RetryElapses)

Spec == Init /\ [][Next]_vars
FairSpec == Spec /\ Fairness

=============================================================================
