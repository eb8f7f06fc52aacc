---------------------- MODULE NetboxAutoSyncProperties ----------------------
(***************************************************************************)
(* What the automatic sync promises.                                       *)
(***************************************************************************)
EXTENDS NetboxAutoSync

Ok == netbox_sync.ergebnis = "ok"

(* SYNCHRON in the interface (netboxSync): the last run succeeded and no   *)
(* change is recorded.                                                     *)
Synchron == Ok /\ anstoss = {}

(* SYNCHRON is true: Netbox shows exactly the active plan as it is         *)
(* committed now, however the run's reads, the requests, failed runs and   *)
(* crashes interleave, unless something no row records came after the      *)
(* start of the last run (the interval repairs that).                      *)
SynchronMeansShown == Synchron => netbox = Desired \/ late_old \union late_new # {}

(* "Netbox zeigt immer die Circuits des in Netbox aktiven Plans" and no    *)
(* change is lost: the same, with only an edit in Netbox as an excuse.     *)
(* Refuted: a request's trigger runs before another request activates its  *)
(* plan and the request commits after the run; nothing records it.         *)
EveryChangeRecorded == Synchron => netbox = Desired \/ "edit" \in late_old \union late_new

(* What the results ok and issues say of the issues stored is true, also   *)
(* when the failure of another replica's run is stored meanwhile: none     *)
(* after a success, some after a run with issues.  After a failure some    *)
(* are left only if there are several replicas (FailureHasNoIssues).       *)
IssuesMatchResult ==
    /\ netbox_sync.ergebnis \in {"none", "ok"} => ~ issue_rows
    /\ netbox_sync.ergebnis = "issues" => issue_rows
    /\ netbox_sync.ergebnis = "fehler" /\ issue_rows => \E v, w \in Replica : v # w

(* "Nach einem Fehler auch" is the table of issues empty (netbox-sync):    *)
(* which issues the plan has is not known then.  Refuted: a failure is     *)
(* stored without the lock; when it has deleted the issues, another        *)
(* replica's run stores its own, and the result fehler comes after them.   *)
FailureHasNoIssues == netbox_sync.ergebnis = "fehler" => ~ issue_rows

(* Content with issues is never written to Netbox, not even in part: a     *)
(* step that changes what Netbox shows belongs to a run whose content has  *)
(* no issues, or is an edit by hand.                                       *)
IssuesKeepNetbox ==
    [][netbox' # netbox =>
          \/ netbox' = Foreign
          \/ \E w \in Replica :
                /\ pc[w] \in {"computed", "pushing"}
                /\ target[w] \notin Faulty
                /\ \A v \in Replica \ {w} : pc[v] \notin {"pushing", "pushed"}]_vars

(* Every recorded change is synced, without waiting for the interval:      *)
(* failed runs and crashes only delay it.                                  *)
ChangesGetSynced == []<>(anstoss = {})

(* Once nobody changes anything, Netbox and the result settle to what the  *)
(* active plan demands, edits by hand and changes nothing records          *)
(* included, because the interval ends again and again.                    *)
Settled ==
    IF HasIssues(Desired)
    THEN netbox_sync.ergebnis = "issues" /\ issue_rows
    ELSE Ok /\ netbox = Desired /\ ~ issue_rows
SettlesInTheEnd == WF_vars(IntervalElapses) => <>[]Settled

(* "After failed runs in a row: wait before trying again": a worker that   *)
(* looks when the wait after a failure is over runs the sync.  Refuted: a  *)
(* run that was due to the interval only fails; storing the failure starts *)
(* the interval anew, so nothing is due when the wait is over.             *)
FailedRunIsRetried ==
    [][\A w \in Replica :
          ReadChanges(w) /\ netbox_sync.ergebnis = "fehler" /\ netbox_sync.retry = "over"
              => pc'[w] = "due"]_vars
=============================================================================
