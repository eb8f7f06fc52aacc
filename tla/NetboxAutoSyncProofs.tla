------------------------ MODULE NetboxAutoSyncProofs ------------------------
(***************************************************************************)
(* Proofs about the automatic sync, for any number of plans, requests,     *)
(* replicas and faults.                                                    *)
(***************************************************************************)
EXTENDS NetboxAutoSyncProperties, TLAPS

-----------------------------------------------------------------------------
ReadTypes ==
    /\ seen \in [Replica -> SUBSET Anstoss]
    /\ target \in [Replica -> Target]
    /\ due_read \in [Replica -> BOOLEAN]

(* What a run has read keeps its types when it is forgotten. *)
LEMMA ForgetTypes == ASSUME TypeOK, NEW w \in Replica, Forget(w) PROVE ReadTypes'
<1>1. NoTarget \in Target
  BY DEF NoTarget, Target, Plans
<1> QED
  BY <1>1 DEF TypeOK, Forget, ReadTypes

(* Every step preserves the type invariant, action by action. *)
LEMMA TypeStep == TypeOK /\ [Next]_vars => TypeOK'
<1> SUFFICES ASSUME TypeOK, [Next]_vars PROVE TypeOK'
  OBVIOUS
<1> USE DEF TypeOK
<1>1. ASSUME NEW r \in Request, NEW c \in Content, Change(r, c) PROVE TypeOK'
  BY <1>1 DEF Change, workerVars, lateVars
<1>2. ASSUME NEW r \in Request, CommitChange(r) PROVE TypeOK'
  <2>1. /\ version' \in [Content -> Nat]
        /\ tx' \in [Request -> [state : {"new", "open", "done"}, content : Content,
                               recorded : BOOLEAN]]
    BY <1>2 DEF CommitChange, Done, Content
  <2>2. anstoss' \subseteq Anstoss /\ late_new' \subseteq Late
    BY <1>2 DEF CommitChange, Anstoss, Late
  <2> QED
    BY <1>2, <2>1, <2>2 DEF CommitChange, workerVars
<1>3. ASSUME NEW r \in Request, RollbackChange(r) PROVE TypeOK'
  BY <1>3 DEF RollbackChange, Done, Content, workerVars, lateVars
<1>4. ASSUME NEW r \in Request, NEW p \in Plans, SetNetboxActivePlan(r, p) PROVE TypeOK'
  BY <1>4 DEF SetNetboxActivePlan, Done, Content, Anstoss, workerVars, lateVars
<1>5. ASSUME NEW r \in Request, SyncNetbox(r) PROVE TypeOK'
  BY <1>5 DEF SyncNetbox, Done, Content, Anstoss, workerVars, lateVars
<1>6. ASSUME NEW w \in Replica, StartRun(w) PROVE TypeOK'
  BY <1>6 DEF StartRun, Running, dbVars, lateVars
<1>7. ASSUME NEW w \in Replica, ReadChanges(w) PROVE TypeOK'
  <2>1. CASE NothingDue(w)
    BY <1>7, <2>1, ForgetTypes DEF ReadChanges, ReadTypes, dbVars, lateVars
  <2>2. CASE ~ NothingDue(w)
    BY <1>7, <2>2 DEF ReadChanges, Running, dbVars
  <2> QED
    BY <2>1, <2>2
<1>8. ASSUME NEW w \in Replica, ReadPlan(w) PROVE TypeOK'
  BY <1>8 DEF ReadPlan, Target, Running, dbVars, lateVars
<1>9. ASSUME NEW w \in Replica, ReadShared(w) PROVE TypeOK'
  BY <1>9 DEF ReadShared, Target, Content, Running, dbVars, lateVars
<1>10. ASSUME NEW w \in Replica, ReadOwn(w) PROVE TypeOK'
  <2>1. Own(target[w].plan) \in Nat
    BY DEF Own, Target, Plans, Content
  <2> QED
    BY <1>10, <2>1 DEF ReadOwn, Target, Running, dbVars, lateVars
<1>11. ASSUME NEW w \in Replica, StartPush(w) PROVE TypeOK'
  BY <1>11 DEF StartPush, Running, dbVars, lateVars
<1>12. ASSUME NEW w \in Replica, FinishPush(w) PROVE TypeOK'
  BY <1>12 DEF FinishPush, Running, dbVars, lateVars
<1>13. ASSUME NEW w \in Replica, StoreResult(w) PROVE TypeOK'
  <2>1. netbox_sync' \in [ergebnis : {"none", "ok", "issues", "fehler"},
                         retry : {"none", "waiting", "over"}, interval_over : BOOLEAN]
    BY <1>13 DEF StoreResult, Result
  <2>2. issue_rows' \in BOOLEAN
    BY <1>13 DEF StoreResult, IssuesStored, HasIssues
  <2>3. ReadTypes'
    BY <1>13, ForgetTypes DEF StoreResult
  <2>4. pc' \in [Replica -> {"idle", "failed", "fail_unlocked", "fail_locked"} \union Running]
    BY <1>13 DEF StoreResult
  <2>5. anstoss' \subseteq Anstoss /\ late_old' \subseteq Late /\ late_new' \subseteq Late
    BY <1>13 DEF StoreResult, NotSeen
  <2> QED
    BY <1>13, <2>1, <2>2, <2>3, <2>4, <2>5 DEF StoreResult, ReadTypes, dbVars
<1>14. ASSUME NEW w \in Replica, DeleteIssues(w) PROVE TypeOK'
  BY <1>14 DEF DeleteIssues, dbVars, lateVars
<1>15. ASSUME NEW w \in Replica, StoreFailure(w) PROVE TypeOK'
  BY <1>15 DEF StoreFailure, dbVars, lateVars
<1>16. ASSUME NEW w \in Replica, FailRun(w) \/ Crash(w) PROVE TypeOK'
  <2>1. ReadTypes'
    BY <1>16, ForgetTypes DEF FailRun, Crash
  <2> QED
    BY <1>16, <2>1 DEF FailRun, Crash, ReadTypes, dbVars, lateVars
<1>17. CASE EditNetbox
  BY <1>17 DEF EditNetbox, Late, dbVars, workerVars
<1>18. CASE RetryElapses \/ IntervalElapses
  BY <1>18 DEF RetryElapses, IntervalElapses, dbVars, workerVars, lateVars
<1>19. CASE UNCHANGED vars
  BY <1>19 DEF vars, dbVars, workerVars, lateVars
<1> QED
  BY <1>1, <1>2, <1>3, <1>4, <1>5, <1>6, <1>7, <1>8, <1>9, <1>10, <1>11, <1>12, <1>13, <1>14,
     <1>15, <1>16, <1>17, <1>18, <1>19 DEF Next, Requests, Step, Fault, Time

(* The state after the migration has these types. *)
LEMMA TypeInit == Init => TypeOK
<1> SUFFICES ASSUME Init PROVE TypeOK
  OBVIOUS
<1>1. NoTarget \in Target
  BY DEF NoTarget, Target, Plans
<1>2. tx \in [Request -> [state : {"new", "open", "done"}, content : Content, recorded : BOOLEAN]]
  BY DEF Init, New, Content
<1>3. netbox_active \in Plans /\ version \in [Content -> Nat]
  BY DEF Init, Plans
<1>4. /\ anstoss \subseteq Anstoss /\ issue_rows \in BOOLEAN
      /\ netbox \in Target \union {Partial, Foreign} /\ faults \in Nat
      /\ late_old \subseteq Late /\ late_new \subseteq Late
      /\ netbox_sync \in [ergebnis : {"none", "ok", "issues", "fehler"},
                         retry : {"none", "waiting", "over"}, interval_over : BOOLEAN]
  BY DEF Init, Anstoss
<1>5. /\ pc \in [Replica -> {"idle", "failed", "fail_unlocked", "fail_locked"} \union Running]
      /\ ReadTypes
  BY <1>1 DEF Init, ReadTypes
<1> QED
  BY <1>2, <1>3, <1>4, <1>5 DEF TypeOK, ReadTypes

(* The database and the workers hold only values of their types. *)
THEOREM TypeCorrect == Spec => []TypeOK
  BY TypeInit, TypeStep, PTL DEF Spec

-----------------------------------------------------------------------------
(* The inductive invariant behind SynchronMeansShown. *)

(* The advisory lock: one run at a time. *)
OneRun == \A v, w \in Replica : pc[v] \in Running /\ pc[w] \in Running => v = w

(* Only a finished request has a row, so a row a run did not see is one    *)
(* that was committed after the run read them.                             *)
Finished == {"migration"} \union {r \in Request : tx[r].state = "done"}
RowsFinished == anstoss \subseteq Finished /\ \A w \in Replica : seen[w] \subseteq Finished

(* Only a change of a plan's own rows goes unrecorded. *)
SharedRecorded ==
    \A r \in Request : tx[r].state = "open" /\ ~ tx[r].recorded => tx[r].content # Shared

(* As long as no change came that the run did not see, what it has read so *)
(* far is what is committed.                                               *)
PlanRead == {"planned", "shared_read", "computed", "pushing", "pushed"}
SharedRead == PlanRead \ {"planned"}
AllRead == SharedRead \ {"shared_read"}
ReadIsCurrent ==
    \A w \in Replica : anstoss \subseteq seen[w] /\ late_new = {} =>
        /\ pc[w] \in PlanRead => target[w].plan = netbox_active
        /\ pc[w] \in SharedRead => target[w].shared = version[Shared]
        /\ pc[w] \in AllRead => target[w].own = Own(netbox_active)

(* What the pushing run has written, and that it had no issues. *)
PushedIsTarget == \A w \in Replica : pc[w] = "pushed" => netbox = target[w]
PushWithoutIssues ==
    \A w \in Replica : pc[w] \in {"pushing", "pushed"} => ~ HasIssues(target[w])

SyncInv ==
    /\ TypeOK
    /\ OneRun
    /\ RowsFinished
    /\ SharedRecorded
    /\ ReadIsCurrent
    /\ PushedIsTarget
    /\ PushWithoutIssues
    /\ SynchronMeansShown

-----------------------------------------------------------------------------
(* Every step preserves the invariant: for each action, each conjunct it can disturb. *)
LEMMA SyncStep == SyncInv /\ [Next]_vars => SyncInv'
<1> SUFFICES ASSUME SyncInv, [Next]_vars PROVE SyncInv'
  OBVIOUS
<1> USE DEF SyncInv, TypeOK
<1>0. TypeOK'
  BY TypeStep
<1>1. ASSUME NEW r \in Request, NEW c \in Content, Change(r, c) PROVE SyncInv'
  <2>1. OneRun'
    BY <1>1 DEF Change, workerVars, OneRun
  <2>2. RowsFinished' /\ SharedRecorded'
    BY <1>1 DEF Change, workerVars, RowsFinished, Finished, SharedRecorded
  <2>3. ReadIsCurrent'
    BY <1>1 DEF Change, workerVars, lateVars, ReadIsCurrent, Own
  <2>4. PushedIsTarget' /\ PushWithoutIssues'
    BY <1>1 DEF Change, workerVars, PushedIsTarget, PushWithoutIssues
  <2>5. SynchronMeansShown'
    BY <1>1 DEF Change, lateVars, SynchronMeansShown, Synchron, Ok, Desired, Own
  <2> QED
    BY <1>0, <2>1, <2>2, <2>3, <2>4, <2>5
<1>2. ASSUME NEW r \in Request, CommitChange(r) PROVE SyncInv'
  <2>1. OneRun' /\ PushedIsTarget' /\ PushWithoutIssues'
    BY <1>2 DEF CommitChange, workerVars, OneRun, PushedIsTarget, PushWithoutIssues, HasIssues
  <2>2. r \notin Finished
    BY <1>2, NamesAssumption DEF CommitChange, Finished
  <2>3. Finished' = Finished \union {r}
    BY <1>2 DEF CommitChange, Finished, Done
  <2>4. RowsFinished'
    BY <1>2, <2>3 DEF CommitChange, RowsFinished, workerVars
  <2>5. SharedRecorded'
    BY <1>2 DEF CommitChange, SharedRecorded, Done
  <2>6. \/ r \in anstoss'
        \/ late_new' # {}
        \/ Desired' = Desired
    <3>1. CASE tx[r].recorded \/ tx[r].content = netbox_active
      BY <1>2, <3>1 DEF CommitChange
    <3>2. CASE ~ tx[r].recorded /\ tx[r].content # netbox_active
      <4>1. tx[r].content # Shared
        BY <1>2, <3>2 DEF CommitChange, SharedRecorded
      <4>2. version'[Shared] = version[Shared] /\ netbox_active' = netbox_active
        BY <1>2, <4>1 DEF CommitChange, Content
      <4>3. Own(netbox_active)' = Own(netbox_active)
        BY <1>2, <3>2 DEF CommitChange, Own, Content, Plans
      <4> QED
        BY <4>2, <4>3 DEF Desired
    <3> QED
      BY <3>1, <3>2
  <2>7. \A w \in Replica : r \notin seen[w] /\ seen'[w] = seen[w]
    BY <1>2, <2>2 DEF CommitChange, RowsFinished, workerVars
  <2>8. late_new \subseteq late_new' /\ late_old' = late_old /\ anstoss \subseteq anstoss'
    BY <1>2 DEF CommitChange
  <2>9. ReadIsCurrent'
    BY <1>2, <2>6, <2>7, <2>8 DEF CommitChange, workerVars, ReadIsCurrent, Desired
  <2>10. SynchronMeansShown'
    BY <1>2, <2>6, <2>8 DEF CommitChange, SynchronMeansShown, Synchron, Ok
  <2> QED
    BY <1>0, <2>1, <2>4, <2>5, <2>9, <2>10
<1>3. ASSUME NEW r \in Request, RollbackChange(r) PROVE SyncInv'
  <2>1. OneRun'
    BY <1>3 DEF RollbackChange, workerVars, OneRun
  <2>2. RowsFinished' /\ SharedRecorded'
    BY <1>3 DEF RollbackChange, workerVars, Done, RowsFinished, Finished, SharedRecorded
  <2>3. ReadIsCurrent'
    BY <1>3 DEF RollbackChange, workerVars, lateVars, ReadIsCurrent, Own
  <2>4. PushedIsTarget' /\ PushWithoutIssues'
    BY <1>3 DEF RollbackChange, workerVars, PushedIsTarget, PushWithoutIssues
  <2>5. SynchronMeansShown'
    BY <1>3 DEF RollbackChange, lateVars, SynchronMeansShown, Synchron, Ok, Desired, Own
  <2> QED
    BY <1>0, <2>1, <2>2, <2>3, <2>4, <2>5
<1>4. ASSUME NEW r \in Request, NEW p \in Plans, SetNetboxActivePlan(r, p) PROVE SyncInv'
  <2>1. OneRun' /\ PushedIsTarget' /\ PushWithoutIssues'
    BY <1>4 DEF SetNetboxActivePlan, workerVars, OneRun, PushedIsTarget, PushWithoutIssues,
       HasIssues
  <2>2. r \notin Finished
    BY <1>4, NamesAssumption DEF SetNetboxActivePlan, Finished
  <2>3. Finished' = Finished \union {r}
    BY <1>4 DEF SetNetboxActivePlan, Finished, Done
  <2>4. RowsFinished'
    BY <1>4, <2>3 DEF SetNetboxActivePlan, RowsFinished, workerVars
  <2>5. SharedRecorded'
    BY <1>4 DEF SetNetboxActivePlan, SharedRecorded, Done
  <2>6. r \in anstoss' \/ Desired' = Desired
    BY <1>4 DEF SetNetboxActivePlan, Desired, Own
  <2>7. \A w \in Replica : r \notin seen[w] /\ seen'[w] = seen[w]
    BY <1>4, <2>2 DEF SetNetboxActivePlan, RowsFinished, workerVars
  <2>8. anstoss \subseteq anstoss' /\ late_new' = late_new /\ late_old' = late_old
    BY <1>4 DEF SetNetboxActivePlan, lateVars
  <2>9. ReadIsCurrent'
    BY <1>4, <2>6, <2>7, <2>8 DEF SetNetboxActivePlan, workerVars, ReadIsCurrent, Desired
  <2>10. SynchronMeansShown'
    BY <1>4, <2>6, <2>8 DEF SetNetboxActivePlan, SynchronMeansShown, Synchron, Ok
  <2> QED
    BY <1>0, <2>1, <2>4, <2>5, <2>9, <2>10
<1>5. ASSUME NEW r \in Request, SyncNetbox(r) PROVE SyncInv'
  <2>1. OneRun'
    BY <1>5 DEF SyncNetbox, workerVars, OneRun
  <2>2. RowsFinished' /\ SharedRecorded'
    BY <1>5 DEF SyncNetbox, workerVars, Done, RowsFinished, Finished, SharedRecorded
  <2>3. ReadIsCurrent'
    BY <1>5 DEF SyncNetbox, workerVars, lateVars, ReadIsCurrent, Own
  <2>4. PushedIsTarget' /\ PushWithoutIssues'
    BY <1>5 DEF SyncNetbox, workerVars, PushedIsTarget, PushWithoutIssues
  <2>5. SynchronMeansShown'
    BY <1>5 DEF SyncNetbox, lateVars, SynchronMeansShown, Synchron, Ok, Desired, Own
  <2> QED
    BY <1>0, <2>1, <2>2, <2>3, <2>4, <2>5
<1>6. ASSUME NEW w \in Replica, StartRun(w) PROVE SyncInv'
  <2>1. OneRun'
    BY <1>6 DEF StartRun, Running, OneRun
  <2>2. RowsFinished' /\ SharedRecorded'
    BY <1>6 DEF StartRun, dbVars, RowsFinished, Finished, SharedRecorded
  <2>3. ReadIsCurrent'
    BY <1>6 DEF StartRun, dbVars, lateVars, ReadIsCurrent, PlanRead, SharedRead, AllRead, Own
  <2>4. PushedIsTarget' /\ PushWithoutIssues'
    BY <1>6 DEF StartRun, PushedIsTarget, PushWithoutIssues
  <2>5. SynchronMeansShown'
    BY <1>6 DEF StartRun, dbVars, lateVars, SynchronMeansShown, Synchron, Ok, Desired, Own
  <2> QED
    BY <1>0, <2>1, <2>2, <2>3, <2>4, <2>5
<1>7. ASSUME NEW w \in Replica, ReadChanges(w) PROVE SyncInv'
  <2>1. OneRun'
    BY <1>7 DEF ReadChanges, OneRun, Running
  <2>2. \A v \in Replica : seen'[v] \in {{}, seen[v], anstoss}
    BY <1>7 DEF ReadChanges, Forget
  <2>3. RowsFinished' /\ SharedRecorded'
    BY <1>7, <2>2 DEF ReadChanges, RowsFinished, Finished, SharedRecorded, dbVars
  <2>4. \A v \in Replica : pc[v] \notin PlanRead
    BY <1>7 DEF ReadChanges, OneRun, Running, PlanRead
  <2>5. \A v \in Replica : pc'[v] \notin PlanRead
    BY <1>7, <2>4 DEF ReadChanges, PlanRead
  <2>6. ReadIsCurrent' /\ PushedIsTarget' /\ PushWithoutIssues'
    BY <2>5 DEF ReadIsCurrent, PushedIsTarget, PushWithoutIssues, PlanRead, SharedRead, AllRead
  <2>7. (late_old \union late_new)' = late_old \union late_new
    BY <1>7 DEF ReadChanges, lateVars
  <2>8. SynchronMeansShown'
    BY <1>7, <2>7 DEF ReadChanges, SynchronMeansShown, Synchron, Ok, Desired, Own, dbVars
  <2> QED
    BY <1>0, <2>1, <2>3, <2>6, <2>8
<1>8. ASSUME NEW w \in Replica, ReadPlan(w) PROVE SyncInv'
  <2>1. OneRun'
    BY <1>8 DEF ReadPlan, Running, OneRun
  <2>2. RowsFinished' /\ SharedRecorded'
    BY <1>8 DEF ReadPlan, dbVars, RowsFinished, Finished, SharedRecorded
  <2>3. ReadIsCurrent'
    BY <1>8 DEF ReadPlan, dbVars, lateVars, ReadIsCurrent, PlanRead, SharedRead, AllRead, Own
  <2>4. PushedIsTarget' /\ PushWithoutIssues'
    BY <1>8 DEF ReadPlan, PushedIsTarget, PushWithoutIssues
  <2>5. SynchronMeansShown'
    BY <1>8 DEF ReadPlan, dbVars, lateVars, SynchronMeansShown, Synchron, Ok, Desired, Own
  <2> QED
    BY <1>0, <2>1, <2>2, <2>3, <2>4, <2>5
<1>9. ASSUME NEW w \in Replica, ReadShared(w) PROVE SyncInv'
  <2>1. OneRun'
    BY <1>9 DEF ReadShared, Running, OneRun
  <2>2. RowsFinished' /\ SharedRecorded'
    BY <1>9 DEF ReadShared, dbVars, RowsFinished, Finished, SharedRecorded
  <2>3. ReadIsCurrent'
    BY <1>9 DEF ReadShared, dbVars, lateVars, ReadIsCurrent, PlanRead, SharedRead, AllRead, Own
  <2>4. PushedIsTarget' /\ PushWithoutIssues'
    BY <1>9 DEF ReadShared, PushedIsTarget, PushWithoutIssues
  <2>5. SynchronMeansShown'
    BY <1>9 DEF ReadShared, dbVars, lateVars, SynchronMeansShown, Synchron, Ok, Desired, Own
  <2> QED
    BY <1>0, <2>1, <2>2, <2>3, <2>4, <2>5
<1>10. ASSUME NEW w \in Replica, ReadOwn(w) PROVE SyncInv'
  <2>1. OneRun'
    BY <1>10 DEF ReadOwn, Running, OneRun
  <2>2. RowsFinished' /\ SharedRecorded'
    BY <1>10 DEF ReadOwn, dbVars, RowsFinished, Finished, SharedRecorded
  <2>3. ReadIsCurrent'
    BY <1>10 DEF ReadOwn, dbVars, lateVars, ReadIsCurrent, PlanRead, SharedRead, AllRead, Own
  <2>4. PushedIsTarget' /\ PushWithoutIssues'
    BY <1>10 DEF ReadOwn, PushedIsTarget, PushWithoutIssues
  <2>5. SynchronMeansShown'
    BY <1>10 DEF ReadOwn, dbVars, lateVars, SynchronMeansShown, Synchron, Ok, Desired, Own
  <2> QED
    BY <1>0, <2>1, <2>2, <2>3, <2>4, <2>5
<1>11. ASSUME NEW w \in Replica, StartPush(w) PROVE SyncInv'
  <2>1. OneRun'
    BY <1>11 DEF StartPush, Running, OneRun
  <2>2. RowsFinished' /\ SharedRecorded'
    BY <1>11 DEF StartPush, RowsFinished, Finished, SharedRecorded, dbVars
  <2>3. ReadIsCurrent'
    BY <1>11 DEF StartPush, ReadIsCurrent, PlanRead, SharedRead, AllRead, Own, dbVars, lateVars
  <2>4. \A v \in Replica : pc'[v] # "pushed" /\ (v # w => pc[v] \notin {"pushing", "pushed"})
    BY <1>11 DEF StartPush, OneRun, Running
  <2>5. PushedIsTarget' /\ PushWithoutIssues'
    BY <1>11, <2>4 DEF StartPush, PushedIsTarget, PushWithoutIssues, HasIssues
  <2>6. late_new = {} /\ anstoss = {} => target[w] = Desired
    BY <1>11 DEF StartPush, ReadIsCurrent, PlanRead, SharedRead, AllRead, Desired, Target
  <2>7. SynchronMeansShown'
    BY <1>11, <2>6 DEF StartPush, SynchronMeansShown, Synchron, Ok, lateVars
  <2> QED
    BY <1>0, <2>1, <2>2, <2>3, <2>5, <2>7
<1>12. ASSUME NEW w \in Replica, FinishPush(w) PROVE SyncInv'
  <2>1. OneRun'
    BY <1>12 DEF FinishPush, Running, OneRun
  <2>2. RowsFinished' /\ SharedRecorded'
    BY <1>12 DEF FinishPush, RowsFinished, Finished, SharedRecorded, dbVars
  <2>3. ReadIsCurrent'
    BY <1>12 DEF FinishPush, ReadIsCurrent, PlanRead, SharedRead, AllRead, Own, dbVars, lateVars
  <2>4. \A v \in Replica : v # w => pc[v] \notin {"pushing", "pushed"}
    BY <1>12 DEF FinishPush, OneRun, Running
  <2>5. PushedIsTarget' /\ PushWithoutIssues'
    BY <1>12, <2>4 DEF FinishPush, PushedIsTarget, PushWithoutIssues, HasIssues
  <2>6. late_new = {} /\ anstoss = {} => target[w] = Desired
    BY <1>12 DEF FinishPush, ReadIsCurrent, PlanRead, SharedRead, AllRead, Desired, Target
  <2>7. Desired' = Desired
    BY <1>12 DEF FinishPush, Desired, Own, dbVars
  <2>8. SynchronMeansShown'
    BY <1>12, <2>6, <2>7 DEF FinishPush, SynchronMeansShown, Synchron, Ok, lateVars
  <2> QED
    BY <1>0, <2>1, <2>2, <2>3, <2>5, <2>8
<1>13. ASSUME NEW w \in Replica, StoreResult(w) PROVE SyncInv'
  <2>1. OneRun'
    BY <1>13 DEF StoreResult, OneRun, Running
  <2>2. RowsFinished' /\ SharedRecorded'
    BY <1>13 DEF StoreResult, dbVars, Forget, NotSeen, RowsFinished, Finished, SharedRecorded
  <2>3. \A v \in Replica : pc[v] \in Running => v = w
    BY <1>13 DEF StoreResult, OneRun, Running
  <2>4. \A v \in Replica : pc'[v] \notin Running
    BY <1>13, <2>3 DEF StoreResult, Running
  <2>5. ReadIsCurrent' /\ PushedIsTarget' /\ PushWithoutIssues'
    BY <2>4 DEF ReadIsCurrent, PushedIsTarget, PushWithoutIssues, PlanRead, SharedRead,
       AllRead, Running
  <2>6. late_new = {} /\ anstoss' = {} => target[w] = Desired
    BY <1>13 DEF StoreResult, NotSeen, ReadIsCurrent, PlanRead, SharedRead, AllRead, Desired,
       Target
  <2>7. Ok' => netbox = target[w]
    BY <1>13 DEF StoreResult, Ok, Result, PushedIsTarget
  <2>8. Desired' = Desired
    BY <1>13 DEF StoreResult, Desired, Own, dbVars
  <2>9. SynchronMeansShown'
    BY <1>13, <2>6, <2>7, <2>8 DEF StoreResult, SynchronMeansShown, Synchron
  <2> QED
    BY <1>0, <2>1, <2>2, <2>5, <2>9
<1>14. ASSUME NEW w \in Replica, DeleteIssues(w) PROVE SyncInv'
  <2>1. OneRun'
    BY <1>14 DEF DeleteIssues, Running, OneRun
  <2>2. RowsFinished' /\ SharedRecorded'
    BY <1>14 DEF DeleteIssues, dbVars, RowsFinished, Finished, SharedRecorded
  <2>3. ReadIsCurrent'
    BY <1>14 DEF DeleteIssues, dbVars, lateVars, ReadIsCurrent, PlanRead, SharedRead, AllRead, Own
  <2>4. PushedIsTarget' /\ PushWithoutIssues'
    BY <1>14 DEF DeleteIssues, PushedIsTarget, PushWithoutIssues
  <2>5. SynchronMeansShown'
    BY <1>14 DEF DeleteIssues, dbVars, lateVars, SynchronMeansShown, Synchron, Ok, Desired, Own
  <2> QED
    BY <1>0, <2>1, <2>2, <2>3, <2>4, <2>5
<1>15. ASSUME NEW w \in Replica, StoreFailure(w) PROVE SyncInv'
  <2>1. OneRun'
    BY <1>15 DEF StoreFailure, Running, OneRun
  <2>2. RowsFinished' /\ SharedRecorded'
    BY <1>15 DEF StoreFailure, dbVars, RowsFinished, Finished, SharedRecorded
  <2>3. ReadIsCurrent'
    BY <1>15 DEF StoreFailure, dbVars, lateVars, ReadIsCurrent, PlanRead, SharedRead, AllRead, Own
  <2>4. PushedIsTarget' /\ PushWithoutIssues'
    BY <1>15 DEF StoreFailure, PushedIsTarget, PushWithoutIssues
  <2>5. SynchronMeansShown'
    BY <1>15 DEF StoreFailure, dbVars, lateVars, SynchronMeansShown, Synchron, Ok, Desired, Own
  <2> QED
    BY <1>0, <2>1, <2>2, <2>3, <2>4, <2>5
<1>16. ASSUME NEW w \in Replica, FailRun(w) \/ Crash(w) PROVE SyncInv'
  <2>1. OneRun'
    BY <1>16 DEF FailRun, Crash, Running, OneRun
  <2>2. RowsFinished' /\ SharedRecorded'
    BY <1>0, <1>16 DEF FailRun, Crash, Forget, dbVars, RowsFinished, Finished, SharedRecorded
  <2>3. ReadIsCurrent'
    BY <1>16 DEF FailRun, Crash, Forget, dbVars, lateVars, ReadIsCurrent, PlanRead,
       SharedRead, AllRead, Own
  <2>4. PushedIsTarget' /\ PushWithoutIssues'
    BY <1>16 DEF FailRun, Crash, Forget, PushedIsTarget, PushWithoutIssues
  <2>5. SynchronMeansShown'
    BY <1>16 DEF FailRun, Crash, dbVars, lateVars, SynchronMeansShown, Synchron, Ok, Desired, Own
  <2> QED
    BY <1>0, <2>1, <2>2, <2>3, <2>4, <2>5
<1>17. CASE EditNetbox
  <2>1. \A w \in Replica : pc'[w] \notin Running
    BY <1>17 DEF EditNetbox, workerVars
  <2>2. OneRun' /\ ReadIsCurrent' /\ PushedIsTarget' /\ PushWithoutIssues'
    BY <2>1 DEF OneRun, ReadIsCurrent, PushedIsTarget, PushWithoutIssues, PlanRead,
       SharedRead, AllRead, Running
  <2>3. RowsFinished' /\ SharedRecorded' /\ SynchronMeansShown'
    BY <1>17 DEF EditNetbox, RowsFinished, Finished, SharedRecorded, SynchronMeansShown,
       dbVars, workerVars
  <2> QED
    BY <1>0, <2>2, <2>3
<1>18. CASE RetryElapses \/ IntervalElapses
  <2>1. Ok' = Ok /\ UNCHANGED <<dbVars, anstoss, netbox, workerVars, lateVars>>
    BY <1>18 DEF RetryElapses, IntervalElapses, Ok
  <2> QED
    BY <1>0, <2>1 DEF dbVars, workerVars, lateVars, OneRun, RowsFinished, Finished,
       SharedRecorded,
      ReadIsCurrent, PlanRead, SharedRead, AllRead, PushedIsTarget, PushWithoutIssues, HasIssues,
      SynchronMeansShown, Synchron, Ok, Desired, Own
<1>19. CASE UNCHANGED vars
  BY <1>0, <1>19 DEF vars, dbVars, workerVars, lateVars, OneRun, RowsFinished, Finished,
     SharedRecorded,
      ReadIsCurrent, PlanRead, SharedRead, AllRead, PushedIsTarget, PushWithoutIssues, HasIssues,
      SynchronMeansShown, Synchron, Ok, Desired, Own
<1> QED
  BY <1>1, <1>2, <1>3, <1>4, <1>5, <1>6, <1>7, <1>8, <1>9, <1>10, <1>11, <1>12, <1>13, <1>14,
     <1>15, <1>16, <1>17, <1>18, <1>19 DEF Next, Requests, Step, Fault, Time

(* At the start no run is under way and nothing is SYNCHRON. *)
LEMMA SyncInit == Init => SyncInv
  BY TypeInit DEF Init, SyncInv, OneRun, RowsFinished, Finished, SharedRecorded, ReadIsCurrent,
     PushedIsTarget, PushWithoutIssues, SynchronMeansShown, Synchron, Ok, Running, PlanRead,
     SharedRead, AllRead, New

(* The runs of all replicas keep to the lock, and what a run has read, it has read *)
(* of the content committed now, unless a change came that it did not see.         *)
THEOREM SyncInvariant == Spec => []SyncInv
  BY SyncInit, SyncStep, PTL DEF Spec

(* SYNCHRON is true, however requests, runs, failures and crashes interleave. *)
THEOREM SynchronCorrect == Spec => []SynchronMeansShown
<1>1. SyncInv => SynchronMeansShown
  BY DEF SyncInv
<1> QED
  BY <1>1, SyncInvariant, PTL

-----------------------------------------------------------------------------
(* Only a run whose content has no issues writes to Netbox, and alone. *)
THEOREM IssuesKeepNetboxCorrect == Spec => IssuesKeepNetbox
<1> DEFINE Write ==
        netbox' # netbox =>
          \/ netbox' = Foreign
          \/ \E w \in Replica :
                /\ pc[w] \in {"computed", "pushing"}
                /\ target[w] \notin Faulty
                /\ \A v \in Replica \ {w} : pc[v] \notin {"pushing", "pushed"}
<1>1. SyncInv /\ [Next]_vars => Write
  <2> SUFFICES ASSUME SyncInv, [Next]_vars, netbox' # netbox, netbox' # Foreign
               PROVE \E w \in Replica :
                        /\ pc[w] \in {"computed", "pushing"}
                        /\ target[w] \notin Faulty
                        /\ \A v \in Replica \ {w} : pc[v] \notin {"pushing", "pushed"}
    OBVIOUS
  <2>1. PICK w \in Replica : StartPush(w) \/ FinishPush(w)
    BY DEF Next, Requests, Step, Fault, Time, Change, CommitChange, RollbackChange,
           SetNetboxActivePlan, SyncNetbox, StartRun, ReadChanges, ReadPlan, ReadShared, ReadOwn,
           StoreResult, DeleteIssues, StoreFailure, FailRun, Crash, EditNetbox, RetryElapses,
           IntervalElapses, vars
  <2>2. pc[w] \in {"computed", "pushing"}
    BY <2>1 DEF StartPush, FinishPush
  <2>3. target[w] \notin Faulty
    BY <2>1 DEF StartPush, FinishPush, SyncInv, PushWithoutIssues, HasIssues
  <2>4. \A v \in Replica \ {w} : pc[v] \notin {"pushing", "pushed"}
    BY <2>2 DEF SyncInv, OneRun, Running
  <2> QED
    BY <2>2, <2>3, <2>4
<1> QED
  BY <1>1, SyncInvariant, PTL DEF Spec, IssuesKeepNetbox

-----------------------------------------------------------------------------
(* One replica alone: when a failure has found no issues to delete, none   *)
(* come before it is stored.                                               *)
Alone == \A v, w \in Replica : v = w
NoIssuesLeft == Alone => \A w \in Replica : pc[w] = "fail_unlocked" => ~ issue_rows

LEMMA NoIssuesLeftStep ==
    ASSUME TypeOK, NoIssuesLeft, [Next]_vars PROVE NoIssuesLeft'
<1> SUFFICES ASSUME Alone, NEW v \in Replica, pc'[v] = "fail_unlocked", issue_rows'
             PROVE  FALSE
  BY DEF NoIssuesLeft, Alone
<1>0. pc[v] = "fail_unlocked" => ~ issue_rows
  BY DEF NoIssuesLeft
<1> USE DEF TypeOK
<1>1. ASSUME NEW w \in Replica, StoreResult(w) PROVE FALSE
  <2>1. w = v
    BY DEF Alone
  <2>2. PICK waiting : pc' = [u \in Replica |-> IF u = w THEN "idle"
                                  ELSE IF u \in waiting THEN "fail_unlocked" ELSE pc[u]]
    BY <1>1 DEF StoreResult
  <2> QED
    BY <2>1, <2>2
<1>2. ASSUME NEW w \in Replica, DeleteIssues(w) PROVE FALSE
  <2>1. w = v
    BY DEF Alone
  <2> QED
    BY <1>2, <2>1 DEF DeleteIssues
<1>3. ASSUME NEW w \in Replica, StoreFailure(w) \/ FailRun(w) \/ Crash(w) PROVE FALSE
  <2>1. w = v
    BY DEF Alone
  <2> QED
    BY <1>3, <2>1 DEF StoreFailure, FailRun, Crash
<1>4. ASSUME NEW w \in Replica,
             StartRun(w) \/ ReadChanges(w) \/ ReadPlan(w) \/ ReadShared(w) \/ ReadOwn(w)
                \/ StartPush(w) \/ FinishPush(w)
      PROVE  FALSE
  <2>1. w = v
    BY DEF Alone
  <2> QED
    BY <1>4, <2>1
       DEF StartRun, ReadChanges, ReadPlan, ReadShared, ReadOwn, StartPush, FinishPush
<1>5. CASE UNCHANGED <<pc, issue_rows>>
  BY <1>0, <1>5
<1> QED
  BY <1>1, <1>2, <1>3, <1>4, <1>5
     DEF Next, Requests, Step, Fault, Time, Change, CommitChange, RollbackChange,
         SetNetboxActivePlan, SyncNetbox, EditNetbox, RetryElapses, IntervalElapses, workerVars, vars

(* After a success no issues are stored, after a run with issues there     *)
(* are; after a failure there are some only if there are several replicas. *)
THEOREM IssuesMatchResultCorrect == Spec => []IssuesMatchResult
<1> DEFINE Inv == TypeOK /\ NoIssuesLeft /\ IssuesMatchResult
<1>1. Init => Inv
  BY TypeInit DEF Init, IssuesMatchResult, NoIssuesLeft
<1>2. Inv /\ [Next]_vars => Inv'
  <2> SUFFICES ASSUME TypeOK, NoIssuesLeft, IssuesMatchResult, [Next]_vars
               PROVE  IssuesMatchResult'
    BY TypeStep, NoIssuesLeftStep
  <2> USE DEF IssuesMatchResult, TypeOK
  <2>1. ASSUME NEW w \in Replica, StoreResult(w) PROVE IssuesMatchResult'
    BY <2>1 DEF StoreResult, Result, IssuesStored
  <2>2. ASSUME NEW w \in Replica, StoreFailure(w) PROVE IssuesMatchResult'
    <3>1. ~ (issue_rows' /\ Alone)
      BY <2>2 DEF StoreFailure, NoIssuesLeft
    <3> QED
      BY <2>2, <3>1 DEF StoreFailure, Alone
  <2>3. CASE issue_rows' = issue_rows /\ netbox_sync'.ergebnis = netbox_sync.ergebnis
    BY <2>3
  <2> QED
    BY <2>1, <2>2, <2>3
       DEF Next, Requests, Step, Fault, Time, Change, CommitChange, RollbackChange,
           SetNetboxActivePlan, SyncNetbox, StartRun, ReadChanges, ReadPlan, ReadShared, ReadOwn,
           StartPush, FinishPush, DeleteIssues, FailRun, Crash, EditNetbox, RetryElapses,
           IntervalElapses, vars
<1> QED
  BY <1>1, <1>2, PTL DEF Spec
=============================================================================
