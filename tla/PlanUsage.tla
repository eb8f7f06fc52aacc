----------------------------- MODULE PlanUsage -----------------------------
(***************************************************************************)
(* Plans, the fibers they attach to ports, and the cables: every mutation  *)
(* that writes port_usage, plan, kabel or kabel_trasse, each as the one    *)
(* transaction a request is.  A mutation that is refused changes nothing   *)
(* (its transaction is rolled back), so refusals are guards here.          *)
(*                                                                         *)
(* The triggers of the Netbox sync run in the transaction that makes the   *)
(* change: they set netbox_sync_anstoss, which a run of the sync worker    *)
(* clears.  unsynced is history: what Netbox is to show changed since the  *)
(* last run.                                                               *)
(***************************************************************************)
EXTENDS PortUsage

CONSTANTS
    ImportedUsage, \* what port_usage may hold when the checks are introduced
    ImportedKabel, \* the cables there are then
    KabelInput,    \* structures and paths requests give: [buendel_anz, faser_anz, path]
    MaxChanges,    \* bound: slots changed by one setPortUsage, keys of one removal
    MaxRows        \* bound: rows of the plans other than the baseline

VARIABLES
    plan,                \* the plans that exist
    netbox_active,       \* the plans flagged netbox_active
    port_usage,
    kabel,
    netbox_sync_anstoss, \* a change is recorded that no run has synced
    unsynced,            \* history: what Netbox is to show differs from the last run's
    imported             \* history: port_usage at the start

vars == <<plan, netbox_active, port_usage, kabel, netbox_sync_anstoss, unsynced, imported>>

ASSUME ImportAssumption ==
    /\ ImportedUsage \subseteq [Plans -> [Slot -> Row]]
    /\ ImportedKabel \in [Cable -> {NoCable} \union Kabel]
    /\ \A pu \in ImportedUsage : \A s \in Slot :
           /\ pu[Baseline][s] # Removed
           /\ \A p \in Plans : pu[p][s] \in Fiber => ImportedKabel[pu[p][s].cable] # NoCable
    /\ KabelInput \subseteq Kabel

TypeOK ==
    /\ plan \subseteq Plans /\ Baseline \in plan
    /\ netbox_active \subseteq plan
    /\ port_usage \in [Plans -> [Slot -> Row]]
    /\ \A s \in Slot : port_usage[Baseline][s] # Removed
    /\ kabel \in [Cable -> {NoCable} \union Kabel]
    /\ netbox_sync_anstoss \in BOOLEAN
    /\ unsynced \in BOOLEAN
    /\ imported \in [Plans -> [Slot -> Row]]

Rows(pu, p) == {s \in Slot : pu[p][s] # NoRow}

(* The migration that introduces the checks finds plans and usages no      *)
(* check has seen: rows that do not fit their cables, in the baseline and  *)
(* in plans.                                                               *)
Init ==
    /\ imported \in ImportedUsage
    /\ plan \in {ps \in SUBSET Plans :
                    Baseline \in ps /\ \A p \in Plans \ ps : Rows(imported, p) = {}}
    /\ netbox_active \in {{p} : p \in plan}
    /\ port_usage = imported
    /\ kabel = ImportedKabel
    /\ netbox_sync_anstoss = TRUE
    /\ unsynced = TRUE

(* What the sync reads: the effective usages of the active plan, the cables. *)
Shown(pu, kb, active) ==
    <<{<<s, EffectivePortUsage(pu, p, s)>> : p \in active, s \in Slot}, kb>>

(* A fault: the baseline, which an active plan shows too, is forgotten. *)
AnstossenActive(keys) ==
    netbox_sync_anstoss' = (netbox_sync_anstoss \/ \E k \in keys : k[1] \in netbox_active)

(* netbox_sync_port_usage, for each row written: those of the baseline and *)
(* of the active plan are recorded.                                        *)
Anstossen(keys) ==
    netbox_sync_anstoss' =
        (netbox_sync_anstoss \/ \E k \in keys : k[1] \in {Baseline} \union netbox_active)

-----------------------------------------------------------------------------
CreatePlan(p) ==
    /\ p \notin plan
    /\ plan' = plan \union {p}
    /\ UNCHANGED <<netbox_active, port_usage, kabel, netbox_sync_anstoss>>

(* setPortUsage: changes gives each slot its new row: a fiber (Attach),    *)
(* Removed (Remove) or NoRow (Reset).  Attaching needs the cable (foreign  *)
(* key).  The rows of the baseline are not changed this way.               *)
SetPortUsage(p, changes) ==
    LET slots == DOMAIN changes
        usage == [port_usage EXCEPT ![p] =
                     [s \in Slot |-> IF s \in slots THEN changes[s] ELSE @[s]]]
        written == {s \in slots : changes[s] # NoRow \/ port_usage[p][s] # NoRow}
    IN  /\ p \in plan \ {Baseline}
        /\ Cardinality(UNION {{q} \X Rows(usage, q) : q \in Plan}) <= MaxRows
        /\ \A s \in slots : changes[s] \in Fiber => kabel[changes[s].cable] # NoCable
        /\ IssuesOfPorts(usage, kabel, p, slots)
               \subseteq IssuesOfPorts(port_usage, kabel, p, slots)
        /\ port_usage' = usage
        /\ Anstossen({p} \X written)
        /\ UNCHANGED <<plan, netbox_active, kabel>>

(* Faults: a row without a cable is copied like any other; is skipped. *)
AppliedCopied(p) ==
    [s \in Slot |-> IF port_usage[p][s] = NoRow THEN port_usage[Baseline][s] ELSE port_usage[p][s]]
AppliedAttached(p) ==
    [s \in Slot |->
        IF port_usage[p][s] \in Fiber THEN port_usage[p][s] ELSE port_usage[Baseline][s]]

(* The baseline once plan p's rows are applied to it. *)
Applied(p) ==
    [s \in Slot |->
        CASE port_usage[p][s] = NoRow   -> port_usage[Baseline][s]
          [] port_usage[p][s] = Removed -> NoRow
          [] OTHER                      -> port_usage[p][s]]

(* A fault: nothing takes over from the plan. *)
ActiveDropped(p) == netbox_active \ {p}

(* What is active in Netbox once plan p is gone. *)
ActiveWithout(p) ==
    IF p \in netbox_active THEN (netbox_active \ {p}) \union {Baseline} ELSE netbox_active

(* implementPlan: the plan's rows replace the baseline's, checked on the   *)
(* ports they name; the plan goes, and the baseline is active in Netbox if *)
(* the plan was (the trigger on plan records that).                        *)
ImplementPlan(p) ==
    LET slots == Rows(port_usage, p)
        applied == [port_usage EXCEPT ![Baseline] = Applied(p)]
        written == {s \in slots : port_usage[p][s] \in Fiber \/ port_usage[Baseline][s] # NoRow}
    IN  /\ p \in plan \ {Baseline}
        /\ IssuesOfPorts(applied, kabel, Baseline, slots)
               \subseteq IssuesOfPorts(port_usage, kabel, Baseline, slots)
        /\ port_usage' = [applied EXCEPT ![p] = [s \in Slot |-> NoRow]]
        /\ plan' = plan \ {p}
        /\ netbox_active' = ActiveWithout(p)
        /\ IF p \in netbox_active THEN netbox_sync_anstoss' = TRUE
                                  ELSE Anstossen({Baseline} \X written)
        /\ UNCHANGED kabel

(* The rows of the keys removed: of the baseline deleted, of a plan without a cable. *)
Without(pu, keys) ==
    [p \in Plans |-> [s \in Slot |->
        IF <<p, s>> \notin keys THEN pu[p][s]
        ELSE IF p = Baseline THEN NoRow ELSE Removed]]

(* A fault: what is broken is decided for all keys before any is removed. *)
RemoveAllBroken(keys) ==
    LET broken == {keys[i] : i \in {i \in DOMAIN keys :
                                       Broken(port_usage, kabel, keys[i][1], keys[i][2])}}
    IN  /\ port_usage' = Without(port_usage, broken)
        /\ Anstossen(broken)
        /\ UNCHANGED <<plan, netbox_active, kabel>>

(* removeBrokenPortUsages: the keys in their order, each only if the rows  *)
(* removed before it leave it broken.  done are the positions removed.     *)
RemoveBrokenPortUsages(keys) ==
    \E done \in SUBSET DOMAIN keys :
        /\ \A i \in DOMAIN keys :
              i \in done <=> Broken(Without(port_usage, {keys[j] : j \in {j \in done : j < i}}),
                                    kabel, keys[i][1], keys[i][2])
        /\ port_usage' = Without(port_usage, {keys[j] : j \in done})
        /\ Anstossen({keys[j] : j \in done})
        /\ UNCHANGED <<plan, netbox_active, kabel>>

CreateCable(c, k) ==
    /\ kabel[c] = NoCable
    /\ k.path # <<>>
    /\ kabel' = [kabel EXCEPT ![c] = k]
    /\ netbox_sync_anstoss' = TRUE
    /\ UNCHANGED <<plan, netbox_active, port_usage>>

(* updateCable with a structure, a path or both; refused if a usage of the *)
(* cable, in any plan, gets a problem.                                     *)
UpdateCable(c, k) ==
    LET updated == [kabel EXCEPT ![c] = k]
    IN  /\ kabel[c] # NoCable
        /\ k.path # <<>>
        /\ IssuesOfCable(port_usage, updated, c) \subseteq IssuesOfCable(port_usage, kabel, c)
        /\ kabel' = updated
        /\ netbox_sync_anstoss' = TRUE
        /\ UNCHANGED <<plan, netbox_active, port_usage>>

(* Only a cable no port usage of any plan names. *)
DeleteCable(c) ==
    /\ kabel[c] # NoCable
    /\ \A p \in Plans, s \in Slot : port_usage[p][s] \in Fiber => port_usage[p][s].cable # c
    /\ kabel' = [kabel EXCEPT ![c] = NoCable]
    /\ netbox_sync_anstoss' = TRUE
    /\ UNCHANGED <<plan, netbox_active, port_usage>>

(* The trigger on plan fires only if a flag changes. *)
SetNetboxActivePlan(p) ==
    /\ p \in plan
    /\ netbox_active' = {p}
    /\ netbox_sync_anstoss' = (netbox_sync_anstoss \/ netbox_active # {p})
    /\ UNCHANGED <<plan, port_usage, kabel>>

(* A run of the sync worker (NetboxAutoSync has it in detail). *)
SyncRun ==
    /\ netbox_sync_anstoss
    /\ netbox_sync_anstoss' = FALSE
    /\ unsynced' = FALSE
    /\ UNCHANGED <<plan, netbox_active, port_usage, kabel, imported>>

Changes == UNION {[S -> Row] : S \in {S \in SUBSET Slot : Cardinality(S) \in 1 .. MaxChanges}}

(* The keys of a removal: sequences of broken usages.  The code skips a    *)
(* key that is not broken, so a request naming one does what the request   *)
(* without it does.                                                        *)
BrokenUsages == {<<i[1], i[2]>> : i \in PortUsageIssue(port_usage, kabel, Plans, Slot)}
Keys(usages) == UNION {[1 .. n -> usages] : n \in 1 .. MaxChanges}

Request ==
    \/ \E p \in Plan : CreatePlan(p)
    \/ \E p \in Plan, changes \in Changes : SetPortUsage(p, changes)
    \/ \E p \in Plan : ImplementPlan(p)
    \/ \E keys \in Keys(BrokenUsages) : RemoveBrokenPortUsages(keys)
    \/ \E c \in Cable, k \in KabelInput : CreateCable(c, k)
    \/ \E c \in Cable, k \in KabelInput : UpdateCable(c, k)
    \/ \E c \in Cable : DeleteCable(c)
    \/ \E p \in Plans : SetNetboxActivePlan(p)

Commit ==
    /\ Request
    /\ unsynced' = (unsynced \/ Shown(port_usage, kabel, netbox_active)'
                                  # Shown(port_usage, kabel, netbox_active))
    /\ UNCHANGED imported

Next == Commit \/ SyncRun

Spec == Init /\ [][Next]_vars

=============================================================================
