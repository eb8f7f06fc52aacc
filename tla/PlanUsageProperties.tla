------------------------ MODULE PlanUsageProperties ------------------------
(***************************************************************************)
(* What must hold of plans and port usages.                                *)
(***************************************************************************)
EXTENDS PlanUsage

(* The usages that do not fit their cables: the cable does not end there,  *)
(* or has no such fiber.                                                   *)
CableIssues(pu, kb) == {i \in PortUsageIssue(pu, kb, Plans, Slot) : i[3] # "FiberTwice"}

(* Every usage names a cable there is, and none gets a problem with its    *)
(* cable: each was there when the checks were introduced, of the same kind *)
(* and at the same port side of the same plan.  setPortUsage checks the    *)
(* ports it changes, updateCable the usages of the cable in every plan and *)
(* implementPlan the baseline's rows it writes.  The fiber may be another  *)
(* one than then: IssueKey has none, so a usage with a problem may give    *)
(* way to another one with the same problem.                               *)
NoNewCableIssue ==
    /\ \A p \in Plans, s \in Slot :
          port_usage[p][s] \in Fiber => kabel[port_usage[p][s].cable] # NoCable
    /\ CableIssues(port_usage, kabel) \subseteq CableIssues(imported, ImportedKabel)

FibersOnce(usage) ==
    \A s, t \in Slot :
        s # t /\ usage[s] \in Fiber /\ usage[t] = usage[s] => SchachtOf[s[1]] # SchachtOf[t[1]]

(* No fiber end is at two port sides of the current state, unless it was   *)
(* imported that way: implementPlan checks the ports of the plan, and a    *)
(* new pair of usages has at least one of them.                            *)
BaselineFibersOnce == FibersOnce(imported[Baseline]) => FibersOnce(port_usage[Baseline])

(* Exactly one plan is active in Netbox, one that exists: activating       *)
(* replaces the flag, implementing hands it to the baseline.               *)
OneActivePlan == \E p \in plan : netbox_active = {p}

(* If what Netbox is to show changed since the last run, a change is       *)
(* recorded: the triggers on port_usage look at the baseline and the       *)
(* active plan only, those on the cables and on plan do the rest.          *)
ChangeRecorded == unsynced => netbox_sync_anstoss

(* Implementing a plan makes the current state exactly what the plan       *)
(* showed; if it was the active one, Netbox is to show the same as before. *)
ImplementMakesPlanCurrent ==
    [][\A p \in plan \ plan' :
          /\ \A s \in Slot :
                EffectivePortUsage(port_usage', Baseline, s) = EffectivePortUsage(port_usage, p, s)
          /\ netbox_active = {p} =>
                Shown(port_usage, kabel, netbox_active)' = Shown(port_usage, kabel, netbox_active)
      ]_vars

(* Where fiber f ends in manhole z, plan p has a port side holding it. *)
Attached(pu, p, f, z) ==
    \E s \in Slot : SchachtOf[s[1]] = z /\ EffectivePortUsage(pu, p, s) = f

Fitting(p, f, z) ==
    /\ Attached(port_usage, p, f, z)
    /\ z \in KabelEnde(kabel[f.cable].path)
    /\ InRange(kabel, f)

(* removeBrokenPortUsages leaves a fiber that is at two port sides at one  *)
(* of them: whatever usages of one plan are removed, in whatever order, a  *)
(* fiber end that is attached and fits stays attached in that plan.        *)
RepairKeepsOneEnd ==
    [][\A p \in Plans : port_usage'[p] # port_usage[p] =>
          LET removed == {s \in Slot : port_usage'[p][s] # port_usage[p][s]}
              orders == {keys \in [1 .. Cardinality(removed) -> {p} \X removed] :
                             \A s \in removed : \E i \in DOMAIN keys : keys[i] = <<p, s>>}
          IN  (\A s \in removed : Broken(port_usage, kabel, p, s)) =>
                \A keys \in orders : RemoveBrokenPortUsages(keys) =>
                    \A f \in Fiber, z \in Schacht :
                        kabel[f.cable] # NoCable /\ Fitting(p, f, z)
                            => Attached(port_usage', p, f, z)
      ]_vars

(* "Mutations refuse to add rows here" (port_usage_issue): a request that  *)
(* changes the rows of a plan gives them no new problem.  Refuted: Reset   *)
(* deletes the plan's row of one port, so the baseline's fiber is there    *)
(* again, while the plan has moved that fiber to another port, which is    *)
(* outside the ports checked.                                              *)
EditAddsNoIssue ==
    [][\A p \in plan \intersect plan' :
          port_usage'[p] # port_usage[p] =>
              PortUsageIssue(port_usage, kabel, {p}, Slot)'
                  \subseteq PortUsageIssue(port_usage, kabel, {p}, Slot)
      ]_vars
=============================================================================
