--------------------------- MODULE PlanUsageProofs ---------------------------
(***************************************************************************)
(* Proofs about plans and port usages, for any network, any imported data  *)
(* and any bounds.                                                         *)
(***************************************************************************)
EXTENDS PlanUsageProperties, TLAPS

-----------------------------------------------------------------------------
(* The values the tables hold. *)

(* A row is NoRow, Removed or a fiber, and only one of them. *)
LEMMA NullsDistinct == NoRow \notin Fiber /\ Removed \notin Fiber /\ NoRow # Removed
  BY NullAssumption

(* What a request of setPortUsage names. *)
LEMMA ChangesTyped ==
    ASSUME NEW changes \in Changes
    PROVE  DOMAIN changes \subseteq Slot /\ \A s \in DOMAIN changes : changes[s] \in Row
  BY DEF Changes

(* Removing usages leaves every other row alone, and no fiber where one goes. *)
LEMMA WithoutRows ==
    ASSUME TypeOK, NEW keys
    PROVE  /\ Without(port_usage, keys) \in [Plans -> [Slot -> Row]]
           /\ \A p \in Plans, s \in Slot :
                 \/ Without(port_usage, keys)[p][s] = port_usage[p][s]
                 \/ /\ <<p, s>> \in keys
                    /\ Without(port_usage, keys)[p][s] = IF p = Baseline THEN NoRow ELSE Removed
  BY DEF TypeOK, Without, Row

(* The baseline takes a plan's row where there is one. *)
LEMMA AppliedRows ==
    ASSUME TypeOK, NEW p \in Plan
    PROVE  /\ Applied(p) \in [Slot -> Row]
           /\ \A s \in Slot :
                 /\ Applied(p)[s] # Removed
                 /\ port_usage[p][s] = NoRow => Applied(p)[s] = port_usage[Baseline][s]
                 /\ port_usage[p][s] = Removed => Applied(p)[s] = NoRow
                 /\ port_usage[p][s] \in Fiber => Applied(p)[s] = port_usage[p][s]
<1>1. \A s \in Slot : port_usage[p][s] \in Row /\ port_usage[Baseline][s] \in Row
  BY DEF TypeOK, Plans
<1>2. \A s \in Slot : port_usage[Baseline][s] # Removed
  BY DEF TypeOK
<1> QED
  BY <1>1, <1>2, NullsDistinct DEF Applied, Row

(* What implementPlan leaves in port_usage. *)
LEMMA ImplementRows ==
    ASSUME TypeOK, NEW p \in Plan, ImplementPlan(p)
    PROVE  /\ port_usage' \in [Plans -> [Slot -> Row]]
           /\ port_usage'[Baseline] = Applied(p)
           /\ port_usage'[p] = [s \in Slot |-> NoRow]
           /\ \A q \in Plan \ {p} : port_usage'[q] = port_usage[q]
<1>1. p # Baseline /\ p \in Plans /\ Baseline \in Plans
  BY PlansAssumption DEF Plans
<1>2. [s \in Slot |-> NoRow] \in [Slot -> Row]
  BY DEF Row
<1> DEFINE applied == [port_usage EXCEPT ![Baseline] = Applied(p)]
<1>3. port_usage' = [applied EXCEPT ![p] = [s \in Slot |-> NoRow]]
  BY DEF ImplementPlan
<1>4. /\ applied \in [Plans -> [Slot -> Row]]
      /\ applied[Baseline] = Applied(p)
      /\ \A q \in Plans \ {Baseline} : applied[q] = port_usage[q]
  BY <1>1, AppliedRows DEF TypeOK
<1>5. \A q \in Plan : q \in Plans \ {Baseline}
  BY PlansAssumption DEF Plans
<1> HIDE DEF applied
<1> QED
  BY <1>1, <1>2, <1>3, <1>4, <1>5

(* What setPortUsage leaves in port_usage. *)
LEMMA SetRows ==
    ASSUME TypeOK, NEW p \in Plan, NEW changes \in Changes, SetPortUsage(p, changes)
    PROVE  /\ port_usage' \in [Plans -> [Slot -> Row]]
           /\ \A q \in Plans \ {p} : port_usage'[q] = port_usage[q]
           /\ \A s \in Slot :
                 port_usage'[p][s] = IF s \in DOMAIN changes THEN changes[s] ELSE port_usage[p][s]
<1>1. p \in Plans
  BY DEF Plans
<1>2. [s \in Slot |-> IF s \in DOMAIN changes THEN changes[s] ELSE port_usage[p][s]]
         \in [Slot -> Row]
  BY <1>1, ChangesTyped DEF TypeOK
<1> QED
  BY <1>1, <1>2 DEF SetPortUsage, TypeOK

-----------------------------------------------------------------------------
(* The imported data has the types of the tables. *)
LEMMA TypeInit == Init => TypeOK
<1> SUFFICES ASSUME Init PROVE TypeOK
  OBVIOUS
<1>1. imported \in [Plans -> [Slot -> Row]] /\ \A s \in Slot : imported[Baseline][s] # Removed
  BY ImportAssumption DEF Init
<1>2. kabel \in [Cable -> {NoCable} \union Kabel]
  BY ImportAssumption DEF Init
<1>3. plan \subseteq Plans /\ Baseline \in plan /\ netbox_active \subseteq plan
  BY DEF Init
<1> QED
  BY <1>1, <1>2, <1>3 DEF Init, TypeOK

(* Every request preserves the type invariant. *)
LEMMA TypeStep == TypeOK /\ [Next]_vars => TypeOK'
<1> SUFFICES ASSUME TypeOK, [Next]_vars PROVE TypeOK'
  OBVIOUS
<1> USE DEF TypeOK
<1>1. ASSUME Commit, NEW p \in Plan, CreatePlan(p) PROVE TypeOK'
  BY <1>1 DEF Commit, CreatePlan, Plans
<1>2. ASSUME Commit, NEW p \in Plan, NEW changes \in Changes, SetPortUsage(p, changes) PROVE TypeOK'
  <2>1. \A s \in Slot : port_usage'[Baseline][s] # Removed
    BY <1>2, SetRows, PlansAssumption DEF Plans
  <2> QED
    BY <1>2, <2>1, SetRows DEF Commit, SetPortUsage, Anstossen
<1>3. ASSUME Commit, NEW p \in Plan, ImplementPlan(p) PROVE TypeOK'
  <2>1. \A s \in Slot : port_usage'[Baseline][s] # Removed
    BY <1>3, ImplementRows, AppliedRows
  <2>2. plan' \subseteq Plans /\ Baseline \in plan' /\ netbox_active' \subseteq plan'
    BY <1>3, PlansAssumption DEF ImplementPlan, ActiveWithout
  <2> QED
    BY <1>3, <2>1, <2>2, ImplementRows DEF Commit, ImplementPlan, Anstossen
<1>4. ASSUME Commit, NEW keys, RemoveBrokenPortUsages(keys) PROVE TypeOK'
  <2>1. PICK done : port_usage' = Without(port_usage, {keys[j] : j \in done})
    BY <1>4 DEF RemoveBrokenPortUsages
  <2>2. \A s \in Slot : port_usage'[Baseline][s] # Removed
    BY <2>1, WithoutRows, NullsDistinct DEF Plans
  <2> QED
    BY <1>4, <2>1, <2>2, WithoutRows DEF Commit, RemoveBrokenPortUsages, Anstossen
<1>5. ASSUME Commit, NEW c \in Cable, NEW k \in KabelInput, CreateCable(c, k) \/ UpdateCable(c, k)
      PROVE TypeOK'
  BY <1>5, ImportAssumption DEF Commit, CreateCable, UpdateCable
<1>6. ASSUME Commit, NEW c \in Cable, DeleteCable(c) PROVE TypeOK'
  BY <1>6 DEF Commit, DeleteCable
<1>7. ASSUME Commit, NEW p \in Plans, SetNetboxActivePlan(p) PROVE TypeOK'
  BY <1>7 DEF Commit, SetNetboxActivePlan
<1>8. CASE SyncRun
  BY <1>8 DEF SyncRun
<1>9. CASE UNCHANGED vars
  BY <1>9 DEF vars
<1> QED
  BY <1>1, <1>2, <1>3, <1>4, <1>5, <1>6, <1>7, <1>8, <1>9 DEF Next, Commit, Request

(* The tables hold only values of their types. *)
THEOREM TypeCorrect == Spec => []TypeOK
  BY TypeInit, TypeStep, PTL DEF Spec

-----------------------------------------------------------------------------
(* Exactly one plan is active in Netbox. *)
THEOREM OneActivePlanCorrect == Spec => []OneActivePlan
<1>1. Init => OneActivePlan
  BY DEF Init, OneActivePlan
<1>2. TypeOK /\ OneActivePlan /\ [Next]_vars => OneActivePlan'
  <2> SUFFICES ASSUME Baseline \in plan, OneActivePlan, [Next]_vars PROVE OneActivePlan'
    BY DEF TypeOK
  <2> USE DEF OneActivePlan
  <2>1. ASSUME NEW p \in Plan, CreatePlan(p) PROVE OneActivePlan'
    BY <2>1 DEF CreatePlan
  <2>2. ASSUME NEW p \in Plan, ImplementPlan(p) PROVE OneActivePlan'
    BY <2>2, PlansAssumption DEF ImplementPlan, ActiveWithout
  <2>3. ASSUME NEW p \in Plans, SetNetboxActivePlan(p) PROVE OneActivePlan'
    BY <2>3 DEF SetNetboxActivePlan
  <2>4. CASE UNCHANGED <<plan, netbox_active>>
    BY <2>4
  <2> QED
    BY <2>1, <2>2, <2>3, <2>4
       DEF Next, Commit, Request, SetPortUsage, RemoveBrokenPortUsages, CreateCable, UpdateCable,
           DeleteCable, SyncRun, vars
<1> QED
  BY <1>1, <1>2, TypeCorrect, PTL DEF Spec

-----------------------------------------------------------------------------
(* A fiber held twice in the baseline is a problem of each of the two rows. *)
LEMMA HeldTwiceInBaseline ==
    ASSUME NEW pu, NEW s \in Slot, NEW t \in Slot,
           pu[Baseline][s] \in Fiber
    PROVE  /\ (s # t /\ pu[Baseline][t] = pu[Baseline][s] /\ SchachtOf[s[1]] = SchachtOf[t[1]])
                  => HeldTwice(pu, Baseline, s)
           /\ HeldTwice(pu, Baseline, s)
                  => \E u \in Slot \ {s} : /\ pu[Baseline][u] = pu[Baseline][s]
                                          /\ SchachtOf[u[1]] = SchachtOf[s[1]]
  BY NullsDistinct DEF HeldTwice, EffectivePortUsage

(* The check of implementPlan: a row of a port the plan names that holds a *)
(* fiber twice after it held one twice before.                             *)
LEMMA ImplementChecksTwice ==
    ASSUME TypeOK, NEW p \in Plan, ImplementPlan(p), NEW s \in Slot,
           port_usage[p][s] # NoRow, port_usage'[Baseline][s] \in Fiber,
           HeldTwice(port_usage', Baseline, s)
    PROVE  port_usage[Baseline][s] \in Fiber /\ HeldTwice(port_usage, Baseline, s)
<1> DEFINE applied == [port_usage EXCEPT ![Baseline] = Applied(p)]
           slots == Rows(port_usage, p)
           i == <<Baseline, s, "FiberTwice">>
<1>1. applied[Baseline] = Applied(p) /\ port_usage'[Baseline] = Applied(p)
  BY ImplementRows DEF TypeOK, Plans
<1>2. HeldTwice(applied, Baseline, s)
  <2>1. PICK t \in Slot \ {s} : /\ port_usage'[Baseline][t] = port_usage'[Baseline][s]
                                /\ SchachtOf[t[1]] = SchachtOf[s[1]]
    BY HeldTwiceInBaseline
  <2>2. applied[Baseline][s] \in Fiber /\ applied[Baseline][t] = applied[Baseline][s]
    BY <1>1, <2>1
  <2> HIDE DEF applied
  <2> QED
    BY <2>1, <2>2, HeldTwiceInBaseline
<1>3. i \in IssuesOfPorts(applied, kabel, Baseline, slots)
  BY <1>1, <1>2 DEF IssuesOfPorts, PortUsageIssue, Rows, Problem
<1>4. i \in IssuesOfPorts(port_usage, kabel, Baseline, slots)
  BY <1>3 DEF ImplementPlan
<1> QED
  BY <1>4 DEF IssuesOfPorts, PortUsageIssue

(* So implementPlan brings no fiber to two port sides of a manhole: one of *)
(* the two would be a port of the plan.                                    *)
LEMMA FibersOnceImplemented ==
    ASSUME TypeOK, FibersOnce(port_usage[Baseline]), NEW p \in Plan, ImplementPlan(p)
    PROVE  FibersOnce(port_usage'[Baseline])
<1> SUFFICES ASSUME NEW s \in Slot, NEW t \in Slot, s # t,
                    port_usage'[Baseline][s] \in Fiber,
                    port_usage'[Baseline][t] = port_usage'[Baseline][s],
                    SchachtOf[s[1]] = SchachtOf[t[1]]
             PROVE  FALSE
  BY DEF FibersOnce
<1>1. CASE port_usage[p][s] # NoRow
  <2>1. HeldTwice(port_usage', Baseline, s)
    BY HeldTwiceInBaseline
  <2>2. port_usage[Baseline][s] \in Fiber /\ HeldTwice(port_usage, Baseline, s)
    BY <1>1, <2>1, ImplementChecksTwice
  <2> QED
    BY <2>2, HeldTwiceInBaseline DEF FibersOnce
<1>2. CASE port_usage[p][t] # NoRow
  <2>1. HeldTwice(port_usage', Baseline, t)
    BY HeldTwiceInBaseline
  <2>2. port_usage[Baseline][t] \in Fiber /\ HeldTwice(port_usage, Baseline, t)
    BY <1>2, <2>1, ImplementChecksTwice
  <2> QED
    BY <2>2, HeldTwiceInBaseline DEF FibersOnce
<1>3. CASE port_usage[p][s] = NoRow /\ port_usage[p][t] = NoRow
  BY <1>3, ImplementRows, AppliedRows DEF FibersOnce
<1> QED
  BY <1>1, <1>2, <1>3

(* No fiber end comes to be at two port sides of the current state. *)
THEOREM BaselineFibersOnceCorrect == Spec => []BaselineFibersOnce
<1>1. Init => BaselineFibersOnce
  BY DEF Init, BaselineFibersOnce, Plans
<1>2. TypeOK /\ BaselineFibersOnce /\ [Next]_vars => BaselineFibersOnce'
  <2> SUFFICES ASSUME TypeOK, [Next]_vars, FibersOnce(port_usage[Baseline])
               PROVE  FibersOnce(port_usage'[Baseline])
    BY DEF BaselineFibersOnce, Next, Commit, SyncRun, vars, FibersOnce
  <2>1. ASSUME NEW p \in Plan, ImplementPlan(p) PROVE FibersOnce(port_usage'[Baseline])
    BY <2>1, FibersOnceImplemented
  <2>2. ASSUME NEW p \in Plan, NEW changes \in Changes, SetPortUsage(p, changes)
        PROVE  FibersOnce(port_usage'[Baseline])
    BY <2>2, SetRows, PlansAssumption DEF Plans
  <2>3. ASSUME NEW keys, RemoveBrokenPortUsages(keys) PROVE FibersOnce(port_usage'[Baseline])
    <3>1. PICK done : port_usage' = Without(port_usage, {keys[j] : j \in done})
      BY <2>3 DEF RemoveBrokenPortUsages
    <3>2. \A s \in Slot : port_usage'[Baseline][s] \in {port_usage[Baseline][s], NoRow}
      BY <3>1, WithoutRows DEF Plans
    <3> QED
      BY <3>2, NullsDistinct DEF FibersOnce
  <2>4. CASE UNCHANGED port_usage
    BY <2>4
  <2> QED
    BY <2>1, <2>2, <2>3, <2>4
       DEF Next, Commit, Request, CreatePlan, CreateCable, UpdateCable, DeleteCable,
           SetNetboxActivePlan, SyncRun, vars
<1> QED
  BY <1>1, <1>2, TypeCorrect, PTL DEF Spec

-----------------------------------------------------------------------------
(* The problems a usage has with its cable alone. *)
CableProblem == {"CableNotEnding", "FiberOutOfRange"}

Unfit(row, kb, s, k) ==
    /\ row \in Fiber
    /\ \/ k = "CableNotEnding" /\ ~ EndsAt(kb, row, s)
       \/ k = "FiberOutOfRange" /\ ~ InRange(kb, row)

(* Whether the view has such a problem depends on the row and its cable. *)
LEMMA UnfitIsIssue ==
    ASSUME NEW pu, NEW kb, NEW ps, NEW slots, NEW p \in ps, NEW s \in slots,
           NEW k \in CableProblem
    PROVE  <<p, s, k>> \in PortUsageIssue(pu, kb, ps, slots) <=> Unfit(pu[p][s], kb, s, k)
  BY DEF PortUsageIssue, Problem, CableProblem, Unfit

(* Usages that get no such problem leave the set of them no larger. *)
LEMMA NoIssueAdded ==
    ASSUME NEW pu1, NEW kb1, NEW pu2, NEW kb2,
           \A p \in Plans, s \in Slot, k \in CableProblem :
              Unfit(pu2[p][s], kb2, s, k) => Unfit(pu1[p][s], kb1, s, k)
    PROVE  CableIssues(pu2, kb2) \subseteq CableIssues(pu1, kb1)
<1> SUFFICES ASSUME NEW i \in CableIssues(pu2, kb2) PROVE i \in CableIssues(pu1, kb1)
  OBVIOUS
<1>1. PICK p \in Plans, s \in Slot, k \in CableProblem : i = <<p, s, k>>
  BY DEF CableIssues, PortUsageIssue, Problem, CableProblem
<1>2. i \in PortUsageIssue(pu2, kb2, Plans, Slot)
  BY DEF CableIssues
<1>3. i \in PortUsageIssue(pu1, kb1, Plans, Slot)
  BY <1>1, <1>2, UnfitIsIssue
<1> QED
  BY <1>1, <1>3 DEF CableIssues, CableProblem

(* The row and its cable as they were. *)
Kept(p, s) ==
    /\ port_usage'[p][s] = port_usage[p][s]
    /\ kabel'[port_usage[p][s].cable] = kabel[port_usage[p][s].cable]

CableThere(kb, row) == row \in Fiber => kb[row.cable] # NoCable

(* What a step may make of a row: its cable is there, and it has no        *)
(* problem with it that the row before it did not have.                    *)
Harmless(p, s) ==
    /\ CableThere(kabel', port_usage'[p][s])
    /\ \A k \in CableProblem :
          Unfit(port_usage'[p][s], kabel', s, k) => Unfit(port_usage[p][s], kabel, s, k)

(* A row that stays, and one that holds no fiber, does no harm. *)
LEMMA KeptHarmless ==
    ASSUME NoNewCableIssue, NEW p \in Plans, NEW s \in Slot, Kept(p, s)
    PROVE  Harmless(p, s)
<1>1. CableThere(kabel, port_usage[p][s])
  BY DEF NoNewCableIssue, CableThere
<1> QED
  BY <1>1 DEF Kept, Harmless, CableThere, Unfit, EndsAt, InRange

LEMMA EmptyHarmless ==
    ASSUME NEW p, NEW s, port_usage'[p][s] \in {NoRow, Removed}
    PROVE  Harmless(p, s)
  BY NullsDistinct DEF Harmless, CableThere, Unfit

(* What setPortUsage writes: its ports are checked. *)
LEMMA SetHarmless ==
    ASSUME TypeOK, NoNewCableIssue, NEW p \in Plan, NEW changes \in Changes,
           SetPortUsage(p, changes), NEW q \in Plans, NEW s \in Slot
    PROVE  Harmless(q, s)
<1> DEFINE slots == {t \in Slot : \E u \in DOMAIN changes : u[1] = t[1]}
           before == PortUsageIssue(port_usage, kabel, {p}, slots)
           after == PortUsageIssue(port_usage', kabel, {p}, slots)
<1>1. after \subseteq before
  BY DEF SetPortUsage, IssuesOfPorts
<1>2. kabel' = kabel
  BY DEF SetPortUsage
<1>3. CASE q = p /\ s \in DOMAIN changes
  <2>1. port_usage'[q][s] = changes[s] /\ s \in slots
    BY <1>3, SetRows
  <2>2. CableThere(kabel', port_usage'[q][s])
    BY <1>2, <1>3, <2>1 DEF SetPortUsage, CableThere
  <2>3. ASSUME NEW k \in CableProblem, Unfit(port_usage'[q][s], kabel', s, k)
        PROVE  Unfit(port_usage[q][s], kabel, s, k)
    <3> HIDE DEF slots
    <3>1. <<p, s, k>> \in after
      BY <1>2, <1>3, <2>1, <2>3, UnfitIsIssue
    <3>2. <<p, s, k>> \in before
      BY <1>1, <3>1
    <3> QED
      BY <1>3, <2>1, <3>2, UnfitIsIssue
  <2> QED
    BY <2>2, <2>3 DEF Harmless
<1>4. CASE ~ (q = p /\ s \in DOMAIN changes)
  BY <1>2, <1>4, SetRows, KeptHarmless DEF Kept
<1> QED
  BY <1>3, <1>4

(* What implementPlan writes: the baseline's rows at the plan's ports are  *)
(* checked, the others stay.                                               *)
LEMMA ImplementHarmless ==
    ASSUME TypeOK, NoNewCableIssue, NEW p \in Plan, ImplementPlan(p),
           NEW q \in Plans, NEW s \in Slot
    PROVE  Harmless(q, s)
<1>1. kabel' = kabel /\ p \in Plans /\ p # Baseline /\ Baseline \in Plans
  BY PlansAssumption DEF ImplementPlan, Plans
<1>2. port_usage[p][s] \in Row
  BY <1>1 DEF TypeOK
<1>3. CASE q = Baseline /\ port_usage[p][s] # NoRow
  <2> DEFINE applied == [port_usage EXCEPT ![Baseline] = Applied(p)]
             slots == {t \in Slot : \E u \in Rows(port_usage, p) : u[1] = t[1]}
             before == PortUsageIssue(port_usage, kabel, {Baseline}, slots)
             after == PortUsageIssue(applied, kabel, {Baseline}, slots)
  <2>1. s \in slots /\ after \subseteq before
    BY <1>3 DEF ImplementPlan, IssuesOfPorts, Rows
  <2>2. applied[Baseline] = Applied(p) /\ port_usage'[Baseline] = Applied(p)
    BY <1>1, ImplementRows DEF TypeOK
  <2>3. CableThere(kabel', port_usage'[q][s])
    <3>1. port_usage'[q][s] = NoRow \/ port_usage'[q][s] = port_usage[p][s]
      BY <1>2, <1>3, <2>2, AppliedRows DEF Row
    <3> QED
      BY <1>1, <3>1, NullsDistinct DEF NoNewCableIssue, CableThere
  <2>4. ASSUME NEW k \in CableProblem, Unfit(port_usage'[q][s], kabel', s, k)
        PROVE  Unfit(port_usage[q][s], kabel, s, k)
    <3>1. Unfit(applied[Baseline][s], kabel, s, k)
      BY <1>1, <1>3, <2>2, <2>4
    <3> HIDE DEF slots, applied
    <3>2. <<Baseline, s, k>> \in after
      BY <2>1, <3>1, UnfitIsIssue
    <3>3. <<Baseline, s, k>> \in before
      BY <2>1, <3>2
    <3> QED
      BY <1>3, <2>1, <3>3, UnfitIsIssue
  <2> QED
    BY <2>3, <2>4 DEF Harmless
<1>4. CASE q = Baseline /\ port_usage[p][s] = NoRow
  BY <1>1, <1>4, ImplementRows, AppliedRows, KeptHarmless DEF Kept
<1>5. CASE q = p
  BY <1>5, ImplementRows, EmptyHarmless
<1>6. CASE q \in Plan \ {p}
  BY <1>1, <1>6, ImplementRows, KeptHarmless DEF Kept
<1> QED
  BY <1>3, <1>4, <1>5, <1>6 DEF Plans

(* What removeBrokenPortUsages leaves. *)
LEMMA RemoveHarmless ==
    ASSUME TypeOK, NoNewCableIssue, NEW keys, RemoveBrokenPortUsages(keys),
           NEW q \in Plans, NEW s \in Slot
    PROVE  Harmless(q, s)
<1>1. PICK done : port_usage' = Without(port_usage, {keys[j] : j \in done})
  BY DEF RemoveBrokenPortUsages
<1>2. \/ port_usage'[q][s] = port_usage[q][s]
      \/ port_usage'[q][s] \in {NoRow, Removed}
  <2> DEFINE removed == {keys[j] : j \in done}
  <2>1. \/ Without(port_usage, removed)[q][s] = port_usage[q][s]
        \/ Without(port_usage, removed)[q][s] = IF q = Baseline THEN NoRow ELSE Removed
    <3> HIDE DEF removed
    <3> QED
      BY WithoutRows
  <2> QED
    BY <1>1, <2>1
<1>3. kabel' = kabel
  BY DEF RemoveBrokenPortUsages
<1> QED
  BY <1>2, <1>3, KeptHarmless, EmptyHarmless DEF Kept

(* A cable's new structure and path: its usages are checked in every plan. *)
LEMMA UpdateHarmless ==
    ASSUME TypeOK, NoNewCableIssue, NEW c \in Cable, NEW k \in KabelInput, UpdateCable(c, k),
           NEW q \in Plans, NEW s \in Slot
    PROVE  Harmless(q, s)
<1> DEFINE row == port_usage[q][s]
           before == PortUsageIssue(port_usage, kabel, Plans, Slot)
           after == PortUsageIssue(port_usage, kabel', Plans, Slot)
<1>1. port_usage' = port_usage /\ kabel' = [kabel EXCEPT ![c] = k] /\ k # NoCable
  BY NullAssumption, ImportAssumption DEF UpdateCable
<1>2. CASE row \in Fiber /\ row.cable = c
  <2>1. {i \in after : port_usage[i[1]][i[2]].cable = c} \subseteq before
    BY <1>1 DEF UpdateCable, IssuesOfCable
  <2>2. CableThere(kabel', port_usage'[q][s])
    BY <1>1, <1>2 DEF TypeOK, CableThere
  <2>3. ASSUME NEW kind \in CableProblem, Unfit(port_usage'[q][s], kabel', s, kind)
        PROVE  Unfit(port_usage[q][s], kabel, s, kind)
    <3>1. <<q, s, kind>> \in after
      BY <1>1, <2>3, UnfitIsIssue
    <3> HIDE DEF before, after
    <3>2. <<q, s, kind>> \in before
      BY <1>2, <2>1, <3>1
    <3> QED
      BY <3>2, UnfitIsIssue DEF before
  <2> QED
    BY <2>2, <2>3 DEF Harmless
<1>3. CASE row \in Fiber /\ row.cable # c
  <2>1. row.cable \in Cable
    BY <1>3 DEF Fiber
  <2> QED
    BY <1>1, <1>3, <2>1, KeptHarmless DEF Kept, TypeOK
<1>4. CASE row \notin Fiber
  BY <1>1, <1>4 DEF Harmless, CableThere, Unfit
<1> QED
  BY <1>2, <1>3, <1>4

(* A cable that comes or goes: no usage names it. *)
LEMMA OtherCableHarmless ==
    ASSUME TypeOK, NoNewCableIssue, NEW c \in Cable, NEW k,
           CreateCable(c, k) \/ DeleteCable(c),
           NEW q \in Plans, NEW s \in Slot
    PROVE  Harmless(q, s)
<1> DEFINE row == port_usage[q][s]
<1>1. port_usage' = port_usage
  BY DEF CreateCable, DeleteCable
<1>2. CASE row \in Fiber
  <2>1. row.cable \in Cable /\ row.cable # c
    BY <1>2 DEF Fiber, CreateCable, DeleteCable, NoNewCableIssue
  <2>2. kabel'[row.cable] = kabel[row.cable]
    BY <2>1 DEF CreateCable, DeleteCable, TypeOK
  <2> QED
    BY <1>1, <2>2, KeptHarmless DEF Kept
<1>3. CASE row \notin Fiber
  BY <1>1, <1>3 DEF Harmless, CableThere, Unfit
<1> QED
  BY <1>2, <1>3

(* No step gives a usage a problem with its cable. *)
LEMMA CableIssueStep ==
    ASSUME TypeOK, NoNewCableIssue, Next PROVE NoNewCableIssue'
<1>1. ASSUME NEW q \in Plans, NEW s \in Slot PROVE Harmless(q, s)
  <2>1. CASE \E p \in Plan, changes \in Changes : SetPortUsage(p, changes)
    BY <2>1, SetHarmless
  <2>2. CASE \E p \in Plan : ImplementPlan(p)
    BY <2>2, ImplementHarmless
  <2>3. CASE \E keys \in Keys(BrokenUsages) : RemoveBrokenPortUsages(keys)
    BY <2>3, RemoveHarmless
  <2>4. CASE \E c \in Cable, k \in KabelInput : UpdateCable(c, k)
    BY <2>4, UpdateHarmless
  <2>5. CASE \E c \in Cable, k \in KabelInput : CreateCable(c, k)
    BY <2>5, OtherCableHarmless
  <2>6. CASE \E c \in Cable : DeleteCable(c)
    BY <2>6, OtherCableHarmless
  <2>7. CASE UNCHANGED <<port_usage, kabel>>
    BY <2>7, KeptHarmless DEF Kept
  <2> QED
    BY <2>1, <2>2, <2>3, <2>4, <2>5, <2>6, <2>7
       DEF Next, Commit, Request, CreatePlan, SetNetboxActivePlan, SyncRun
<1>2. CableIssues(port_usage', kabel') \subseteq CableIssues(port_usage, kabel)
  <2>1. \A p \in Plans, s \in Slot, k \in CableProblem :
           Unfit(port_usage'[p][s], kabel', s, k) => Unfit(port_usage[p][s], kabel, s, k)
    BY <1>1 DEF Harmless
  <2> QED
    BY <2>1, NoIssueAdded
<1>3. \A p \in Plans, s \in Slot :
         port_usage'[p][s] \in Fiber => kabel'[port_usage'[p][s].cable] # NoCable
  BY <1>1 DEF Harmless, CableThere
<1>4. imported' = imported
  BY DEF Next, Commit, SyncRun
<1>5. (CableIssues(imported, ImportedKabel))' = CableIssues(imported, ImportedKabel)
  BY <1>4 DEF CableIssues, PortUsageIssue, HeldTwice, EffectivePortUsage
<1> QED
  BY <1>2, <1>3, <1>5 DEF NoNewCableIssue, CableIssues

(* No usage gets a problem with its cable that its port side of the plan   *)
(* did not have when the checks were introduced.                           *)
THEOREM NoNewCableIssueCorrect == Spec => []NoNewCableIssue
<1>1. Init => NoNewCableIssue
  BY ImportAssumption DEF Init, NoNewCableIssue
<1>2. TypeOK /\ NoNewCableIssue /\ [Next]_vars => NoNewCableIssue'
  <2>1. CASE UNCHANGED vars
    BY <2>1 DEF vars, NoNewCableIssue, CableIssues, PortUsageIssue, HeldTwice, EffectivePortUsage
  <2> QED
    BY <2>1, CableIssueStep
<1> QED
  BY <1>1, <1>2, TypeCorrect, PTL DEF Spec

-----------------------------------------------------------------------------
(* Netbox shows the same if the active plan's usages are the same. *)
LEMMA ShownSame ==
    ASSUME NEW pu1, NEW pu2, NEW kb, NEW active,
           \A p \in active, s \in Slot :
              EffectivePortUsage(pu1, p, s) = EffectivePortUsage(pu2, p, s)
    PROVE  Shown(pu1, kb, active) = Shown(pu2, kb, active)
<1> DEFINE S1 == {<<s, EffectivePortUsage(pu1, p, s)>> : p \in active, s \in Slot}
           S2 == {<<s, EffectivePortUsage(pu2, p, s)>> : p \in active, s \in Slot}
<1> HIDE DEF EffectivePortUsage
<1>1. S1 = S2
  OBVIOUS
<1> QED
  BY <1>1 DEF Shown

(* A request that records nothing, with nothing recorded before, leaves    *)
(* what Netbox is to show.                                                 *)
LEMMA UnrecordedShownSame ==
    ASSUME TypeOK, OneActivePlan, Request, ~ netbox_sync_anstoss'
    PROVE  ~ netbox_sync_anstoss /\ Shown(port_usage, kabel, netbox_active)'
                                       = Shown(port_usage, kabel, netbox_active)
<1>1. PICK a \in plan : netbox_active = {a}
  BY DEF OneActivePlan
<1>2. a \in Plans /\ Baseline \in Plans
  BY DEF TypeOK, Plans
<1>3. ASSUME UNCHANGED <<kabel, netbox_active>>,
             \A s \in Slot : port_usage'[a][s] = port_usage[a][s]
                           /\ port_usage'[Baseline][s] = port_usage[Baseline][s]
      PROVE  Shown(port_usage, kabel, netbox_active)' = Shown(port_usage, kabel, netbox_active)
  <2>1. \A s \in Slot : EffectivePortUsage(port_usage', a, s) = EffectivePortUsage(port_usage, a, s)
    BY <1>3 DEF EffectivePortUsage
  <2>2. Shown(port_usage', kabel, netbox_active) = Shown(port_usage, kabel, netbox_active)
    BY <1>1, <2>1, ShownSame
  <2> QED
    BY <1>3, <2>2 DEF Shown
<1>5. ASSUME NEW p \in Plan, CreatePlan(p)
      PROVE  ~ netbox_sync_anstoss /\ UNCHANGED <<kabel, netbox_active, port_usage>>
  BY <1>5 DEF CreatePlan
<1>6. ASSUME NEW p \in Plans, SetNetboxActivePlan(p)
      PROVE  ~ netbox_sync_anstoss /\ UNCHANGED <<kabel, netbox_active, port_usage>>
  BY <1>6 DEF SetNetboxActivePlan, TypeOK
<1>7. ASSUME NEW c \in Cable, NEW k, CreateCable(c, k) \/ UpdateCable(c, k) \/ DeleteCable(c)
      PROVE  FALSE
  BY <1>7 DEF CreateCable, UpdateCable, DeleteCable
<1>8. ASSUME NEW p \in Plan, NEW changes \in Changes, SetPortUsage(p, changes)
      PROVE  /\ ~ netbox_sync_anstoss /\ UNCHANGED <<kabel, netbox_active>>
             /\ \A s \in Slot : port_usage'[a][s] = port_usage[a][s]
                             /\ port_usage'[Baseline][s] = port_usage[Baseline][s]
  <2> DEFINE written == {s \in DOMAIN changes : changes[s] # NoRow \/ port_usage[p][s] # NoRow}
  <2>1. ~ netbox_sync_anstoss /\ \A k \in {p} \X written : k[1] \notin {Baseline, a}
    BY <1>1, <1>8 DEF SetPortUsage, Anstossen
  <2>2. p # Baseline
    BY PlansAssumption
  <2>3. a # p \/ written = {}
    <3>1. \A s \in written : <<p, s>> \in {p} \X written /\ <<p, s>>[1] = p
      OBVIOUS
    <3> QED
      BY <2>1, <3>1
  <2>4. \A s \in DOMAIN changes : s \notin written => changes[s] = port_usage[p][s]
    OBVIOUS
  <2> HIDE DEF written
  <2> QED
    BY <1>2, <1>8, <2>1, <2>2, <2>3, <2>4, SetRows DEF SetPortUsage
<1>9. ASSUME NEW p \in Plan, ImplementPlan(p)
      PROVE  /\ ~ netbox_sync_anstoss /\ UNCHANGED <<kabel, netbox_active>>
             /\ \A s \in Slot : port_usage'[a][s] = port_usage[a][s]
                             /\ port_usage'[Baseline][s] = port_usage[Baseline][s]
  <2> DEFINE written == {s \in Rows(port_usage, p) :
                            port_usage[p][s] \in Fiber \/ port_usage[Baseline][s] # NoRow}
  <2>1. p # a /\ UNCHANGED <<kabel, netbox_active>>
    BY <1>1, <1>9 DEF ImplementPlan, ActiveWithout
  <2>2. ~ netbox_sync_anstoss /\ \A k \in {Baseline} \X written : k[1] \notin {Baseline, a}
    BY <1>1, <1>9, <2>1 DEF ImplementPlan, Anstossen
  <2>3. written = {}
    <3>1. \A s \in written : /\ <<Baseline, s>> \in {Baseline} \X written
                            /\ <<Baseline, s>>[1] = Baseline
      OBVIOUS
    <3> QED
      BY <2>2, <3>1
  <2>4. \A s \in Slot : port_usage[p][s] \in Row /\ port_usage[Baseline][s] \in Row
    BY DEF TypeOK, Plans
  <2>5. \A s \in Slot : Applied(p)[s] = port_usage[Baseline][s]
    BY <2>3, <2>4, AppliedRows DEF Rows, Row
  <2> QED
    BY <1>2, <1>9, <2>1, <2>2, <2>5, ImplementRows DEF Plans
<1>10. ASSUME NEW keys, RemoveBrokenPortUsages(keys)
       PROVE  /\ ~ netbox_sync_anstoss /\ UNCHANGED <<kabel, netbox_active>>
              /\ \A s \in Slot : port_usage'[a][s] = port_usage[a][s]
                              /\ port_usage'[Baseline][s] = port_usage[Baseline][s]
  <2>1. PICK done : /\ port_usage' = Without(port_usage, {keys[j] : j \in done})
                    /\ Anstossen({keys[j] : j \in done})
    BY <1>10 DEF RemoveBrokenPortUsages
  <2>2. ~ netbox_sync_anstoss /\ \A k \in {keys[j] : j \in done} : k[1] \notin {Baseline, a}
    BY <1>1, <2>1 DEF Anstossen
  <2>3. \A s \in Slot : <<a, s>> \notin {keys[j] : j \in done}
                      /\ <<Baseline, s>> \notin {keys[j] : j \in done}
    BY <2>2
  <2> QED
    BY <1>2, <1>10, <2>1, <2>2, <2>3, WithoutRows DEF RemoveBrokenPortUsages
<1>11. /\ ~ netbox_sync_anstoss /\ UNCHANGED <<kabel, netbox_active>>
       /\ \A s \in Slot : port_usage'[a][s] = port_usage[a][s]
                       /\ port_usage'[Baseline][s] = port_usage[Baseline][s]
  <2>1. CASE \E p \in Plan : CreatePlan(p) \/ ImplementPlan(p)
    BY <1>5, <1>9, <2>1
  <2>2. CASE \E p \in Plan, changes \in Changes : SetPortUsage(p, changes)
    BY <1>8, <2>2
  <2>3. CASE \E keys \in Keys(BrokenUsages) : RemoveBrokenPortUsages(keys)
    BY <1>10, <2>3
  <2>4. CASE \E p \in Plans : SetNetboxActivePlan(p)
    BY <1>6, <2>4
  <2> QED
    BY <1>7, <2>1, <2>2, <2>3, <2>4 DEF Request
<1> QED
  BY <1>3, <1>11

(* A change of what Netbox is to show is recorded until a run syncs it. *)
THEOREM ChangeRecordedCorrect == Spec => []ChangeRecorded
<1>1. Init => ChangeRecorded
  BY DEF Init, ChangeRecorded
<1>2. TypeOK /\ OneActivePlan /\ ChangeRecorded /\ [Next]_vars => ChangeRecorded'
  <2> SUFFICES ASSUME TypeOK, OneActivePlan, ChangeRecorded, [Next]_vars,
                      ~ netbox_sync_anstoss'
               PROVE  ~ unsynced'
    BY DEF ChangeRecorded
  <2>1. CASE Commit
    BY <2>1, UnrecordedShownSame DEF Commit, ChangeRecorded
  <2>2. CASE SyncRun
    BY <2>2 DEF SyncRun
  <2>3. CASE UNCHANGED vars
    BY <2>3 DEF vars, ChangeRecorded
  <2> QED
    BY <2>1, <2>2, <2>3 DEF Next
<1> QED
  BY <1>1, <1>2, TypeCorrect, OneActivePlanCorrect, PTL DEF Spec

-----------------------------------------------------------------------------
(* Implementing a plan makes the current state exactly what the plan showed. *)
THEOREM ImplementMakesPlanCurrentCorrect == Spec => ImplementMakesPlanCurrent
<1>1. ASSUME TypeOK, NEW p \in Plan, ImplementPlan(p)
      PROVE  /\ \A s \in Slot :
                    EffectivePortUsage(port_usage', Baseline, s)
                        = EffectivePortUsage(port_usage, p, s)
             /\ netbox_active = {p} =>
                    Shown(port_usage, kabel, netbox_active)'
                        = Shown(port_usage, kabel, netbox_active)
  <2>1. \A s \in Slot : port_usage[p][s] \in Row
    BY <1>1 DEF TypeOK, Plans
  <2>2. \A s \in Slot :
           EffectivePortUsage(port_usage', Baseline, s) = EffectivePortUsage(port_usage, p, s)
    BY <1>1, <2>1, ImplementRows, AppliedRows, NullsDistinct DEF EffectivePortUsage, Row
  <2>3. ASSUME netbox_active = {p}
        PROVE  Shown(port_usage, kabel, netbox_active)' = Shown(port_usage, kabel, netbox_active)
    <3>1. netbox_active' = {Baseline} /\ kabel' = kabel
      BY <1>1, <2>3 DEF ImplementPlan, ActiveWithout
    <3> DEFINE before == {<<s, EffectivePortUsage(port_usage, q, s)>> : q \in {p}, s \in Slot}
               after == {<<s, EffectivePortUsage(port_usage', q, s)>> :
                            q \in {Baseline}, s \in Slot}
    <3>2. before = {<<s, EffectivePortUsage(port_usage, p, s)>> : s \in Slot}
      OBVIOUS
    <3>3. after = {<<s, EffectivePortUsage(port_usage', Baseline, s)>> : s \in Slot}
      OBVIOUS
    <3>4. after = before
      BY <2>2, <3>2, <3>3
    <3> QED
      BY <2>3, <3>1, <3>4 DEF Shown
  <2> QED
    BY <2>2, <2>3
<1>2. ASSUME TypeOK, [Next]_vars, NEW p \in plan \ plan'
      PROVE  p \in Plan /\ ImplementPlan(p)
  <2>1. PICK q \in Plan : ImplementPlan(q)
    BY <1>2 DEF Next, Commit, Request, CreatePlan, SetPortUsage, RemoveBrokenPortUsages,
       CreateCable, UpdateCable, DeleteCable, SetNetboxActivePlan, SyncRun, vars
  <2>2. q = p
    BY <1>2, <2>1 DEF ImplementPlan
  <2> QED
    BY <2>1, <2>2
<1>3. TypeOK /\ [Next]_vars =>
        \A p \in plan \ plan' :
          /\ \A s \in Slot :
                EffectivePortUsage(port_usage', Baseline, s) = EffectivePortUsage(port_usage, p, s)
          /\ netbox_active = {p} =>
                Shown(port_usage, kabel, netbox_active)' = Shown(port_usage, kabel, netbox_active)
  BY <1>1, <1>2
<1> QED
  BY <1>3, TypeCorrect, PTL DEF Spec, ImplementMakesPlanCurrent
=============================================================================
