-------------------------- MODULE CircuitPlanProofs --------------------------
(***************************************************************************)
(* Theorems about the circuits planned, for any ports, fibers and rear     *)
(* ports, and whatever the plan holds.                                     *)
(***************************************************************************)
EXTENDS CircuitPlanProperties, FiniteSetTheorems, WellFoundedInduction, TLAPS

-----------------------------------------------------------------------------
(* A set of numbers has a smallest one. *)
LEMMA Smallest ==
    ASSUME NEW S \in SUBSET Nat, S # {}
    PROVE  \E m \in S : \A n \in S : m <= n
<1> DEFINE Less == {ss \in Nat \X Nat : ss[1] < ss[2]}
<1>1. IsWellFoundedOn(Less, Nat)
    BY NatLessThanWellFounded DEF OpToRel
<1> HIDE DEF Less
<1>2. PICK m \in S : \A n \in S : ~ (<<n, m>> \in Less)
    BY <1>1, WFMin
<1>3. \A n \in S : ~ (n < m)
    BY <1>2 DEF Less
<1> QED BY <1>3

(* Of pairs of numbers one comes first (PlannedCircuit::order). *)
LEMMA FirstPair ==
    ASSUME NEW S \in SUBSET (Nat \X Nat), S # {}
    PROVE  \E m \in S : \A o \in S : m[1] < o[1] \/ (m[1] = o[1] /\ m[2] <= o[2])
<1> DEFINE Ones == {m[1] : m \in S}
<1>1. PICK a \in Ones : \A n \in Ones : a <= n
  <2>1. Ones \in SUBSET Nat /\ Ones # {}
      OBVIOUS
  <2> QED BY <2>1, Smallest
<1> DEFINE Twos == {m[2] : m \in {o \in S : o[1] = a}}
<1>2. PICK b \in Twos : \A n \in Twos : b <= n
  <2>1. Twos \in SUBSET Nat /\ Twos # {}
      BY <1>1
  <2> QED BY <2>1, Smallest
<1>3. PICK m \in S : m[1] = a /\ m[2] = b
    BY <1>2
<1>4. \A o \in S : o[1] # a => a < o[1]
    BY <1>1
<1>5. \A o \in S : o[1] = a => b <= o[2]
    BY <1>2
<1> QED BY <1>3, <1>4, <1>5

(* A circuit's id is made from one of its members. *)
LEMMA CidIsMember ==
    ASSUME NEW members \in SUBSET Member, members # {}
    PROVE  Cid(members) \in members
<1>1. members \in SUBSET (Nat \X Nat)
    BY PortAssumption DEF Member
<1>2. \E m \in members : \A o \in members : m[1] < o[1] \/ (m[1] = o[1] /\ m[2] <= o[2])
    BY <1>1, FirstPair
<1> QED BY <1>2 DEF Cid

-----------------------------------------------------------------------------
(* A connection is noted for the rear ports its ports are assigned to, and *)
(* no circuit is made while connectors are taken.                          *)
PairsAssigned ==
    \A pair \in port_pairs : pair[1] = netbox_port[pair[3]] /\ pair[2] = netbox_port[pair[4]]
NoneYet == pc = "tracing" => circuits = {}

PlanInv == TypeOK /\ PairsAssigned /\ NoneYet /\ CircuitsDisjoint

(* What the circuits are made of, and that they share nothing. *)
Built ==
    {[ports |-> {pair[1], pair[2]}, members |-> Connections(pair[1], pair[2]),
      cid |-> Cid(Connections(pair[1], pair[2]))] : pair \in MutualPairs}

LEMMA ConnectionsAreMembers ==
    ASSUME TypeOK, NEW pair \in MutualPairs
    PROVE  /\ pair \in RearPort \X RearPort
           /\ Connections(pair[1], pair[2]) \in SUBSET Member
           /\ Connections(pair[1], pair[2]) # {}
           /\ Cid(Connections(pair[1], pair[2])) \in Connections(pair[1], pair[2])
<1>1. pair \in RearPort \X RearPort /\ pair[2] \in Partners(pair[1])
    BY DEF MutualPairs
<1>2. Connections(pair[1], pair[2]) \in SUBSET Member
    BY DEF Connections, Member, TypeOK
<1>3. PICK p \in port_pairs : p[1] = pair[1] /\ p[2] = pair[2]
    BY <1>1 DEF Partners
<1>4. <<p[3], p[4]>> \in Connections(pair[1], pair[2])
    BY <1>3 DEF Connections
<1> QED BY <1>1, <1>2, <1>4, CidIsMember

LEMMA BuiltDisjoint ==
    ASSUME TypeOK, PairsAssigned
    PROVE  /\ Built \subseteq Circuit
           /\ \A c, d \in Built : c # d => c.cid # d.cid /\ c.ports \cap d.ports = {}
<1>1. Built \subseteq Circuit
  <2> SUFFICES ASSUME NEW pair \in MutualPairs
               PROVE  [ports |-> {pair[1], pair[2]}, members |-> Connections(pair[1], pair[2]),
                       cid |-> Cid(Connections(pair[1], pair[2]))] \in Circuit
      BY DEF Built
  <2> QED BY ConnectionsAreMembers DEF Circuit
<1>2. ASSUME NEW a \in MutualPairs, NEW b \in MutualPairs, a # b
      PROVE  {a[1], a[2]} \cap {b[1], b[2]} = {}
    BY <1>2, PortAssumption DEF MutualPairs
<1>3. ASSUME NEW a \in MutualPairs, NEW b \in MutualPairs,
             Cid(Connections(a[1], a[2])) = Cid(Connections(b[1], b[2]))
      PROVE  a = b
  <2> DEFINE m == Cid(Connections(a[1], a[2]))
  <2>1. m \in Connections(a[1], a[2]) /\ m \in Connections(b[1], b[2])
      BY <1>3, ConnectionsAreMembers
  <2> HIDE DEF m
  <2>2. PICK p \in port_pairs : p[1] = a[1] /\ p[2] = a[2] /\ m = <<p[3], p[4]>>
      BY <2>1 DEF Connections
  <2>3. PICK q \in port_pairs : q[1] = b[1] /\ q[2] = b[2] /\ m = <<q[3], q[4]>>
      BY <2>1 DEF Connections
  <2>4. p[3] = q[3] /\ p[4] = q[4]
      BY <2>2, <2>3
  <2>5. p[1] = q[1] /\ p[2] = q[2]
      BY <2>4 DEF PairsAssigned
  <2>6. a \in RearPort \X RearPort /\ b \in RearPort \X RearPort
      BY DEF MutualPairs
  <2>7. a[1] = b[1] /\ a[2] = b[2]
      BY <2>2, <2>3, <2>5
  <2> QED BY ONLY <2>6, <2>7
<1>4. ASSUME NEW c \in Built, NEW d \in Built, c # d
      PROVE  c.cid # d.cid /\ c.ports \cap d.ports = {}
  <2>1. PICK a \in MutualPairs :
            c = [ports |-> {a[1], a[2]}, members |-> Connections(a[1], a[2]),
                 cid |-> Cid(Connections(a[1], a[2]))]
      BY DEF Built
  <2>2. PICK b \in MutualPairs :
            d = [ports |-> {b[1], b[2]}, members |-> Connections(b[1], b[2]),
                 cid |-> Cid(Connections(b[1], b[2]))]
      BY DEF Built
  <2>3. a # b
      BY <1>4, <2>1, <2>2
  <2> QED BY <1>2, <1>3, <2>1, <2>2, <2>3
<1> QED BY <1>1, <1>4

-----------------------------------------------------------------------------
LEMMA PlanInvStep ==
    ASSUME PlanInv, [Next]_vars
    PROVE  PlanInv'
<1> USE DEF PlanInv
<1>1. ASSUME NEW p \in Port, SkipPort(p) PROVE PlanInv'
    BY <1>1 DEF SkipPort, Take, TypeOK, PairsAssigned, NoneYet, CircuitsDisjoint
<1>2. ASSUME NEW p \in Port, ReportLoop(p) PROVE PlanInv'
    BY <1>2 DEF ReportLoop, Take, At, TypeOK, Issue, IssueKind, PairsAssigned, NoneYet, CircuitsDisjoint
<1>3. ASSUME NEW p \in Port, ReportTarget(p) PROVE PlanInv'
    BY <1>3 DEF ReportTarget, Take, At, TypeOK, Issue, IssueKind, PairsAssigned, NoneYet, CircuitsDisjoint
<1>4. ASSUME NEW p \in Port, PairPorts(p) PROVE PlanInv'
  <2>1. PICK q \in remaining \ {p} :
            /\ remaining' = remaining \ {p, q}
            /\ issues' = issues \union
                   {At("MissingNetboxReference", o) : o \in {o \in {p, q} : netbox_port[o] = NoRearPort}}
            /\ port_pairs' = IF NoRearPort \in {netbox_port[p], netbox_port[q]} THEN port_pairs
                             ELSE port_pairs \union {<<netbox_port[p], netbox_port[q], p, q>>,
                                                     <<netbox_port[q], netbox_port[p], q, p>>}
      BY <1>4 DEF PairPorts
  <2>2. q \in Port /\ UNCHANGED <<use, netbox_port, circuits, pc>>
      BY <1>4 DEF PairPorts, TypeOK
  <2>3. issues' \subseteq Issue
      BY <2>1, <2>2 DEF TypeOK, At, Issue, IssueKind
  <2>4. port_pairs' \subseteq RearPort \X RearPort \X Port \X Port
      BY <2>1, <2>2 DEF TypeOK
  <2>5. PairsAssigned'
      BY <2>1, <2>2 DEF PairsAssigned
  <2> QED BY <2>1, <2>2, <2>3, <2>4, <2>5 DEF TypeOK, NoneYet, CircuitsDisjoint
<1>5. ASSUME BuildCircuits PROVE PlanInv'
  <2>1. circuits' = Built /\ pc' = "planned" /\ UNCHANGED <<use, netbox_port, remaining, port_pairs>>
      BY <1>5 DEF BuildCircuits, Built
  <2>2. issues' \subseteq Issue
    <3>1. PICK reported \in [Returning -> Port] :
              issues' = issues \union {At("AsymmetricDuplex", r) : r \in Asymmetric}
                               \union {At("RoutingLoop", reported[r]) : r \in Returning}
        BY <1>5 DEF BuildCircuits
    <3> QED BY <3>1 DEF TypeOK, At, Issue, IssueKind, Asymmetric
  <2>3. circuits' \subseteq Circuit /\ CircuitsDisjoint'
      BY <2>1, BuiltDisjoint DEF CircuitsDisjoint
  <2> QED BY <2>1, <2>2, <2>3 DEF TypeOK, PairsAssigned, NoneYet
<1>6. CASE UNCHANGED vars
    BY <1>6 DEF vars, TypeOK, PairsAssigned, NoneYet, CircuitsDisjoint
<1> QED BY <1>1, <1>2, <1>3, <1>4, <1>5, <1>6 DEF Next, TakePort

LEMMA PlanInvInit ==
    ASSUME Init
    PROVE  PlanInv
BY PortAssumption DEF Init, PlanInv, TypeOK, PairsAssigned, NoneYet, CircuitsDisjoint

THEOREM PlanInvHolds == Spec => []PlanInv
<1>1. Init => PlanInv
    BY PlanInvInit
<1>2. PlanInv /\ [Next]_vars => PlanInv'
    BY PlanInvStep
<1> QED BY <1>1, <1>2, PTL DEF Spec

(* The types hold, so a circuit's id is made of ports and its rear ports   *)
(* are known to Netbox.                                                    *)
THEOREM TypeCorrect == Spec => []TypeOK
<1>1. PlanInv => TypeOK
    BY DEF PlanInv
<1> QED BY <1>1, PlanInvHolds, PTL

(* No rear port is in two circuits and no id is given twice, whatever the  *)
(* plan holds and in whatever order the connectors are taken: two circuits *)
(* with one id would share a connection, and so their rear ports.          *)
THEOREM DisjointCircuits == Spec => []CircuitsDisjoint
<1>1. PlanInv => CircuitsDisjoint
    BY DEF PlanInv
<1> QED BY <1>1, PlanInvHolds, PTL
-----------------------------------------------------------------------------
(* The graph of slots *)

LEMMA Two ==
    ASSUME NEW a, NEW b, a # b
    PROVE  IsFiniteSet({a, b}) /\ Cardinality({a, b}) = 2
<1>1. {a, b} = {a} \union {b}
    OBVIOUS
<1>2. IsFiniteSet({a}) /\ Cardinality({a}) = 1
    BY FS_Singleton
<1>3. IsFiniteSet({a} \union {b}) /\ Cardinality({a} \union {b}) = Cardinality({a}) + 1
    BY <1>2, FS_AddElement
<1> QED BY <1>1, <1>2, <1>3

(* The slots that hold a fiber. *)
Used == {t \in Slot : use[t] \in Fiber}

LEMMA UsedFinite == IsFiniteSet(Slot) /\ IsFiniteSet(Used) /\ Cardinality(Used) \in Nat
<1>1. Side = {"Front", "Back"}
    BY PortAssumption DEF PortSide
<1>2. IsFiniteSet(Side)
  <2>1. "Front" # "Back"
      OBVIOUS
  <2> QED BY <1>1, <2>1, Two
<1>3. IsFiniteSet(Slot)
    BY <1>2, PortAssumption, FS_Product DEF Slot
<1> QED BY <1>3, FS_Subset, FS_CardinalityType DEF Used

(* A fiber leads to one other slot. *)
LEMMA AlongOne ==
    ASSUME EachEndOnce, NEW s \in Used, NEW t \in AlongFiber(use, s), NEW u \in AlongFiber(use, s)
    PROVE  t = u
<1> SUFFICES ASSUME t # u PROVE FALSE
    OBVIOUS
<1> DEFINE S == {r \in Slot : use[r] = use[s]}
<1>1. {s, t, u} \subseteq S /\ s # t /\ s # u
    BY DEF AlongFiber, Used
<1>2. IsFiniteSet(S) /\ Cardinality(S) <= 2 /\ Cardinality(S) \in Nat
  <2>1. IsFiniteSet(S)
      BY UsedFinite, FS_Subset
  <2>2. Cardinality(S) <= 2
      BY DEF EachEndOnce, Used
  <2> QED BY <2>1, <2>2, FS_CardinalityType
<1>3. IsFiniteSet({t, u}) /\ Cardinality({t, u}) = 2
    BY Two
<1>4. Cardinality({t, u} \union {s}) = 3
  <2>1. s \notin {t, u}
      BY <1>1
  <2>2. Cardinality({t, u} \union {s}) = Cardinality({t, u}) + 1
      BY <2>1, <1>3, FS_AddElement
  <2> QED BY <1>3, <2>2
<1>5. Cardinality({t, u} \union {s}) <= Cardinality(S)
    BY <1>1, <1>2, FS_Subset
<1> QED BY <1>2, <1>4, <1>5

LEMMA Sides ==
    ASSUME NEW s \in Slot
    PROVE  s[1] \in Port /\ s[2] \in {"Front", "Back"} /\ s = <<s[1], s[2]>>
BY PortAssumption DEF Slot, PortSide

(* So does a port, and both ways. *)
LEMMA ThroughOne ==
    ASSUME NEW s \in Used, NEW t \in ThroughPort(use, s), NEW u \in ThroughPort(use, s)
    PROVE  t = u
<1>1. s \in Slot /\ t \in Slot /\ u \in Slot /\ t[1] = s[1] /\ u[1] = s[1] /\ t[2] # s[2] /\ u[2] # s[2]
    BY DEF ThroughPort, Used
<1> QED BY <1>1, Sides

LEMMA AlongBack ==
    ASSUME NEW s \in Used, NEW t \in AlongFiber(use, s)
    PROVE  t \in Used /\ s \in AlongFiber(use, t) /\ t # s /\ t \notin ThroughPort(use, s)
BY DEF AlongFiber, Used, ThroughPort

LEMMA ThroughBack ==
    ASSUME NEW s \in Used, NEW t \in ThroughPort(use, s)
    PROVE  t \in Used /\ s \in ThroughPort(use, t) /\ t # s /\ t \notin AlongFiber(use, s)
BY DEF AlongFiber, Used, ThroughPort

(* Which way a walk goes at its hop n. *)
Turn(n, first) == (first = "Fiber") = (n % 2 = 1)

LEMMA TurnsAlternate ==
    ASSUME NEW n \in Nat, NEW first
    PROVE  (Turn(n + 1, first) <=> ~ Turn(n, first)) /\ (Turn(n + 2, first) <=> Turn(n, first))
BY DEF Turn

LEMMA TurnOther ==
    ASSUME NEW n \in Nat, NEW first \in FirstHop
    PROVE  Turn(n, "Port") <=> ~ Turn(n, "Fiber")
BY DEF Turn

LEMMA HopTurn ==
    ASSUME NEW s, NEW n, NEW first
    PROVE  /\ Turn(n, first) => Hop(use, s, n, first) = AlongFiber(use, s)
           /\ ~ Turn(n, first) => Hop(use, s, n, first) = ThroughPort(use, s)
BY DEF Hop, Turn

(* One hop: to one slot at most, and back. *)
LEMMA HopOne ==
    ASSUME EachEndOnce, NEW s \in Used, NEW n \in Nat, NEW first
    PROVE  \A t \in Hop(use, s, n, first) :
               /\ t \in Used /\ t # s /\ s \in Hop(use, t, n, first)
               /\ Hop(use, s, n, first) = {t} /\ t \notin Hop(use, s, n + 1, first)
<1> SUFFICES ASSUME NEW t \in Hop(use, s, n, first)
             PROVE  /\ t \in Used /\ t # s /\ s \in Hop(use, t, n, first)
                    /\ Hop(use, s, n, first) = {t} /\ t \notin Hop(use, s, n + 1, first)
    OBVIOUS
<1>1. CASE Turn(n, first)
  <2>1. ~ Turn(n + 1, first)
      BY <1>1, TurnsAlternate
  <2> QED BY <1>1, <2>1, HopTurn, AlongBack, AlongOne
<1>2. CASE ~ Turn(n, first)
  <2>1. Turn(n + 1, first)
      BY <1>2, TurnsAlternate
  <2> QED BY <1>2, <2>1, HopTurn, ThroughBack, ThroughOne
<1> QED BY <1>1, <1>2

(* Two hops that follow each other make the neighbours. *)
LEMMA HopsAre ==
    ASSUME NEW s \in Used, NEW n \in Nat, NEW first
    PROVE  /\ Neighbours(s) = Hop(use, s, n, first) \union Hop(use, s, n + 1, first)
           /\ Hop(use, s, n + 2, first) = Hop(use, s, n, first)
<1>1. Neighbours(s) = AlongFiber(use, s) \union ThroughPort(use, s)
    BY DEF Neighbours, Used
<1> QED BY <1>1, TurnsAlternate, HopTurn

(* Its neighbours are none, one or two. *)
LEMMA Degree ==
    ASSUME EachEndOnce, NEW s \in Used, NEW n \in Nat, NEW first
    PROVE  /\ Cardinality(Neighbours(s)) \in 0 .. 2
           /\ Cardinality(Neighbours(s)) <= 1
                <=> Hop(use, s, n, first) = {} \/ Hop(use, s, n + 1, first) = {}
           /\ Cardinality(Neighbours(s)) = 0
                <=> Hop(use, s, n, first) = {} /\ Hop(use, s, n + 1, first) = {}
<1> DEFINE P == Hop(use, s, n, first)
           Q == Hop(use, s, n + 1, first)
<1>1. Neighbours(s) = P \union Q
    BY HopsAre
<1>2. \A t \in P : P = {t} /\ t \notin Q
    BY HopOne
<1>3. \A t \in Q : Q = {t}
    BY HopOne
<1> HIDE DEF P, Q
<1>4. Cardinality({}) = 0 /\ \A t : Cardinality({t}) = 1
    BY FS_EmptySet, FS_Singleton
<1>5. CASE P = {} /\ Q = {}
    BY <1>1, <1>4, <1>5 DEF P, Q
<1>6. CASE P = {} /\ Q # {}
  <2>1. PICK t : Q = {t}
      BY <1>3, <1>6
  <2>2. Cardinality(Neighbours(s)) = 1
      BY <1>1, <1>4, <1>6, <2>1
  <2> QED BY <1>6, <2>2 DEF P, Q
<1>7. CASE P # {} /\ Q = {}
  <2>1. PICK t : P = {t}
      BY <1>2, <1>7
  <2>2. Cardinality(Neighbours(s)) = 1
      BY <1>1, <1>4, <1>7, <2>1
  <2> QED BY <1>7, <2>2 DEF P, Q
<1>8. CASE P # {} /\ Q # {}
  <2>1. PICK t : P = {t} /\ t \notin Q
      BY <1>2, <1>8
  <2>2. PICK u : Q = {u}
      BY <1>3, <1>8
  <2>3. t # u /\ Neighbours(s) = {t, u}
      BY <1>1, <2>1, <2>2
  <2>4. Cardinality({t, u}) = 2
      BY <2>3, Two
  <2>5. Cardinality(Neighbours(s)) = 2
      BY <2>3, <2>4
  <2> QED BY <1>8, <2>5 DEF P, Q
<1> QED BY <1>5, <1>6, <1>7, <1>8

-----------------------------------------------------------------------------
(* Chains: the slots a walk passes *)

IsChain(x, m, s, first) ==
    /\ x \in [0 .. m -> Used]
    /\ x[0] = s
    /\ \A i \in 1 .. m : x[i] \in Hop(use, x[i - 1], i, first)
    /\ \A i, j \in 0 .. m : x[i] = x[j] => i = j
Passed(x, m) == {x[i] : i \in 0 .. m}

(* It goes on, if at all, to a slot it passed. *)
IsWhole(x, m, s, first) ==
    IsChain(x, m, s, first) /\ Hop(use, x[m], m + 1, first) \subseteq Passed(x, m)

LEMMA ChainLength ==
    ASSUME NEW m \in Nat, NEW x, NEW s, NEW first, IsChain(x, m, s, first)
    PROVE  m + 1 <= Cardinality(Used)
<1>1. x \in Injection(0 .. m, Used)
    BY DEF IsChain, Injection, IsInjective
<1>2. Cardinality(0 .. m) <= Cardinality(Used)
    BY <1>1, UsedFinite, FS_Injection
<1>3. Cardinality(0 .. m) = m + 1
    BY FS_Interval
<1> QED BY <1>2, <1>3

LEMMA ChainGrows ==
    ASSUME NEW m \in Nat, NEW x, NEW s, NEW first, IsChain(x, m, s, first),
           NEW t \in Used, t \in Hop(use, x[m], m + 1, first), t \notin Passed(x, m)
    PROVE  IsChain([i \in 0 .. m + 1 |-> IF i = m + 1 THEN t ELSE x[i]], m + 1, s, first)
<1> DEFINE y == [i \in 0 .. m + 1 |-> IF i = m + 1 THEN t ELSE x[i]]
<1>1. /\ \A i \in 0 .. m : x[i] \in Used /\ x[i] # t
      /\ x[0] = s
      /\ \A i \in 1 .. m : x[i] \in Hop(use, x[i - 1], i, first)
      /\ \A i, j \in 0 .. m : x[i] = x[j] => i = j
    BY DEF IsChain, Passed
<1>2. y[m + 1] = t /\ \A i \in 0 .. m : y[i] = x[i]
    OBVIOUS
<1>3. y \in [0 .. m + 1 -> Used]
    BY <1>1
<1>4. y[0] = s
    BY <1>1, <1>2
<1>5. ASSUME NEW i \in 1 .. m + 1
      PROVE  y[i] \in Hop(use, y[i - 1], i, first)
  <2>1. CASE i = m + 1
      BY <1>2, <2>1
  <2>2. CASE i \in 1 .. m
      BY <1>1, <1>2, <2>2
  <2> QED BY <2>1, <2>2
<1>6. ASSUME NEW i \in 0 .. m + 1, NEW j \in 0 .. m + 1, y[i] = y[j]
      PROVE  i = j
    BY <1>1, <1>2, <1>6
<1> HIDE DEF y
<1>7. IsChain(y, m + 1, s, first)
    BY <1>3, <1>4, <1>5, <1>6 DEF IsChain
<1> QED BY <1>7 DEF y

LEMMA ChainExists ==
    ASSUME EachEndOnce, NEW s \in Used, NEW first
    PROVE  \E m \in Nat : \E x : IsWhole(x, m, s, first)
<1> DEFINE Left == {k \in Nat : \E m \in Nat : \E x : IsChain(x, m, s, first) /\ m + k = Cardinality(Used)}
<1>1. Left # {}
  <2> DEFINE x == [i \in 0 .. 0 |-> s]
  <2>1. IsChain(x, 0, s, first)
      BY DEF IsChain
  <2> HIDE DEF x
  <2>2. 0 + 1 <= Cardinality(Used)
      BY <2>1, ChainLength
  <2>3. Cardinality(Used) \in Left
      BY <2>1, <2>2, UsedFinite
  <2> QED BY <2>3
<1>2. PICK k \in Left : \A l \in Left : k <= l
    BY <1>1, Smallest
<1>3. PICK m, x : m \in Nat /\ IsChain(x, m, s, first) /\ m + k = Cardinality(Used)
    BY <1>2
<1>4. ASSUME NEW t \in Hop(use, x[m], m + 1, first), t \notin Passed(x, m)
      PROVE  FALSE
  <2>1. x[m] \in Used /\ m + 1 \in Nat
      BY <1>3 DEF IsChain
  <2>2. t \in Used
      BY <1>4, <2>1, HopOne
  <2> DEFINE y == [i \in 0 .. m + 1 |-> IF i = m + 1 THEN t ELSE x[i]]
  <2>3. IsChain(y, m + 1, s, first)
      BY <1>3, <1>4, <2>2, ChainGrows
  <2> HIDE DEF y
  <2>4. (m + 1) + 1 <= Cardinality(Used)
      BY <2>1, <2>3, ChainLength
  <2>5. k - 1 \in Nat /\ (m + 1) + (k - 1) = Cardinality(Used)
      BY <1>2, <1>3, <2>4, UsedFinite
  <2>6. k - 1 \in Left
      BY <2>1, <2>3, <2>5
  <2> QED BY <1>2, <2>5, <2>6
<1>5. IsWhole(x, m, s, first)
    BY <1>3, <1>4 DEF IsWhole
<1> QED BY <1>3, <1>5

(* Hops of the same parity lead the same way. *)
LEMMA HopParity ==
    ASSUME NEW s, NEW n \in Nat, NEW k \in Nat, NEW first, n % 2 = k % 2
    PROVE  Hop(use, s, n, first) = Hop(use, s, k, first)
BY DEF Hop

(* Inside it the hops lead to the slots before and after. *)
HopsStay(x, m, first) ==
    /\ \A i \in 0 .. m : x[i] \in Used
    /\ \A i \in 1 .. m : Hop(use, x[i - 1], i, first) = {x[i]}
    /\ \A i \in 1 .. m : Hop(use, x[i], i, first) = {x[i - 1]}

LEMMA ChainHops ==
    ASSUME EachEndOnce, NEW m \in Nat, NEW x, NEW s, NEW first, IsChain(x, m, s, first)
    PROVE  HopsStay(x, m, first)
<1>1. \A i \in 0 .. m : x[i] \in Used
    BY DEF IsChain
<1>2. ASSUME NEW i \in 1 .. m
      PROVE  Hop(use, x[i - 1], i, first) = {x[i]} /\ Hop(use, x[i], i, first) = {x[i - 1]}
  <2>1. x[i] \in Hop(use, x[i - 1], i, first) /\ x[i] \in Used /\ x[i - 1] \in Used /\ i \in Nat
      BY <1>1 DEF IsChain
  <2>2. Hop(use, x[i - 1], i, first) = {x[i]} /\ x[i - 1] \in Hop(use, x[i], i, first)
      BY <2>1, HopOne
  <2>3. Hop(use, x[i], i, first) = {x[i - 1]}
      BY <2>1, <2>2, HopOne
  <2> QED BY <2>2, <2>3
<1> QED BY <1>1, <1>2 DEF HopsStay

(* If it goes on to a slot it passed, then to its start, after an even     *)
(* number of hops.                                                         *)
LEMMA Closing ==
    ASSUME EachEndOnce, NEW m \in Nat, NEW x, NEW s, NEW first, IsWhole(x, m, s, first),
           NEW t \in Hop(use, x[m], m + 1, first)
    PROVE  t = s /\ m # 0 /\ (m + 1) % 2 = 0 /\ Hop(use, x[m], m + 1, first) = {s}
<1>c. IsChain(x, m, s, first)
    BY DEF IsWhole
<1>0. x[0] = s /\ \A i, j \in 0 .. m : x[i] = x[j] => i = j
    BY <1>c DEF IsChain
<1>h. HopsStay(x, m, first)
    BY <1>c, ChainHops
<1>1. /\ \A i \in 0 .. m : x[i] \in Used
      /\ \A i \in 1 .. m : Hop(use, x[i - 1], i, first) = {x[i]}
      /\ \A i \in 1 .. m : Hop(use, x[i], i, first) = {x[i - 1]}
    BY <1>h DEF HopsStay
<1>2. PICK i \in 0 .. m : t = x[i]
    BY DEF IsWhole, Passed
<1>3. x[m] \in Used /\ m + 1 \in Nat
    BY <1>1
<1>4. t # x[m] /\ x[m] \in Hop(use, t, m + 1, first) /\ Hop(use, x[m], m + 1, first) = {t}
    BY <1>3, HopOne
<1>5. i # m
    BY <1>2, <1>4
<1>6. (m + 1) % 2 = (i + 1) % 2 => FALSE
  <2> SUFFICES ASSUME (m + 1) % 2 = (i + 1) % 2 PROVE FALSE
      OBVIOUS
  <2>1. Hop(use, x[i], m + 1, first) = Hop(use, x[i], i + 1, first)
      BY HopParity
  <2>2. i + 1 \in 1 .. m /\ (i + 1) - 1 = i
      BY <1>5
  <2>3. Hop(use, x[i], i + 1, first) = {x[i + 1]}
      BY <1>1, <2>2
  <2>4. x[m] = x[i + 1]
      BY <1>2, <1>4, <2>1, <2>3
  <2>5. m = i + 1
      BY <1>0, <2>2, <2>4
  <2> QED BY <2>5
<1>7. i = 0
  <2> SUFFICES ASSUME i # 0 PROVE FALSE
      OBVIOUS
  <2>1. (m + 1) % 2 = i % 2
      BY <1>6
  <2>2. Hop(use, x[i], m + 1, first) = Hop(use, x[i], i, first)
      BY <2>1, HopParity
  <2>3. i \in 1 .. m
      OBVIOUS
  <2>4. x[m] = x[i - 1]
      BY <1>1, <1>2, <1>4, <2>2, <2>3
  <2>5. i - 1 \in 0 .. m
      BY <2>3
  <2> QED BY <1>0, <2>3, <2>4, <2>5
<1> QED BY <1>0, <1>2, <1>4, <1>5, <1>6, <1>7

-----------------------------------------------------------------------------
(* The rows of a walk along a whole chain *)

RowAt(x, i) == [step |-> i, slot |-> x[i], closed |-> FALSE, visited |-> Passed(x, i)]
ClosingRow(x, m, t) == [step |-> m + 1, slot |-> t, closed |-> TRUE, visited |-> Passed(x, m)]
Going(x, m, first) == Hop(use, x[m], m + 1, first)
RowsTo(x, m, first, n) ==
    {RowAt(x, i) : i \in {i \in 0 .. m : i <= n}}
        \union {ClosingRow(x, m, t) : t \in {t \in Going(x, m, first) : n > m}}

NextRow(r, t) == [step |-> r.step + 1, slot |-> t, closed |-> t \in r.visited, visited |-> r.visited \union {t}]
From(r, first) == {NextRow(r, t) : t \in Hop(use, r.slot, r.step + 1, first)}
OpenAt(rows, n) == {r \in rows : r.step = n /\ ~ r.closed}

LEMMA PassedGrows ==
    ASSUME NEW x, NEW i \in Nat, i # 0
    PROVE  Passed(x, i) = Passed(x, i - 1) \union {x[i]}
<1>1. 0 .. i = (0 .. i - 1) \union {i}
    OBVIOUS
<1> QED BY <1>1 DEF Passed

LEMMA NextInner ==
    ASSUME NEW m \in Nat, NEW x, NEW s, NEW first, IsChain(x, m, s, first), NEW i \in 1 .. m
    PROVE  NextRow(RowAt(x, i - 1), x[i]) = RowAt(x, i)
<1>1. x[i] \notin Passed(x, i - 1)
    BY DEF Passed, IsChain
<1>2. Passed(x, i - 1) \union {x[i]} = Passed(x, i)
    BY PassedGrows
<1>3. (x[i] \in Passed(x, i - 1)) = FALSE
    BY <1>1
<1>4. i - 1 + 1 = i
    OBVIOUS
<1>5. RowAt(x, i - 1).step = i - 1 /\ RowAt(x, i - 1).visited = Passed(x, i - 1)
    BY DEF RowAt
<1>6. NextRow(RowAt(x, i - 1), x[i])
          = [step |-> (i - 1) + 1, slot |-> x[i], closed |-> x[i] \in Passed(x, i - 1),
             visited |-> Passed(x, i - 1) \union {x[i]}]
    BY <1>5 DEF NextRow
<1> QED BY <1>2, <1>3, <1>4, <1>6, Zenon DEF RowAt

LEMMA NextLast ==
    ASSUME NEW m \in Nat, NEW x, NEW t \in Passed(x, m)
    PROVE  NextRow(RowAt(x, m), t) = ClosingRow(x, m, t)
<1>1. (t \in Passed(x, m)) = TRUE
    OBVIOUS
<1>2. Passed(x, m) \union {t} = Passed(x, m)
    OBVIOUS
<1>3. RowAt(x, m).step = m /\ RowAt(x, m).visited = Passed(x, m)
    BY DEF RowAt
<1>4. NextRow(RowAt(x, m), t)
          = [step |-> m + 1, slot |-> t, closed |-> t \in Passed(x, m), visited |-> Passed(x, m) \union {t}]
    BY <1>3 DEF NextRow
<1> QED BY <1>1, <1>2, <1>4, Zenon DEF ClosingRow

LEMMA RowFields ==
    ASSUME NEW x, NEW i, NEW m, NEW t
    PROVE  /\ RowAt(x, i).step = i /\ RowAt(x, i).slot = x[i] /\ ~ RowAt(x, i).closed
           /\ ClosingRow(x, m, t).step = m + 1 /\ ClosingRow(x, m, t).slot = t /\ ClosingRow(x, m, t).closed
BY DEF RowAt, ClosingRow

(* The step of the recursion. *)
LEMMA RowsStep ==
    ASSUME EachEndOnce, NEW m \in Nat, NEW x, NEW s, NEW first, IsWhole(x, m, s, first),
           NEW n \in Nat, n # 0
    PROVE  RowsTo(x, m, first, n)
             = RowsTo(x, m, first, n - 1)
                 \union UNION {From(r, first) : r \in OpenAt(RowsTo(x, m, first, n - 1), n - 1)}
<1> DEFINE before == RowsTo(x, m, first, n - 1)
<1>c. IsChain(x, m, s, first)
    BY DEF IsWhole
<1>h. HopsStay(x, m, first)
    BY <1>c, ChainHops
<1>1. CASE n <= m
  <2>1. OpenAt(before, n - 1) = {RowAt(x, n - 1)}
    <3>1. RowAt(x, n - 1) \in OpenAt(before, n - 1)
        BY <1>1, RowFields DEF OpenAt, RowsTo
    <3>2. ASSUME NEW r \in OpenAt(before, n - 1) PROVE r = RowAt(x, n - 1)
      <4>1. ~ (n - 1 > m)
          BY <1>1
      <4>2. PICK i \in 0 .. m : r = RowAt(x, i)
          BY <4>1 DEF OpenAt, RowsTo
      <4>3. r.step = n - 1 /\ r.step = i
          BY <4>2, RowFields DEF OpenAt
      <4> QED BY <4>2, <4>3
    <3> QED BY <3>1, <3>2
  <2>2. Hop(use, x[n - 1], n, first) = {x[n]} /\ n - 1 + 1 = n
      BY <1>1, <1>h DEF HopsStay
  <2>3. From(RowAt(x, n - 1), first) = {NextRow(RowAt(x, n - 1), x[n])}
      BY <2>2, RowFields DEF From
  <2>4. NextRow(RowAt(x, n - 1), x[n]) = RowAt(x, n)
      BY <1>c, <1>1, NextInner
  <2>5. {i \in 0 .. m : i <= n} = {i \in 0 .. m : i <= n - 1} \union {n}
      BY <1>1
  <2>6. RowsTo(x, m, first, n) = before \union {RowAt(x, n)}
      BY <1>1, <2>5 DEF RowsTo
  <2>7. UNION {From(r, first) : r \in OpenAt(before, n - 1)} = From(RowAt(x, n - 1), first)
      BY <2>1
  <2> QED BY <2>3, <2>4, <2>6, <2>7
<1>2. CASE n = m + 1
  <2>1. OpenAt(before, n - 1) = {RowAt(x, m)}
    <3>1. RowAt(x, m) \in OpenAt(before, n - 1)
        BY <1>2, RowFields DEF OpenAt, RowsTo
    <3>2. ASSUME NEW r \in OpenAt(before, n - 1) PROVE r = RowAt(x, m)
        BY <1>2, <3>2, RowFields DEF OpenAt, RowsTo
    <3> QED BY <3>1, <3>2
  <2>2. From(RowAt(x, m), first) = {NextRow(RowAt(x, m), t) : t \in Going(x, m, first)}
      BY RowFields DEF From, Going
  <2>3. \A t \in Going(x, m, first) : NextRow(RowAt(x, m), t) = ClosingRow(x, m, t)
      BY NextLast DEF IsWhole, Going
  <2>4. From(RowAt(x, m), first) = {ClosingRow(x, m, t) : t \in Going(x, m, first)}
      BY <2>2, <2>3
  <2>5. {i \in 0 .. m : i <= n} = {i \in 0 .. m : i <= n - 1} /\ n > m /\ ~ (n - 1 > m)
      BY <1>2
  <2>6. RowsTo(x, m, first, n) = before \union {ClosingRow(x, m, t) : t \in Going(x, m, first)}
      BY <2>5 DEF RowsTo
  <2>7. UNION {From(r, first) : r \in OpenAt(before, n - 1)} = From(RowAt(x, m), first)
      BY <2>1
  <2> QED BY <2>4, <2>6, <2>7
<1>3. CASE n > m + 1
  <2>1. OpenAt(before, n - 1) = {}
      BY <1>3, RowFields DEF OpenAt, RowsTo
  <2>2. {i \in 0 .. m : i <= n} = {i \in 0 .. m : i <= n - 1} /\ n > m /\ n - 1 > m
      BY <1>3
  <2>3. RowsTo(x, m, first, n) = before
      BY <2>2 DEF RowsTo
  <2> QED BY <2>1, <2>3
<1> QED BY <1>1, <1>2, <1>3

LEMMA RowsStart ==
    ASSUME NEW m \in Nat, NEW x, NEW s, NEW first, IsChain(x, m, s, first)
    PROVE  RowsTo(x, m, first, 0) = {[step |-> 0, slot |-> s, closed |-> FALSE, visited |-> {s}]}
<1>1. {i \in 0 .. m : i <= 0} = {0} /\ ~ (0 > m)
    OBVIOUS
<1>2. RowsTo(x, m, first, 0) = {RowAt(x, 0)}
    BY <1>1 DEF RowsTo
<1>3. x[0] = s /\ Passed(x, 0) = {s}
    BY DEF IsChain, Passed
<1> QED BY <1>2, <1>3 DEF RowAt

(* The walk is the last of the sets of rows its recursion makes. *)
IsWalk(rows, s, first, hops) ==
    rows = [n \in 0 .. hops |->
               IF n = 0 THEN {[step |-> 0, slot |-> s, closed |-> FALSE, visited |-> {s}]}
               ELSE rows[n - 1] \union UNION {From(r, first) : r \in OpenAt(rows[n - 1], n - 1)}]

LEMMA WalkIs ==
    ASSUME NEW s, NEW first, \E rows : IsWalk(rows, s, first, Cardinality(Used))
    PROVE  \E rows : /\ IsWalk(rows, s, first, Cardinality(Used))
                     /\ Walk(use, s, first) = rows[Cardinality(Used)]
<1> DEFINE P(rows) ==
        rows = [n \in 0 .. Cardinality({t \in Slot : use[t] \in Fiber}) |->
                   IF n = 0 THEN {[step |-> 0, slot |-> s, closed |-> FALSE, visited |-> {s}]}
                   ELSE LET before == rows[n - 1]
                        IN  before \union UNION {{[step |-> r.step + 1, slot |-> t, closed |-> t \in r.visited,
                                                   visited |-> r.visited \union {t}] :
                                                      t \in Hop(use, r.slot, r.step + 1, first)} :
                                                  r \in {r \in before : r.step = n - 1 /\ ~ r.closed}}]
<1>1. \A rows : IsWalk(rows, s, first, Cardinality(Used)) <=> P(rows)
    BY DEF IsWalk, From, NextRow, OpenAt, Used
<1>2. Walk(use, s, first) = (CHOOSE rows : P(rows))[Cardinality(Used)]
    BY DEF Walk, Used
<1> HIDE DEF P
<1>3. P(CHOOSE rows : P(rows))
    BY <1>1
<1> QED BY <1>1, <1>2, <1>3

LEMMA WalkOfChain ==
    ASSUME EachEndOnce, NEW m \in Nat, NEW x, NEW s, NEW first, IsWhole(x, m, s, first)
    PROVE  Walk(use, s, first) = RowsTo(x, m, first, m + 1)
<1> DEFINE hops == Cardinality(Used)
           given == [n \in 0 .. hops |-> RowsTo(x, m, first, n)]
<1>c. IsChain(x, m, s, first)
    BY DEF IsWhole
<1>1. hops \in Nat /\ m + 1 <= hops
    BY <1>c, UsedFinite, ChainLength
<1>2. RowsTo(x, m, first, 0) = {[step |-> 0, slot |-> s, closed |-> FALSE, visited |-> {s}]}
    BY <1>c, RowsStart
<1>3. \A n \in Nat \ {0} :
          RowsTo(x, m, first, n)
             = RowsTo(x, m, first, n - 1)
                 \union UNION {From(r, first) : r \in OpenAt(RowsTo(x, m, first, n - 1), n - 1)}
    BY RowsStep
<1> HIDE DEF hops
<1>4. IsWalk(given, s, first, hops)
  <2>1. \A n \in 0 .. hops : given[n] = RowsTo(x, m, first, n)
      OBVIOUS
  <2>2. \A n \in 0 .. hops : n # 0 => given[n - 1] = RowsTo(x, m, first, n - 1) /\ n \in Nat \ {0}
      BY <1>1
  <2>3. given = [n \in 0 .. hops |->
               IF n = 0 THEN {[step |-> 0, slot |-> s, closed |-> FALSE, visited |-> {s}]}
               ELSE given[n - 1] \union UNION {From(r, first) : r \in OpenAt(given[n - 1], n - 1)}]
      BY <1>2, <1>3, <2>2
  <2> QED BY <2>3 DEF IsWalk
<1>5. PICK rows : IsWalk(rows, s, first, hops) /\ Walk(use, s, first) = rows[hops]
    BY <1>4, WalkIs DEF hops
<1>6. \A n \in 0 .. hops :
          rows[n] = IF n = 0 THEN {[step |-> 0, slot |-> s, closed |-> FALSE, visited |-> {s}]}
                    ELSE rows[n - 1] \union UNION {From(r, first) : r \in OpenAt(rows[n - 1], n - 1)}
    BY <1>5 DEF IsWalk
<1> DEFINE Wrong == {n \in 0 .. hops : rows[n] # RowsTo(x, m, first, n)}
<1>7. Wrong = {}
  <2> SUFFICES ASSUME Wrong # {} PROVE FALSE
      OBVIOUS
  <2>1. Wrong \in SUBSET Nat
      BY <1>1
  <2>2. PICK n \in Wrong : \A k \in Wrong : n <= k
      BY <2>1, Smallest
  <2>3. n # 0
      BY <1>1, <1>2, <1>6, <2>2
  <2>4. n - 1 \in 0 .. hops /\ n - 1 \notin Wrong /\ n \in Nat \ {0} /\ n \in 0 .. hops
      BY <1>1, <2>2, <2>3
  <2>5. rows[n - 1] = RowsTo(x, m, first, n - 1)
      BY <2>4
  <2>6. rows[n] = RowsTo(x, m, first, n)
      BY <1>3, <1>6, <2>4, <2>5
  <2> QED BY <2>2, <2>6
<1>8. rows[hops] = RowsTo(x, m, first, hops)
    BY <1>1, <1>7
<1>9. {i \in 0 .. m : i <= hops} = {i \in 0 .. m : i <= m + 1} /\ hops > m /\ m + 1 > m
    BY <1>1
<1>10. RowsTo(x, m, first, hops) = RowsTo(x, m, first, m + 1)
    BY <1>9 DEF RowsTo
<1> QED BY <1>5, <1>8, <1>10

(* Of rows in order of their steps only the last is last. *)
LEMMA NotBeforeItself ==
    ASSUME NEW r, r.slot \in Slot, r.step \in Nat
    PROVE  ~ Before(r, r)
<1>1. r.slot[1] \in Nat
    BY Sides, PortAssumption
<1>2. SideNo(r.slot[2]) \in Nat
    BY DEF SideNo
<1> QED BY <1>1, <1>2 DEF Before

LEMMA LastIs ==
    ASSUME NEW rows, NEW r \in rows, r.slot \in Slot, r.step \in Nat,
           \A q \in rows : q # r => q.step \in Nat /\ q.step < r.step
    PROVE  LastRows(rows) = {r}
<1>1. ~ Before(r, r)
    BY NotBeforeItself
<1>2. \A q \in rows : q # r => Before(q, r)
    BY DEF Before
<1>3. \A q \in rows : q # r => ~ Before(r, q)
    BY DEF Before
<1> QED BY <1>1, <1>2, <1>3 DEF LastRows

(* What a trace along a whole chain finds. *)
LEMMA TracesOfChain ==
    ASSUME EachEndOnce, NEW m \in Nat, NEW x, NEW s, NEW first, IsWhole(x, m, s, first)
    PROVE  Traces(use, s, first) = {[looped |-> Going(x, m, first) # {}, last |-> x[m], reached |-> m > 0]}
<1> DEFINE rows == RowsTo(x, m, first, m + 1)
           open == {r \in rows : ~ r.closed}
           looped == Going(x, m, first) # {}
<1>c. IsChain(x, m, s, first)
    BY DEF IsWhole
<1>h. \A i \in 0 .. m : x[i] \in Slot
    BY <1>c DEF IsChain, Used
<1>1. rows = {RowAt(x, i) : i \in 0 .. m} \union {ClosingRow(x, m, t) : t \in Going(x, m, first)}
  <2>1. {i \in 0 .. m : i <= m + 1} = 0 .. m /\ m + 1 > m
      OBVIOUS
  <2> QED BY <2>1 DEF RowsTo
<1>2. open = {RowAt(x, i) : i \in 0 .. m}
  <2>1. \A r \in open : \E i \in 0 .. m : r = RowAt(x, i)
      BY <1>1, RowFields
  <2>2. \A i \in 0 .. m : RowAt(x, i) \in open
      BY <1>1, RowFields
  <2> QED BY <2>1, <2>2
<1>3. Walk(use, s, first) = rows
    BY WalkOfChain
<1> HIDE DEF rows, open, looped
<1>4. LastRows(open) = {RowAt(x, m)}
  <2>1. RowAt(x, m) \in open /\ RowAt(x, m).slot \in Slot /\ RowAt(x, m).step \in Nat
      BY <1>2, <1>h, RowFields
  <2>2. ASSUME NEW q \in open, q # RowAt(x, m)
        PROVE  q.step \in Nat /\ q.step < RowAt(x, m).step
    <3>1. PICK i \in 0 .. m : q = RowAt(x, i)
        BY <1>2
    <3>2. i # m
        BY <2>2, <3>1
    <3> QED BY <3>1, <3>2, RowFields
  <2> QED BY <2>1, <2>2, LastIs
<1>5. \E r : LastRows(rows) = {r} /\ r.closed = looped
  <2>1. CASE Going(x, m, first) = {}
    <3>1. rows = open
        BY <1>1, <1>2, <2>1
    <3>2. RowAt(x, m).closed = FALSE /\ looped = FALSE
        BY <2>1 DEF RowAt, looped
    <3> QED BY <1>4, <3>1, <3>2
  <2>2. CASE Going(x, m, first) # {}
    <3>1. PICK t : t \in Going(x, m, first)
        BY <2>2
    <3>2. Going(x, m, first) = {t} /\ t \in Slot
      <4>1. t = s /\ Going(x, m, first) = {s}
          BY <3>1, Closing DEF Going
      <4>2. x[0] = s /\ 0 \in 0 .. m
          BY <1>c DEF IsChain
      <4> QED BY <4>1, <4>2, <1>h
    <3> DEFINE r == ClosingRow(x, m, t)
    <3>3. r \in rows /\ r.slot \in Slot /\ r.step \in Nat /\ r.step = m + 1
        BY <1>1, <3>2, RowFields
    <3>4. ASSUME NEW q \in rows, q # r
          PROVE  q.step \in Nat /\ q.step < r.step
      <4>1. PICK i \in 0 .. m : q = RowAt(x, i)
          BY <1>1, <3>2, <3>4
      <4> QED BY <3>3, <4>1, RowFields
    <3>5. r.closed = TRUE /\ looped = TRUE
        BY <2>2 DEF ClosingRow, looped
    <3> HIDE DEF r
    <3>6. LastRows(rows) = {r}
        BY <3>3, <3>4, LastIs
    <3> QED BY <3>5, <3>6
  <2> QED BY <2>1, <2>2
<1>6. PICK r : LastRows(rows) = {r} /\ r.closed = looped
    BY <1>5
<1>7. Traces(use, s, first)
        = {[looped |-> a.closed, last |-> q.slot, reached |-> q.step > 0] :
              a \in LastRows(rows), q \in LastRows(open)}
    BY <1>3 DEF Traces, open
<1>8. Traces(use, s, first)
        = {[looped |-> r.closed, last |-> RowAt(x, m).slot, reached |-> RowAt(x, m).step > 0]}
    BY <1>4, <1>6, <1>7
<1>9. RowAt(x, m).slot = x[m] /\ RowAt(x, m).step = m
    BY RowFields
<1> QED BY <1>6, <1>8, <1>9, Zenon DEF looped

LEMMA EndsOfChain ==
    ASSUME EachEndOnce, NEW m \in Nat, NEW x, NEW s, NEW first, IsWhole(x, m, s, first)
    PROVE  UNION Ends(use, s, first) = IF Going(x, m, first) = {} THEN {x[m]} ELSE {}
<1>1. Traces(use, s, first) = {[looped |-> Going(x, m, first) # {}, last |-> x[m], reached |-> m > 0]}
    BY TracesOfChain
<1>2. PICK t : t = [looped |-> Going(x, m, first) # {}, last |-> x[m], reached |-> m > 0]
    OBVIOUS
<1>3. (t.looped <=> Going(x, m, first) # {}) /\ t.last = x[m]
    BY <1>2
<1>4. Ends(use, s, first) = {IF t.looped THEN {} ELSE {t.last}}
    BY <1>1, <1>2 DEF Ends
<1> QED BY <1>3, <1>4

-----------------------------------------------------------------------------
(* The line of fibers a slot is on: the chains both ways *)

IsLine(s, x, m, y, n) == IsWhole(x, m, s, "Fiber") /\ IsWhole(y, n, s, "Port")
ChainTo(x, m, k) == {x[i] : i \in {i \in 0 .. m : i <= k}}
Around(S) == UNION {{t} \union Neighbours(t) : t \in S}

LEMMA LineExists ==
    ASSUME EachEndOnce, NEW s \in Used
    PROVE  \E m, n \in Nat : \E x, y : IsLine(s, x, m, y, n)
<1>1. PICK m, x : m \in Nat /\ IsWhole(x, m, s, "Fiber")
    BY ChainExists
<1>2. PICK n, y : n \in Nat /\ IsWhole(y, n, s, "Port")
    BY ChainExists
<1> QED BY <1>1, <1>2 DEF IsLine

LEMMA StartNeighbours ==
    ASSUME NEW s \in Used
    PROVE  Neighbours(s) = Hop(use, s, 1, "Fiber") \union Hop(use, s, 1, "Port")
BY DEF Hop, Neighbours, Used

(* What lies around the first part of a whole chain. *)
Grows(x, m, s, first, k) ==
    /\ s \in ChainTo(x, m, k - 1)
    /\ Hop(use, s, 1, first) \subseteq ChainTo(x, m, k)
    /\ \A t \in ChainTo(x, m, k - 1) : t # s => Neighbours(t) \subseteq ChainTo(x, m, k)
    /\ ChainTo(x, m, k - 1) \subseteq ChainTo(x, m, k)
    /\ ChainTo(x, m, k) \subseteq Around(ChainTo(x, m, k - 1))

LEMMA ChainGrowsAround ==
    ASSUME EachEndOnce, NEW m \in Nat, NEW x, NEW s, NEW first, IsWhole(x, m, s, first),
           NEW k \in Nat, k # 0
    PROVE  Grows(x, m, s, first, k)
<1>c. IsChain(x, m, s, first)
    BY DEF IsWhole
<1>0. x[0] = s
    BY <1>c DEF IsChain
<1>h. HopsStay(x, m, first)
    BY <1>c, ChainHops
<1>u. \A i \in 0 .. m : x[i] \in Used
    BY <1>h DEF HopsStay
<1>a. \A i \in 1 .. m : Hop(use, x[i - 1], i, first) = {x[i]}
    BY <1>h DEF HopsStay
<1>b. \A i \in 1 .. m : Hop(use, x[i], i, first) = {x[i - 1]}
    BY <1>h DEF HopsStay
<1>1. s \in ChainTo(x, m, k - 1)
    BY <1>0 DEF ChainTo
<1>2. Hop(use, s, 1, first) \subseteq ChainTo(x, m, k)
  <2>1. CASE m = 0
    <3>1. ASSUME NEW t \in Hop(use, x[m], m + 1, first) PROVE FALSE
        BY <2>1, Closing
    <3> QED BY <2>1, <3>1, <1>0
  <2>2. CASE m # 0
    <3>1. 1 \in 1 .. m /\ 1 - 1 = 0
        BY <2>2
    <3>2. Hop(use, s, 1, first) = {x[1]}
        BY <1>0, <1>a, <3>1
    <3> QED BY <3>1, <3>2 DEF ChainTo
  <2> QED BY <2>1, <2>2
<1>3. ASSUME NEW t \in ChainTo(x, m, k - 1), t # s
      PROVE  Neighbours(t) \subseteq ChainTo(x, m, k)
  <2>1. PICK i \in 0 .. m : t = x[i] /\ i <= k - 1
      BY DEF ChainTo
  <2>2. i \in 1 .. m /\ i \in Nat
      BY <1>0, <1>3, <2>1
  <2>3. Neighbours(t) = Hop(use, x[i], i, first) \union Hop(use, x[i], i + 1, first)
      BY <1>u, <2>1, <2>2, HopsAre
  <2>4. Hop(use, x[i], i, first) \subseteq ChainTo(x, m, k)
    <3>1. Hop(use, x[i], i, first) = {x[i - 1]} /\ i - 1 \in 0 .. m /\ i - 1 <= k
        BY <1>b, <2>1, <2>2
    <3> QED BY <3>1 DEF ChainTo
  <2>5. Hop(use, x[i], i + 1, first) \subseteq ChainTo(x, m, k)
    <3>1. CASE i = m
      <4>1. ASSUME NEW u \in Hop(use, x[m], m + 1, first) PROVE u = x[0]
          BY <1>0, Closing
      <4>2. x[0] \in ChainTo(x, m, k)
          BY DEF ChainTo
      <4> QED BY <3>1, <4>1, <4>2
    <3>2. CASE i # m
      <4>1. i + 1 \in 1 .. m /\ (i + 1) - 1 = i /\ i + 1 <= k
          BY <2>1, <2>2, <3>2
      <4>2. Hop(use, x[i], i + 1, first) = {x[i + 1]}
          BY <1>a, <4>1
      <4> QED BY <4>1, <4>2 DEF ChainTo
    <3> QED BY <3>1, <3>2
  <2> QED BY <2>3, <2>4, <2>5
<1>4. ChainTo(x, m, k - 1) \subseteq ChainTo(x, m, k)
    BY DEF ChainTo
<1>5. ASSUME NEW t \in ChainTo(x, m, k)
      PROVE  t \in Around(ChainTo(x, m, k - 1))
  <2>1. PICK i \in 0 .. m : t = x[i] /\ i <= k
      BY DEF ChainTo
  <2>2. CASE i = 0
    <3>1. t \in ChainTo(x, m, k - 1)
        BY <1>0, <1>1, <2>1, <2>2
    <3> QED BY <3>1 DEF Around
  <2>3. CASE i # 0
    <3>1. i \in 1 .. m /\ i - 1 \in 0 .. m /\ i - 1 <= k - 1 /\ i - 1 \in Nat /\ i - 1 + 1 = i
        BY <2>1, <2>3
    <3>2. x[i - 1] \in ChainTo(x, m, k - 1)
        BY <3>1 DEF ChainTo
    <3>3. Neighbours(x[i - 1]) = Hop(use, x[i - 1], i - 1, first) \union Hop(use, x[i - 1], i - 1 + 1, first)
        BY <1>u, <3>1, HopsAre
    <3>4. t \in Neighbours(x[i - 1])
        BY <1>a, <2>1, <3>1, <3>3
    <3> QED BY <3>2, <3>4 DEF Around
  <2> QED BY <2>2, <2>3
<1> QED BY <1>1, <1>2, <1>3, <1>4, <1>5 DEF Grows

LineTo(x, m, y, n, k) == ChainTo(x, m, k) \union ChainTo(y, n, k)

LEMMA LineStep ==
    ASSUME EachEndOnce, NEW m \in Nat, NEW n \in Nat, NEW x, NEW y, NEW s \in Used, IsLine(s, x, m, y, n),
           NEW k \in Nat, k # 0
    PROVE  LineTo(x, m, y, n, k) = Around(LineTo(x, m, y, n, k - 1))
<1>1. Grows(x, m, s, "Fiber", k)
    BY ChainGrowsAround DEF IsLine
<1>2. Grows(y, n, s, "Port", k)
    BY ChainGrowsAround DEF IsLine
<1>3. Neighbours(s) = Hop(use, s, 1, "Fiber") \union Hop(use, s, 1, "Port")
    BY StartNeighbours
<1>4. ASSUME NEW t \in LineTo(x, m, y, n, k - 1)
      PROVE  {t} \union Neighbours(t) \subseteq LineTo(x, m, y, n, k)
  <2>1. CASE t = s
      BY <1>1, <1>2, <1>3, <2>1 DEF Grows, LineTo
  <2>2. CASE t # s
      BY <1>1, <1>2, <2>2 DEF Grows, LineTo
  <2> QED BY <2>1, <2>2
<1>5. Around(ChainTo(x, m, k - 1)) \subseteq Around(LineTo(x, m, y, n, k - 1))
    BY DEF Around, LineTo
<1>6. Around(ChainTo(y, n, k - 1)) \subseteq Around(LineTo(x, m, y, n, k - 1))
    BY DEF Around, LineTo
<1>7. LineTo(x, m, y, n, k) \subseteq Around(LineTo(x, m, y, n, k - 1))
    BY <1>1, <1>2, <1>5, <1>6 DEF Grows, LineTo
<1>8. Around(LineTo(x, m, y, n, k - 1)) \subseteq LineTo(x, m, y, n, k)
    BY <1>4 DEF Around
<1> QED BY <1>7, <1>8

IsReach(reach, s, hops) ==
    reach = [n \in 0 .. hops |-> IF n = 0 THEN {s} ELSE Around(reach[n - 1])]

LEMMA ReachIs ==
    ASSUME NEW s, \E reach : IsReach(reach, s, Cardinality(Used))
    PROVE  \E reach : IsReach(reach, s, Cardinality(Used)) /\ Reach(s) = reach[Cardinality(Used)]
<1> DEFINE P(reach) ==
        reach = [n \in 0 .. Cardinality({t \in Slot : use[t] \in Fiber}) |->
                    IF n = 0 THEN {s}
                    ELSE UNION {{t} \union Neighbours(t) : t \in reach[n - 1]}]
<1>1. \A reach : IsReach(reach, s, Cardinality(Used)) <=> P(reach)
    BY DEF IsReach, Around, Used
<1>2. Reach(s) = (CHOOSE reach : P(reach))[Cardinality(Used)]
    BY DEF Reach, Used
<1> HIDE DEF P
<1>3. P(CHOOSE reach : P(reach))
    BY <1>1
<1> QED BY <1>1, <1>2, <1>3

LEMMA ReachIsLine ==
    ASSUME EachEndOnce, NEW m \in Nat, NEW n \in Nat, NEW x, NEW y, NEW s \in Used, IsLine(s, x, m, y, n)
    PROVE  Reach(s) = Passed(x, m) \union Passed(y, n)
<1> DEFINE hops == Cardinality(Used)
           line(k) == LineTo(x, m, y, n, k)
           given == [k \in 0 .. hops |-> line(k)]
<1>1. hops \in Nat /\ m + 1 <= hops /\ n + 1 <= hops
  <2>1. IsChain(x, m, s, "Fiber") /\ IsChain(y, n, s, "Port")
      BY DEF IsLine, IsWhole
  <2> QED BY <2>1, UsedFinite, ChainLength
<1>2. line(0) = {s}
  <2>1. x[0] = s /\ y[0] = s
      BY DEF IsLine, IsWhole, IsChain
  <2>2. {i \in 0 .. m : i <= 0} = {0} /\ {i \in 0 .. n : i <= 0} = {0}
      OBVIOUS
  <2> QED BY <2>1, <2>2 DEF LineTo, ChainTo
<1>3. \A k \in Nat \ {0} : line(k) = Around(line(k - 1))
    BY LineStep
<1>9. line(hops) = Passed(x, m) \union Passed(y, n)
  <2>1. {i \in 0 .. m : i <= hops} = 0 .. m /\ {i \in 0 .. n : i <= hops} = 0 .. n
      BY <1>1
  <2> QED BY <2>1 DEF LineTo, ChainTo, Passed
<1> HIDE DEF hops, line
<1>4. IsReach(given, s, hops)
  <2>1. \A k \in 0 .. hops : given[k] = line(k)
      OBVIOUS
  <2>2. \A k \in 0 .. hops : k # 0 => given[k - 1] = line(k - 1) /\ k \in Nat \ {0}
      BY <1>1
  <2>3. given = [k \in 0 .. hops |-> IF k = 0 THEN {s} ELSE Around(given[k - 1])]
      BY <1>2, <1>3, <2>2
  <2> QED BY <2>3 DEF IsReach
<1>5. PICK reach : IsReach(reach, s, hops) /\ Reach(s) = reach[hops]
    BY <1>4, ReachIs DEF hops
<1>6. \A k \in 0 .. hops : reach[k] = IF k = 0 THEN {s} ELSE Around(reach[k - 1])
    BY <1>5 DEF IsReach
<1> DEFINE Wrong == {k \in 0 .. hops : reach[k] # line(k)}
<1>7. Wrong = {}
  <2> SUFFICES ASSUME Wrong # {} PROVE FALSE
      OBVIOUS
  <2>1. Wrong \in SUBSET Nat
      BY <1>1
  <2>2. PICK k \in Wrong : \A j \in Wrong : k <= j
      BY <2>1, Smallest
  <2>3. k # 0
      BY <1>1, <1>2, <1>6, <2>2
  <2>4. k - 1 \in 0 .. hops /\ k - 1 \notin Wrong /\ k \in Nat \ {0} /\ k \in 0 .. hops
      BY <1>1, <2>2, <2>3
  <2>5. reach[k - 1] = line(k - 1)
      BY <2>4
  <2>6. reach[k] = line(k)
      BY <1>3, <1>6, <2>4, <2>5
  <2> QED BY <2>2, <2>6
<1>8. reach[hops] = line(hops)
    BY <1>1, <1>7
<1> QED BY <1>5, <1>8, <1>9

LEMMA NeighboursBack ==
    ASSUME NEW s \in Used, NEW t \in Neighbours(s)
    PROVE  t \in Used /\ s \in Neighbours(t)
<1>1. t \in AlongFiber(use, s) \/ t \in ThroughPort(use, s)
    BY DEF Neighbours, Used
<1>2. t \in Used /\ (s \in AlongFiber(use, t) \/ s \in ThroughPort(use, t))
    BY <1>1, AlongBack, ThroughBack
<1> QED BY <1>2 DEF Neighbours, Used

Closed(C) == \A t \in C : Neighbours(t) \subseteq C

LEMMA ChainStays ==
    ASSUME NEW C, Closed(C), NEW s \in C, NEW m \in Nat, NEW x, NEW first, IsChain(x, m, s, first)
    PROVE  Passed(x, m) \subseteq C
<1> DEFINE Out == {i \in 0 .. m : x[i] \notin C}
<1>1. Out = {}
  <2> SUFFICES ASSUME Out # {} PROVE FALSE
      OBVIOUS
  <2>0. Out \in SUBSET Nat
      OBVIOUS
  <2>1. PICK i \in Out : \A j \in Out : i <= j
      BY <2>0, Smallest
  <2>2. x[0] = s /\ x \in [0 .. m -> Used] /\ \A j \in 1 .. m : x[j] \in Hop(use, x[j - 1], j, first)
      BY DEF IsChain
  <2>3. i \in 1 .. m /\ i - 1 \in 0 .. m /\ i - 1 \notin Out
      BY <2>1, <2>2
  <2>4. x[i - 1] \in C /\ x[i - 1] \in Used /\ x[i] \in Hop(use, x[i - 1], i, first)
      BY <2>2, <2>3
  <2>5. x[i] \in Neighbours(x[i - 1])
      BY <2>4 DEF Hop, Neighbours, Used
  <2>6. x[i] \in C
      BY <2>4, <2>5 DEF Closed
  <2> QED BY <2>1, <2>6
<1> QED BY <1>1 DEF Passed

(* What is reached is the least closed set. *)
LEMMA ReachClosed ==
    ASSUME EachEndOnce, NEW s \in Used
    PROVE  s \in Reach(s) /\ Reach(s) \subseteq Used /\ Closed(Reach(s))
<1>1. PICK m \in Nat, n \in Nat : \E x, y : IsLine(s, x, m, y, n)
    BY LineExists
<1>line. PICK x, y : IsLine(s, x, m, y, n)
    BY <1>1
<1>2. Reach(s) = Passed(x, m) \union Passed(y, n)
    BY <1>line, ReachIsLine
<1>3. IsChain(x, m, s, "Fiber") /\ IsChain(y, n, s, "Port")
    BY <1>line DEF IsLine, IsWhole
<1>4. s \in Reach(s) /\ Reach(s) \subseteq Used
    BY <1>2, <1>3 DEF IsChain, Passed
<1>5. Reach(s) = Around(Reach(s))
  <2> DEFINE k == m + n + 1
  <2>1. k \in Nat /\ k # 0 /\ k - 1 = m + n
      OBVIOUS
  <2>2. LineTo(x, m, y, n, k) = Around(LineTo(x, m, y, n, k - 1))
      BY <1>line, <2>1, LineStep
  <2>3. /\ {i \in 0 .. m : i <= m + n + 1} = 0 .. m /\ {i \in 0 .. n : i <= m + n + 1} = 0 .. n
        /\ {i \in 0 .. m : i <= m + n} = 0 .. m /\ {i \in 0 .. n : i <= m + n} = 0 .. n
      OBVIOUS
  <2>4. LineTo(x, m, y, n, k) = Reach(s) /\ LineTo(x, m, y, n, k - 1) = Reach(s)
      BY <1>2, <2>1, <2>3 DEF LineTo, ChainTo, Passed
  <2> QED BY <2>2, <2>4
<1> QED BY <1>4, <1>5 DEF Around, Closed

LEMMA ReachLeast ==
    ASSUME EachEndOnce, NEW s \in Used, NEW C, Closed(C), s \in C
    PROVE  Reach(s) \subseteq C
<1>1. PICK m \in Nat, n \in Nat : \E x, y : IsLine(s, x, m, y, n)
    BY LineExists
<1>line. PICK x, y : IsLine(s, x, m, y, n)
    BY <1>1
<1>2. Reach(s) = Passed(x, m) \union Passed(y, n)
    BY <1>line, ReachIsLine
<1>3. IsChain(x, m, s, "Fiber") /\ IsChain(y, n, s, "Port")
    BY <1>line DEF IsLine, IsWhole
<1> QED BY <1>2, <1>3, ChainStays

(* So it is the same from each slot of it. *)
LEMMA ReachSame ==
    ASSUME EachEndOnce, NEW s \in Used, NEW t \in Reach(s)
    PROVE  t \in Used /\ Reach(t) = Reach(s)
<1>1. t \in Used /\ Closed(Reach(s))
    BY ReachClosed
<1>2. Reach(t) \subseteq Reach(s)
    BY <1>1, ReachLeast
<1>3. s \in Reach(t)
  <2> SUFFICES ASSUME s \notin Reach(t) PROVE FALSE
      OBVIOUS
  <2>1. Closed(Reach(t)) /\ t \in Reach(t)
      BY <1>1, ReachClosed
  <2> DEFINE C == Used \ Reach(t)
  <2>2. Closed(C)
      BY <2>1, NeighboursBack DEF Closed
  <2>3. s \in C
      OBVIOUS
  <2> HIDE DEF C
  <2>4. Reach(s) \subseteq C
      BY <2>2, <2>3, ReachLeast
  <2> QED BY <2>1, <2>4 DEF C
<1>4. Closed(Reach(t))
    BY <1>1, ReachClosed
<1>5. Reach(s) \subseteq Reach(t)
    BY <1>3, <1>4, ReachLeast
<1> QED BY <1>1, <1>2, <1>5

(* If a chain closes, its slots are a circle. *)
Many(t) == ~ (Cardinality(Neighbours(t)) <= 1)

LEMMA ManyIs ==
    ASSUME EachEndOnce, NEW t \in Used, NEW n \in Nat, NEW first
    PROVE  Many(t) <=> Hop(use, t, n, first) # {} /\ Hop(use, t, n + 1, first) # {}
BY Degree DEF Many

LEMMA InnerMany ==
    ASSUME EachEndOnce, NEW m \in Nat, NEW x, NEW s, NEW first, IsChain(x, m, s, first),
           NEW i \in 1 .. m, i # m
    PROVE  Many(x[i])
<1>h. HopsStay(x, m, first)
    BY ChainHops
<1>1. i + 1 \in 1 .. m /\ (i + 1) - 1 = i /\ i \in Nat /\ i \in 0 .. m
    OBVIOUS
<1>2. Hop(use, x[i], i, first) = {x[i - 1]} /\ Hop(use, x[i], i + 1, first) = {x[i + 1]} /\ x[i] \in Used
    BY <1>h, <1>1 DEF HopsStay
<1> QED BY <1>1, <1>2, ManyIs

LEMMA LastMany ==
    ASSUME EachEndOnce, NEW m \in Nat, m # 0, NEW x, NEW s, NEW first, IsChain(x, m, s, first)
    PROVE  Many(x[m]) <=> Going(x, m, first) # {}
<1>h. HopsStay(x, m, first)
    BY ChainHops
<1>1. m \in 1 .. m /\ m \in 0 .. m
    OBVIOUS
<1>2. Hop(use, x[m], m, first) = {x[m - 1]} /\ x[m] \in Used
    BY <1>h, <1>1 DEF HopsStay
<1> QED BY <1>2, ManyIs DEF Going

LEMMA StartMany ==
    ASSUME EachEndOnce, NEW m \in Nat, NEW n \in Nat, NEW x, NEW y, NEW s \in Used, IsLine(s, x, m, y, n)
    PROVE  Many(s) <=> m # 0 /\ n # 0
<1>1. Many(s) <=> Hop(use, s, 0, "Fiber") # {} /\ Hop(use, s, 1, "Fiber") # {}
  <2>1. 0 \in Nat /\ 0 + 1 = 1
      OBVIOUS
  <2> QED BY <2>1, ManyIs
<1>2. Hop(use, s, 0, "Fiber") = Hop(use, s, 1, "Port")
    BY DEF Hop
<1>3. ASSUME NEW k \in Nat, NEW z, NEW first, IsWhole(z, k, s, first)
      PROVE  Hop(use, s, 1, first) # {} <=> k # 0
  <2>1. z[0] = s /\ \A i \in 1 .. k : z[i] \in Hop(use, z[i - 1], i, first)
      BY <1>3 DEF IsWhole, IsChain
  <2>2. CASE k = 0
    <3>1. ASSUME NEW t \in Hop(use, z[k], k + 1, first) PROVE FALSE
        BY <1>3, <2>2, Closing
    <3> QED BY <2>1, <2>2, <3>1
  <2>3. CASE k # 0
    <3>1. 1 \in 1 .. k /\ 1 - 1 = 0
        BY <2>3
    <3> QED BY <2>1, <2>3, <3>1
  <2> QED BY <2>2, <2>3
<1> QED BY <1>1, <1>2, <1>3 DEF IsLine

LEMMA Circle ==
    ASSUME EachEndOnce, NEW m \in Nat, NEW x, NEW s \in Used, NEW first, IsWhole(x, m, s, first),
           Going(x, m, first) # {}
    PROVE  Closed(Passed(x, m)) /\ \A t \in Passed(x, m) : Many(t)
<1>c. IsChain(x, m, s, first)
    BY DEF IsWhole
<1>0. x[0] = s
    BY <1>c DEF IsChain
<1>h. HopsStay(x, m, first)
    BY <1>c, ChainHops
<1>1. m # 0 /\ (m + 1) % 2 = 0 /\ Hop(use, x[m], m + 1, first) = {s}
    BY Closing DEF Going
<1>2. x[m] \in Used /\ m + 1 \in Nat
    BY <1>h DEF HopsStay
<1>3. Hop(use, s, m + 1, first) = {x[m]}
  <2>1. x[m] \in Hop(use, s, m + 1, first)
      BY <1>1, <1>2, HopOne
  <2> QED BY <1>2, <2>1, HopOne
<1>4. Hop(use, s, 0, first) = {x[m]}
  <2>1. Hop(use, s, m + 1, first) = Hop(use, s, 0, first)
      BY <1>1, HopParity
  <2> QED BY <1>3, <2>1
<1>5. Hop(use, s, 1, first) = {x[1]} /\ 1 \in 0 .. m
  <2>1. 1 \in 1 .. m /\ 1 - 1 = 0
      BY <1>1
  <2> QED BY <1>0, <1>h, <2>1 DEF HopsStay
<1>6. Many(s) /\ Neighbours(s) = {x[m]} \union {x[1]}
  <2>1. 0 \in Nat /\ 0 + 1 = 1
      OBVIOUS
  <2>2. Neighbours(s) = Hop(use, s, 0, first) \union Hop(use, s, 0 + 1, first)
      BY HopsAre
  <2>3. Many(s) <=> Hop(use, s, 0, first) # {} /\ Hop(use, s, 0 + 1, first) # {}
      BY ManyIs
  <2> QED BY <1>4, <1>5, <2>1, <2>2, <2>3
<1>7. ASSUME NEW t \in Passed(x, m), t # s
      PROVE  Many(t) /\ Neighbours(t) \subseteq Passed(x, m)
  <2>1. PICK i \in 1 .. m : t = x[i]
      BY <1>0, <1>7 DEF Passed
  <2>2. Many(t)
    <3>1. CASE i = m
        BY <1>c, <1>1, <2>1, <3>1, LastMany
    <3>2. CASE i # m
        BY <1>c, <2>1, <3>2, InnerMany
    <3> QED BY <3>1, <3>2
  <2>3. m + 1 \in Nat /\ m + 1 # 0 /\ (m + 1) - 1 = m
      OBVIOUS
  <2>4. Grows(x, m, s, first, m + 1)
      BY <2>3, ChainGrowsAround
  <2>5. ChainTo(x, m, m) = Passed(x, m) /\ ChainTo(x, m, m + 1) = Passed(x, m)
    <3>1. {j \in 0 .. m : j <= m} = 0 .. m /\ {j \in 0 .. m : j <= m + 1} = 0 .. m
        OBVIOUS
    <3> QED BY <3>1 DEF ChainTo, Passed
  <2>6. Neighbours(t) \subseteq Passed(x, m)
      BY <1>7, <2>3, <2>4, <2>5 DEF Grows
  <2> QED BY <2>2, <2>6
<1>8. {x[m]} \union {x[1]} \subseteq Passed(x, m)
    BY <1>5 DEF Passed
<1> QED BY <1>6, <1>7, <1>8 DEF Closed

(* If one of the chains of a line closes, so does the other. *)
LEMMA CircleBoth ==
    ASSUME EachEndOnce, NEW s \in Used,
           NEW m \in Nat, NEW x, NEW first, IsWhole(x, m, s, first), Going(x, m, first) # {},
           NEW n \in Nat, NEW y, NEW other, IsWhole(y, n, s, other)
    PROVE  Going(y, n, other) # {} /\ \A t \in Passed(y, n) : Many(t)
<1>1. Closed(Passed(x, m)) /\ \A t \in Passed(x, m) : Many(t)
    BY Circle
<1>2. s \in Passed(x, m)
    BY DEF IsWhole, IsChain, Passed
<1>3. IsChain(y, n, s, other)
    BY DEF IsWhole
<1>4. Passed(y, n) \subseteq Passed(x, m)
    BY <1>1, <1>2, <1>3, ChainStays
<1>5. y[n] \in Passed(y, n) /\ y[n] \in Used
    BY <1>3 DEF Passed, IsChain
<1>6. Many(y[n])
    BY <1>1, <1>4, <1>5
<1>7. Hop(use, y[n], n + 1, other) # {}
    BY <1>5, <1>6, ManyIs
<1> QED BY <1>1, <1>4, <1>7 DEF Going

(* The ends of the line. *)
EndSlots(s) == {t \in Reach(s) : Cardinality(Neighbours(t)) <= 1}

LEMMA LineEnds ==
    ASSUME EachEndOnce, NEW m \in Nat, NEW n \in Nat, NEW x, NEW y, NEW s \in Used, IsLine(s, x, m, y, n)
    PROVE  /\ Going(x, m, "Fiber") # {} <=> Going(y, n, "Port") # {}
           /\ Going(x, m, "Fiber") # {} => EndSlots(s) = {}
           /\ Going(x, m, "Fiber") = {} => EndSlots(s) = {x[m], y[n]}
<1>w. IsWhole(x, m, s, "Fiber") /\ IsWhole(y, n, s, "Port")
    BY DEF IsLine
<1>c. IsChain(x, m, s, "Fiber") /\ IsChain(y, n, s, "Port") /\ x[0] = s /\ y[0] = s
    BY <1>w DEF IsWhole, IsChain
<1>1. Going(x, m, "Fiber") # {} <=> Going(y, n, "Port") # {}
    BY <1>w, CircleBoth
<1>2. Reach(s) = Passed(x, m) \union Passed(y, n)
    BY ReachIsLine
<1>3. ASSUME Going(x, m, "Fiber") # {}
      PROVE  EndSlots(s) = {}
  <2>1. \A t \in Passed(x, m) : Many(t)
      BY <1>w, <1>3, CircleBoth
  <2>2. \A t \in Passed(y, n) : Many(t)
      BY <1>w, <1>3, CircleBoth
  <2> QED BY <1>2, <2>1, <2>2 DEF EndSlots, Many
<1>4. ASSUME Going(x, m, "Fiber") = {}
      PROVE  EndSlots(s) = {x[m], y[n]}
  <2>0. Going(y, n, "Port") = {}
      BY <1>1, <1>4
  <2>1. Many(s) <=> m # 0 /\ n # 0
      BY StartMany
  <2>2. ~ Many(x[m])
      BY <1>c, <1>4, <2>1, LastMany
  <2>3. ~ Many(y[n])
      BY <1>c, <2>0, <2>1, LastMany
  <2>4. ASSUME NEW t \in Passed(x, m), t # x[m], t # y[n] PROVE Many(t)
    <3>1. PICK i \in 0 .. m : t = x[i]
        BY DEF Passed
    <3>2. CASE i = 0
        BY <1>c, <2>1, <2>4, <3>1, <3>2
    <3>3. CASE i # 0
      <4>1. i \in 1 .. m /\ i # m
          BY <2>4, <3>1, <3>3
      <4> QED BY <1>c, <3>1, <4>1, InnerMany
    <3> QED BY <3>2, <3>3
  <2>5. ASSUME NEW t \in Passed(y, n), t # x[m], t # y[n] PROVE Many(t)
    <3>1. PICK i \in 0 .. n : t = y[i]
        BY DEF Passed
    <3>2. CASE i = 0
        BY <1>c, <2>1, <2>5, <3>1, <3>2
    <3>3. CASE i # 0
      <4>1. i \in 1 .. n /\ i # n
          BY <2>5, <3>1, <3>3
      <4> QED BY <1>c, <3>1, <4>1, InnerMany
    <3> QED BY <3>2, <3>3
  <2>6. x[m] \in Passed(x, m) /\ y[n] \in Passed(y, n)
      BY DEF Passed
  <2> QED BY <1>2, <2>2, <2>3, <2>4, <2>5, <2>6 DEF EndSlots, Many
<1> QED BY <1>1, <1>3, <1>4

LEMMA SignalEnds ==
    SignalEndsAgree
<1> SUFFICES ASSUME EachEndOnce, NEW s \in Slot, use[s] \in Fiber
             PROVE  UNION (Ends(use, s, "Fiber") \union Ends(use, s, "Port")) = EndSlots(s)
    BY DEF SignalEndsAgree, EndSlots
<1>1. s \in Used
    BY DEF Used
<1>2. PICK m \in Nat, n \in Nat : \E x, y : IsLine(s, x, m, y, n)
    BY <1>1, LineExists
<1>line. PICK x, y : IsLine(s, x, m, y, n)
    BY <1>2
<1>3. UNION Ends(use, s, "Fiber") = IF Going(x, m, "Fiber") = {} THEN {x[m]} ELSE {}
    BY <1>line, EndsOfChain DEF IsLine
<1>4. UNION Ends(use, s, "Port") = IF Going(y, n, "Port") = {} THEN {y[n]} ELSE {}
    BY <1>line, EndsOfChain DEF IsLine
<1>5. /\ Going(x, m, "Fiber") # {} <=> Going(y, n, "Port") # {}
      /\ Going(x, m, "Fiber") # {} => EndSlots(s) = {}
      /\ Going(x, m, "Fiber") = {} => EndSlots(s) = {x[m], y[n]}
    BY <1>1, <1>line, LineEnds
<1>6. UNION (Ends(use, s, "Fiber") \union Ends(use, s, "Port"))
        = (UNION Ends(use, s, "Fiber")) \union (UNION Ends(use, s, "Port"))
    OBVIOUS
<1> QED BY <1>3, <1>4, <1>5, <1>6

-----------------------------------------------------------------------------
(* What the pairs noted and the connectors taken mean *)

Connector(p) == p \in Port /\ PortType[p] = "Connector"
Traced(p, q) == use[Back(p)] \in Fiber /\ EndsAtPort(p, q)
Skipped(p) ==
    \/ use[Back(p)] = Removed
    \/ use[Back(p)] \in Fiber /\ \E t \in TracesOf(p) : ~ t.looped /\ ~ t.reached
Paired(p) == \E pair \in port_pairs : pair[3] = p

(* A pair is two connectors taken, one of which was traced to the other;   *)
(* both ways are noted.                                                    *)
IsNoted(pair) ==
    /\ pair[3] # pair[4]
    /\ Connector(pair[3]) /\ Connector(pair[4])
    /\ pair[3] \notin remaining /\ pair[4] \notin remaining
    /\ Traced(pair[3], pair[4]) \/ Traced(pair[4], pair[3])
    /\ <<pair[2], pair[1], pair[4], pair[3]>> \in port_pairs
PairsNoted == \A pair \in port_pairs : IsNoted(pair)

(* A connector is in one pair only; the ones taken are in one, if there    *)
(* was no issue and something was attached.                                *)
PairedOnce == \A a, b \in port_pairs : a[3] = b[3] => a = b
RemainingConnectors == \A p \in remaining : Connector(p)
TakenPaired ==
    issues = {} => \A p \in Port : Connector(p) /\ p \notin remaining => Skipped(p) \/ Paired(p)
PlannedDone ==
    pc = "planned" => /\ remaining = {} /\ circuits = Built
                      /\ issues = {} => Asymmetric = {} /\ Returning = {}

LinkInv == PairsNoted /\ PairedOnce /\ RemainingConnectors /\ TakenPaired /\ PlannedDone

(* A step that takes connectors and notes no pair. *)
LEMMA TakenOnly ==
    ASSUME LinkInv, pc = "tracing", UNCHANGED <<use, netbox_port, port_pairs, pc>>,
           NEW p \in remaining, remaining' = remaining \ {p},
           issues' = {} => issues = {} /\ Skipped(p)
    PROVE  LinkInv'
<1> USE DEF LinkInv
<1>1. PairsNoted'
  <2> SUFFICES ASSUME NEW pair \in port_pairs PROVE IsNoted(pair)'
      BY DEF PairsNoted
  <2>1. IsNoted(pair)
      BY DEF PairsNoted
  <2> QED BY <2>1 DEF IsNoted, Traced, Connector, EndsAtPort, TracesOf
<1>2. PairedOnce' /\ RemainingConnectors' /\ PlannedDone'
    BY DEF PairedOnce, RemainingConnectors, PlannedDone, Connector
<1>3. TakenPaired'
  <2> SUFFICES ASSUME issues' = {}, NEW q \in Port, Connector(q), q \notin remaining'
               PROVE  Skipped(q)' \/ Paired(q)'
      BY DEF TakenPaired, Connector
  <2>1. Skipped(q) \/ Paired(q)
      BY DEF TakenPaired
  <2> QED BY <2>1 DEF Skipped, Paired, TracesOf
<1> QED BY <1>1, <1>2, <1>3

LEMMA LinkInvStep ==
    ASSUME PlanInv, LinkInv, [Next]_vars
    PROVE  LinkInv'
<1> USE DEF LinkInv
<1>1. ASSUME NEW p \in Port, SkipPort(p) PROVE LinkInv'
  <2>1. /\ pc = "tracing" /\ p \in remaining /\ remaining' = remaining \ {p}
        /\ UNCHANGED <<use, netbox_port, port_pairs, issues, circuits, pc>>
        /\ Skipped(p)
      BY <1>1 DEF SkipPort, Take, Skipped
  <2> QED BY <2>1, TakenOnly
<1>2. ASSUME NEW p \in Port, ReportLoop(p) PROVE LinkInv'
  <2>1. /\ pc = "tracing" /\ p \in remaining /\ remaining' = remaining \ {p}
        /\ UNCHANGED <<use, netbox_port, port_pairs, circuits, pc>>
        /\ issues' # {}
      BY <1>2 DEF ReportLoop, Take
  <2> QED BY <2>1, TakenOnly
<1>3. ASSUME NEW p \in Port, ReportTarget(p) PROVE LinkInv'
  <2>1. /\ pc = "tracing" /\ p \in remaining /\ remaining' = remaining \ {p}
        /\ UNCHANGED <<use, netbox_port, port_pairs, circuits, pc>>
        /\ issues' # {}
      BY <1>3 DEF ReportTarget, Take
  <2> QED BY <2>1, TakenOnly
<1>4. ASSUME NEW p \in Port, PairPorts(p) PROVE LinkInv'
  <2>1. PICK q \in remaining \ {p} :
            /\ EndsAtPort(p, q)
            /\ remaining' = remaining \ {p, q}
            /\ issues' = issues \union
                   {At("MissingNetboxReference", o) : o \in {o \in {p, q} : netbox_port[o] = NoRearPort}}
            /\ port_pairs' = IF NoRearPort \in {netbox_port[p], netbox_port[q]} THEN port_pairs
                             ELSE port_pairs \union {<<netbox_port[p], netbox_port[q], p, q>>,
                                                     <<netbox_port[q], netbox_port[p], q, p>>}
      BY <1>4 DEF PairPorts
  <2>2. /\ pc = "tracing" /\ p \in remaining /\ use[Back(p)] \in Fiber
        /\ UNCHANGED <<use, netbox_port, circuits, pc>>
      BY <1>4 DEF PairPorts, Take
  <2>3. Connector(p) /\ Connector(q) /\ Traced(p, q) /\ p # q
      BY <2>1, <2>2 DEF RemainingConnectors, Traced
  <2>4. ASSUME NEW a \in port_pairs PROVE IsNoted(a) /\ a[3] \notin {p, q} /\ a[4] \notin {p, q}
      BY <2>1, <2>2 DEF PairsNoted, IsNoted
  <2>5. port_pairs \subseteq port_pairs'
      BY <2>1
  <2>6. ASSUME NEW a, IsNoted(a), UNCHANGED use, port_pairs \subseteq port_pairs', remaining' \subseteq remaining
        PROVE  IsNoted(a)'
      BY <2>6 DEF IsNoted, Traced, Connector, EndsAtPort, TracesOf
  <2>a. PICK a : a = <<netbox_port[p], netbox_port[q], p, q>>
      OBVIOUS
  <2>b. PICK b : b = <<netbox_port[q], netbox_port[p], q, p>>
      OBVIOUS
  <2>7. CASE NoRearPort \in {netbox_port[p], netbox_port[q]}
    <3>1. port_pairs' = port_pairs
        BY <2>1, <2>7
    <3>2. PairsNoted'
        BY <2>1, <2>2, <2>4, <2>6, <3>1 DEF PairsNoted
    <3>3. issues' # {}
      <4>1. PICK o \in {p, q} : netbox_port[o] = NoRearPort
          BY <2>7
      <4>2. At("MissingNetboxReference", o) \in issues'
          BY <2>1, <4>1
      <4> QED BY <4>2
    <3>4. PairedOnce' /\ RemainingConnectors' /\ PlannedDone' /\ TakenPaired'
        BY <2>1, <2>2, <3>1, <3>3 DEF PairedOnce, RemainingConnectors, PlannedDone, TakenPaired, Connector
    <3> QED BY <3>2, <3>4
  <2>8. CASE NoRearPort \notin {netbox_port[p], netbox_port[q]}
    <3>1. port_pairs' = port_pairs \union {a, b}
        BY <2>1, <2>8, <2>a, <2>b
    <3>2. PairsNoted'
      <4>1. \A c \in port_pairs : IsNoted(c)'
          BY <2>1, <2>2, <2>4, <2>5, <2>6
      <4>2. (Connector(p) /\ Connector(q) /\ Traced(p, q))'
          BY <2>2, <2>3 DEF Connector, Traced, EndsAtPort, TracesOf
      <4>3. p \notin remaining' /\ q \notin remaining' /\ a \in port_pairs' /\ b \in port_pairs'
          BY <2>1, <3>1
      <4>4. a[1] = netbox_port[p] /\ a[2] = netbox_port[q] /\ a[3] = p /\ a[4] = q
          BY <2>a
      <4>5. b[1] = netbox_port[q] /\ b[2] = netbox_port[p] /\ b[3] = q /\ b[4] = p
          BY <2>b
      <4>6. <<a[2], a[1], a[4], a[3]>> = b /\ <<b[2], b[1], b[4], b[3]>> = a
          BY <2>a, <2>b
      <4>7. IsNoted(a)'
          BY <2>3, <4>2, <4>3, <4>4, <4>6 DEF IsNoted
      <4>8. IsNoted(b)'
          BY <2>3, <4>2, <4>3, <4>5, <4>6 DEF IsNoted
      <4> QED BY <3>1, <4>1, <4>7, <4>8 DEF PairsNoted
    <3>3. PairedOnce'
      <4>1. a[3] = p /\ b[3] = q
          BY <2>a, <2>b
      <4> QED BY <2>3, <2>4, <3>1, <4>1 DEF PairedOnce
    <3>4. RemainingConnectors' /\ PlannedDone'
        BY <2>1, <2>2 DEF RemainingConnectors, PlannedDone, Connector
    <3>5. TakenPaired'
      <4> SUFFICES ASSUME issues' = {}, NEW o \in Port, Connector(o), o \notin remaining'
                   PROVE  Skipped(o)' \/ Paired(o)'
          BY DEF TakenPaired, Connector
      <4>1. issues = {}
          BY <2>1
      <4>2. CASE o \in {p, q}
        <5>1. a[3] = p /\ b[3] = q
            BY <2>a, <2>b
        <5> QED BY <3>1, <4>2, <5>1 DEF Paired
      <4>3. CASE o \notin {p, q}
        <5>1. Skipped(o) \/ Paired(o)
            BY <2>1, <4>1, <4>3 DEF TakenPaired
        <5>2. Skipped(o) => Skipped(o)'
            BY <2>2 DEF Skipped, TracesOf
        <5>3. Paired(o) => Paired(o)'
            BY <2>5 DEF Paired
        <5> QED BY <5>1, <5>2, <5>3
      <4> QED BY <4>2, <4>3
    <3> QED BY <3>2, <3>3, <3>4, <3>5
  <2> QED BY <2>7, <2>8
<1>5. ASSUME BuildCircuits PROVE LinkInv'
  <2>1. /\ circuits' = Built /\ pc' = "planned" /\ remaining = {}
        /\ UNCHANGED <<use, netbox_port, remaining, port_pairs>>
      BY <1>5 DEF BuildCircuits, Built
  <2>2. PICK reported \in [Returning -> Port] :
            issues' = issues \union {At("AsymmetricDuplex", r) : r \in Asymmetric}
                             \union {At("RoutingLoop", reported[r]) : r \in Returning}
      BY <1>5 DEF BuildCircuits
  <2>3. issues' = {} => issues = {} /\ Asymmetric = {} /\ Returning = {}
      BY <2>2
  <2>4. PairsNoted'
      BY <2>1 DEF PairsNoted, IsNoted, Traced, Connector, EndsAtPort, TracesOf
  <2>5. PairedOnce' /\ RemainingConnectors'
      BY <2>1 DEF PairedOnce, RemainingConnectors, Connector
  <2>6. TakenPaired'
      BY <2>1, <2>3 DEF TakenPaired, Skipped, Paired, TracesOf, Connector
  <2>7. Built' = Built /\ Asymmetric' = Asymmetric /\ Returning' = Returning
      BY <2>1 DEF Built, MutualPairs, Connections, Partners, Asymmetric, Returning
  <2>8. PlannedDone'
      BY <2>1, <2>3, <2>7 DEF PlannedDone
  <2> QED BY <2>4, <2>5, <2>6, <2>8
<1>6. CASE UNCHANGED vars
  <2>1. UNCHANGED <<use, netbox_port, remaining, port_pairs, issues, circuits, pc>>
      BY <1>6 DEF vars
  <2>2. PairsNoted' /\ PairedOnce' /\ RemainingConnectors'
      BY <2>1 DEF PairsNoted, IsNoted, Traced, Connector, EndsAtPort, TracesOf, PairedOnce, RemainingConnectors
  <2>3. TakenPaired'
      BY <2>1 DEF TakenPaired, Skipped, Paired, TracesOf, Connector
  <2>4. PlannedDone'
      BY <2>1 DEF PlannedDone, Built, MutualPairs, Connections, Partners, Asymmetric, Returning
  <2> QED BY <2>2, <2>3, <2>4
<1> QED BY <1>1, <1>2, <1>3, <1>4, <1>5, <1>6 DEF Next, TakePort

LEMMA LinkInvInit ==
    ASSUME Init
    PROVE  LinkInv
BY DEF Init, LinkInv, PairsNoted, PairedOnce, RemainingConnectors, TakenPaired, PlannedDone, Connector

-----------------------------------------------------------------------------
(* The two ends of a line *)

LEMMA UnusedReach ==
    ASSUME NEW s, s \notin Used, s \in Slot
    PROVE  Neighbours(s) = {} /\ Reach(s) = {s}
<1>1. Neighbours(s) = {}
    BY DEF Neighbours, Used
<1> DEFINE hops == Cardinality(Used)
<1>2. hops \in Nat
    BY UsedFinite
<1> HIDE DEF hops
<1>3. Around({s}) = {s}
    BY <1>1 DEF Around
<1> DEFINE given == [k \in 0 .. hops |-> {s}]
<1>4. IsReach(given, s, hops)
  <2>1. \A k \in 0 .. hops : k # 0 => given[k - 1] = {s}
      BY <1>2
  <2>2. given = [k \in 0 .. hops |-> IF k = 0 THEN {s} ELSE Around(given[k - 1])]
      BY <1>3, <2>1
  <2> QED BY <2>2 DEF IsReach
<1>5. PICK reach : IsReach(reach, s, hops) /\ Reach(s) = reach[hops]
    BY <1>4, ReachIs DEF hops
<1>6. \A k \in 0 .. hops : reach[k] = IF k = 0 THEN {s} ELSE Around(reach[k - 1])
    BY <1>5 DEF IsReach
<1> DEFINE Wrong == {k \in 0 .. hops : reach[k] # {s}}
<1>7. Wrong = {}
  <2> SUFFICES ASSUME Wrong # {} PROVE FALSE
      OBVIOUS
  <2>1. Wrong \in SUBSET Nat
      BY <1>2
  <2>2. PICK k \in Wrong : \A j \in Wrong : k <= j
      BY <2>1, Smallest
  <2>3. k # 0
      BY <1>2, <1>6, <2>2
  <2>4. k - 1 \in 0 .. hops /\ k - 1 \notin Wrong /\ k \in 0 .. hops
      BY <1>2, <2>2, <2>3
  <2>5. reach[k] = {s}
      BY <1>3, <1>6, <2>3, <2>4
  <2> QED BY <2>2, <2>5
<1>8. reach[hops] = {s}
    BY <1>2, <1>7
<1> QED BY <1>1, <1>5, <1>8

LEMMA ReachJoin ==
    ASSUME EachEndOnce, NEW s \in Used, NEW t \in Used, NEW e, e \in Reach(s), e \in Reach(t)
    PROVE  Reach(s) = Reach(t)
BY ReachSame

(* The chains both ways have only their start in common.                   *)
LEMMA ChainsApart ==
    ASSUME EachEndOnce, NEW m \in Nat, NEW n \in Nat, NEW x, NEW y, NEW s \in Used, IsLine(s, x, m, y, n),
           Going(x, m, "Fiber") = {}, NEW j \in 1 .. n
    PROVE  y[j] \notin Passed(x, m)
<1>c. IsChain(x, m, s, "Fiber") /\ IsChain(y, n, s, "Port")
    BY DEF IsLine, IsWhole
<1>x. x[0] = s /\ \A i, k \in 0 .. m : x[i] = x[k] => i = k
    BY <1>c DEF IsChain
<1>y. y[0] = s /\ \A i, k \in 0 .. n : y[i] = y[k] => i = k
    BY <1>c DEF IsChain
<1>h. HopsStay(x, m, "Fiber") /\ HopsStay(y, n, "Port")
    BY <1>c, ChainHops
<1> DEFINE Met == {k \in 1 .. n : y[k] \in Passed(x, m)}
<1> SUFFICES ASSUME Met # {} PROVE FALSE
    OBVIOUS
<1>1. Met \in SUBSET Nat
    OBVIOUS
<1>2. PICK k \in Met : \A l \in Met : k <= l
    BY <1>1, Smallest
<1>3. PICK i \in 0 .. m : y[k] = x[i]
    BY <1>2 DEF Passed
<1>4. i \in 1 .. m /\ k \in 1 .. n /\ i \in Nat /\ k \in Nat /\ k - 1 \in 0 .. n /\ k - 1 \notin Met
  <2>1. k \in 1 .. n /\ k - 1 \in 0 .. n /\ k - 1 \notin Met
      BY <1>2
  <2>2. i # 0
      BY <1>x, <1>y, <1>3, <2>1
  <2> QED BY <2>1, <2>2
<1>5. Hop(use, x[i], i, "Fiber") = {x[i - 1]} /\ Hop(use, y[k], k, "Port") = {y[k - 1]}
    BY <1>h, <1>4 DEF HopsStay
<1>6. CASE Turn(i, "Fiber") <=> Turn(k, "Port")
  <2>1. Hop(use, x[i], i, "Fiber") = Hop(use, y[k], k, "Port")
      BY <1>3, <1>4, <1>6, HopTurn
  <2>2. x[i - 1] = y[k - 1]
      BY <1>5, <2>1
  <2>3. i - 1 \in 0 .. m
      BY <1>4
  <2>4. y[k - 1] \in Passed(x, m)
      BY <2>2, <2>3 DEF Passed
  <2>5. k = 1
      BY <1>4, <2>4
  <2>6. i = 1
      BY <1>x, <1>y, <1>4, <2>2, <2>3, <2>5
  <2> QED BY <1>6, <2>5, <2>6, TurnOther DEF FirstHop
<1>7. CASE ~ (Turn(i, "Fiber") <=> Turn(k, "Port"))
  <2>1. Turn(i + 1, "Fiber") <=> Turn(k, "Port")
      BY <1>4, <1>7, TurnsAlternate
  <2>2. Hop(use, x[i], i + 1, "Fiber") = Hop(use, y[k], k, "Port")
      BY <1>3, <2>1, HopTurn
  <2>3. Hop(use, x[i], i + 1, "Fiber") = {y[k - 1]}
      BY <1>5, <2>2
  <2>4. i # m
      BY <2>3 DEF Going
  <2>5. i + 1 \in 1 .. m /\ (i + 1) - 1 = i /\ i + 1 \in 0 .. m
      BY <1>4, <2>4
  <2>6. x[i + 1] = y[k - 1]
    <3>1. Hop(use, x[i], i + 1, "Fiber") = {x[i + 1]}
        BY <1>h, <2>5 DEF HopsStay
    <3> QED BY <2>3, <3>1
  <2>7. y[k - 1] \in Passed(x, m)
      BY <2>5, <2>6 DEF Passed
  <2>8. k = 1
      BY <1>4, <2>7
  <2>9. i + 1 = 0
      BY <1>x, <1>y, <2>5, <2>6, <2>8
  <2> QED BY <1>4, <2>9
<1> QED BY <1>6, <1>7

LEMMA TwoEnds ==
    ASSUME EachEndOnce, NEW s \in Used
    PROVE  /\ \E a, b : EndSlots(s) \subseteq {a, b}
           /\ EndSlots(s) # {} /\ Neighbours(s) # {} => \E a, b : a # b /\ EndSlots(s) = {a, b}
<1>1. PICK m \in Nat, n \in Nat : \E x, y : IsLine(s, x, m, y, n)
    BY LineExists
<1>line. PICK x, y : IsLine(s, x, m, y, n)
    BY <1>1
<1>2. /\ Going(x, m, "Fiber") # {} => EndSlots(s) = {}
      /\ Going(x, m, "Fiber") = {} => EndSlots(s) = {x[m], y[n]}
    BY <1>line, LineEnds
<1>3. ASSUME Going(x, m, "Fiber") = {}, x[m] = y[n]
      PROVE  Neighbours(s) = {}
  <2>1. n = 0
    <3> SUFFICES ASSUME n # 0 PROVE FALSE
        OBVIOUS
    <3>1. n \in 1 .. n
        OBVIOUS
    <3>2. y[n] \notin Passed(x, m)
        BY <1>line, <1>3, <3>1, ChainsApart
    <3> QED BY <1>3, <3>2 DEF Passed
  <2>2. x[0] = s /\ y[0] = s /\ \A i, k \in 0 .. m : x[i] = x[k] => i = k
      BY <1>line DEF IsLine, IsWhole, IsChain
  <2>3. m = 0
      BY <1>3, <2>1, <2>2
  <2>4. ASSUME NEW t \in Hop(use, x[m], m + 1, "Fiber") PROVE FALSE
      BY <1>line, <2>3, <2>4, Closing DEF IsLine
  <2>5. ASSUME NEW t \in Hop(use, y[n], n + 1, "Port") PROVE FALSE
      BY <1>line, <2>1, <2>5, Closing DEF IsLine
  <2> QED BY <2>1, <2>2, <2>3, <2>4, <2>5, StartNeighbours
<1> QED BY <1>2, <1>3

-----------------------------------------------------------------------------
(* What the trace of a connector says of its line *)

LEMMA BackSlot ==
    ASSUME NEW p \in Port
    PROVE  Back(p) \in Slot /\ <<p, "Front">> \in Slot /\ Back(p)[1] = p /\ Back(p)[2] = "Back"
BY PortAssumption DEF Back, Slot, PortSide

LEMMA TraceEnd ==
    ASSUME EachEndOnce, NEW p \in Port, NEW q, Traced(p, q)
    PROVE  /\ Back(p) \in Used /\ AlongFiber(use, Back(p)) # {}
           /\ \E e \in EndSlots(Back(p)) : e # Back(p) /\ e[1] = q /\ e \in Used /\ Neighbours(e) # {}
<1>0. Back(p) \in Used
    BY BackSlot DEF Traced, Used
<1>1. PICK m \in Nat, n \in Nat : \E x, y : IsLine(Back(p), x, m, y, n)
    BY <1>0, LineExists
<1>line. PICK x, y : IsLine(Back(p), x, m, y, n)
    BY <1>1
<1>w. IsWhole(x, m, Back(p), "Fiber")
    BY <1>line DEF IsLine
<1>2. PICK t \in TracesOf(p) : ~ t.looped /\ t.reached /\ t.last[1] = q
    BY DEF Traced, EndsAtPort
<1>3. Traces(use, Back(p), "Fiber") = {[looped |-> Going(x, m, "Fiber") # {}, last |-> x[m], reached |-> m > 0]}
    BY <1>w, TracesOfChain
<1>4. t = [looped |-> Going(x, m, "Fiber") # {}, last |-> x[m], reached |-> m > 0]
    BY <1>2, <1>3 DEF TracesOf
<1>5. (t.looped <=> Going(x, m, "Fiber") # {}) /\ t.last = x[m] /\ (t.reached <=> m > 0)
    BY <1>4
<1>6. Going(x, m, "Fiber") = {} /\ m > 0 /\ x[m][1] = q
    BY <1>2, <1>5
<1>7. x[m] \in EndSlots(Back(p))
    BY <1>0, <1>line, <1>6, LineEnds
<1>c. IsChain(x, m, Back(p), "Fiber")
    BY <1>w DEF IsWhole
<1>8. x[m] # Back(p) /\ x[0] = Back(p) /\ x[m] \in Used
    BY <1>c, <1>6 DEF IsChain
<1>h. HopsStay(x, m, "Fiber")
    BY <1>c, ChainHops
<1>9. Neighbours(x[m]) # {}
  <2>1. m \in 1 .. m
      BY <1>6
  <2>2. Hop(use, x[m], m, "Fiber") = {x[m - 1]}
      BY <1>h, <2>1 DEF HopsStay
  <2>3. Neighbours(x[m]) = Hop(use, x[m], m, "Fiber") \union Hop(use, x[m], m + 1, "Fiber")
      BY <1>8, HopsAre
  <2> QED BY <2>2, <2>3
<1>10. AlongFiber(use, Back(p)) # {}
  <2>1. 1 \in 1 .. m /\ 1 - 1 = 0
      BY <1>6
  <2>2. Hop(use, x[0], 1, "Fiber") = {x[1]}
      BY <1>h, <2>1 DEF HopsStay
  <2> QED BY <1>8, <2>2 DEF Hop
<1> QED BY <1>0, <1>6, <1>7, <1>8, <1>9, <1>10

LEMMA SkippedIs ==
    ASSUME EachEndOnce, NEW p \in Port, Back(p) \in Used, Skipped(p)
    PROVE  AlongFiber(use, Back(p)) = {}
<1>1. use[Back(p)] # Removed
    BY NullAssumption DEF Used
<1>2. PICK t \in TracesOf(p) : ~ t.looped /\ ~ t.reached
    BY <1>1 DEF Skipped
<1>3. PICK m, x : m \in Nat /\ IsWhole(x, m, Back(p), "Fiber")
    BY ChainExists
<1>4. Traces(use, Back(p), "Fiber") = {[looped |-> Going(x, m, "Fiber") # {}, last |-> x[m], reached |-> m > 0]}
    BY <1>3, TracesOfChain
<1>5. t = [looped |-> Going(x, m, "Fiber") # {}, last |-> x[m], reached |-> m > 0]
    BY <1>2, <1>4 DEF TracesOf
<1>6. (t.looped <=> Going(x, m, "Fiber") # {}) /\ (t.reached <=> m > 0)
    BY <1>5
<1>7. m = 0 /\ Going(x, m, "Fiber") = {} /\ x[0] = Back(p)
    BY <1>2, <1>3, <1>6 DEF IsWhole, IsChain
<1> QED BY <1>7 DEF Going, Hop

LEMMA NotThrough ==
    ASSUME NEW p, Connector(p), ~ Through(p)
    PROVE  /\ ThroughPort(use, Back(p)) = {}
           /\ \A e \in Used : e[1] = p => e = Back(p)
<1>1. ASSUME NEW e \in Used, e[1] = p PROVE e = Back(p)
  <2>1. e = <<p, e[2]>> /\ e[2] \in {"Front", "Back"} /\ use[e] \in Fiber
      BY <1>1, Sides DEF Used
  <2>2. use[<<p, "Front">>] \notin Fiber
      BY DEF Through, Connector
  <2> QED BY <2>1, <2>2 DEF Back
<1>2. ASSUME NEW t \in ThroughPort(use, Back(p)) PROVE FALSE
  <2>1. p \in Port /\ Back(p) \in Slot /\ Back(p)[1] = p /\ Back(p)[2] = "Back"
      BY BackSlot DEF Connector
  <2>2. t \in Used /\ t[1] = p /\ t[2] # "Back"
      BY <2>1, <1>2 DEF ThroughPort, Used
  <2>3. t = Back(p)
      BY <1>1, <2>2
  <2> QED BY <2>1, <2>2, <2>3
<1> QED BY <1>1, <1>2

LEMMA SkippedAlone ==
    ASSUME EachEndOnce, NEW p, Connector(p), ~ Through(p), Back(p) \in Used, Skipped(p)
    PROVE  Neighbours(Back(p)) = {} /\ Reach(Back(p)) = {Back(p)}
<1>1. p \in Port
    BY DEF Connector
<1>2. AlongFiber(use, Back(p)) = {} /\ ThroughPort(use, Back(p)) = {}
    BY <1>1, SkippedIs, NotThrough
<1>3. Neighbours(Back(p)) = {}
    BY <1>2 DEF Neighbours
<1>4. Closed({Back(p)})
    BY <1>3 DEF Closed
<1>5. Reach(Back(p)) \subseteq {Back(p)} /\ Back(p) \in Reach(Back(p))
    BY <1>4, ReachLeast, ReachClosed
<1> QED BY <1>3, <1>5

-----------------------------------------------------------------------------
(* Without an issue no connector is passed                                 *)

Settled == PairsNoted /\ PairedOnce /\ TakenPaired /\ remaining = {} /\ issues = {} /\ Sound

(* An end of a line through a connector is the back of another connector,  *)
(* which is not passed.                                                    *)
IsEndOf(e, p) ==
    /\ e \in Used /\ e = Back(e[1]) /\ e[1] \in Port /\ e[1] # p
    /\ Connector(e[1]) /\ ~ Through(e[1])

LEMMA ThroughEnds ==
    ASSUME Sound, NEW p \in Port, Through(p)
    PROVE  /\ Back(p) \in Used /\ Neighbours(Back(p)) # {}
           /\ \A e \in EndSlots(Back(p)) : IsEndOf(e, p)
<1> USE DEF Sound
<1>1. ASSUME NEW r \in Port, Through(r), NEW t \in Reach(Back(r)), Cardinality(Neighbours(t)) <= 1
      PROVE  t[1] # r /\ t[2] = "Back" /\ PortType[t[1]] = "Connector"
    BY <1>1 DEF PassesWhole
<1>2. ASSUME NEW r \in Port, Through(r) PROVE Back(r) \in Used /\ Back(r) \in Reach(Back(r))
  <2>1. Back(r) \in Used
    <3> SUFFICES ASSUME Back(r) \notin Used PROVE FALSE
        OBVIOUS
    <3>1. Neighbours(Back(r)) = {} /\ Reach(Back(r)) = {Back(r)} /\ Back(r)[1] = r
        BY UnusedReach, BackSlot
    <3>2. Cardinality(Neighbours(Back(r))) = 0
        BY <3>1, FS_EmptySet
    <3> QED BY <1>1, <1>2, <3>1, <3>2
  <2> QED BY <2>1, ReachClosed
<1>3. Neighbours(Back(p)) # {}
  <2>1. <<p, "Front">> \in ThroughPort(use, Back(p))
      BY BackSlot DEF ThroughPort, Through
  <2> QED BY <1>2, <2>1 DEF Neighbours, Used
<1>4. ASSUME NEW e \in EndSlots(Back(p)) PROVE IsEndOf(e, p)
  <2>1. e \in Reach(Back(p)) /\ Cardinality(Neighbours(e)) <= 1
      BY DEF EndSlots
  <2>2. e[1] # p /\ e[2] = "Back" /\ PortType[e[1]] = "Connector"
      BY <1>1, <2>1
  <2>3. e \in Used
      BY <1>2, <2>1, ReachSame
  <2>4. e[1] \in Port /\ e = Back(e[1])
      BY <2>2, <2>3, Sides DEF Used, Back
  <2>5. ~ Through(e[1])
    <3> SUFFICES ASSUME Through(e[1]) PROVE FALSE
        OBVIOUS
    <3>1. e \in Reach(Back(e[1]))
        BY <1>2, <2>4
    <3> QED BY <1>1, <2>1, <2>4, <3>1
  <2> QED BY <2>2, <2>3, <2>4, <2>5 DEF IsEndOf, Connector
<1> QED BY <1>2, <1>3, <1>4

(* The other way of a pair, and that pairs share no connector. *)
LEMMA PairMeets ==
    ASSUME PairsNoted, PairedOnce, NEW a \in port_pairs, NEW b \in port_pairs
    PROVE  (a[3] = b[3] <=> a[4] = b[4]) /\ (a[3] = b[4] <=> a[4] = b[3])
<1>1. PICK c \in port_pairs : c = <<a[2], a[1], a[4], a[3]>>
    BY DEF PairsNoted, IsNoted
<1>2. PICK d \in port_pairs : d = <<b[2], b[1], b[4], b[3]>>
    BY DEF PairsNoted, IsNoted
<1>3. c[3] = a[4] /\ c[4] = a[3] /\ d[3] = b[4] /\ d[4] = b[3]
    BY <1>1, <1>2
<1>4. a[3] = b[3] => a[4] = b[4]
    BY DEF PairedOnce
<1>5. c[3] = d[3] => c[4] = d[4]
    BY DEF PairedOnce
<1>6. a[3] = d[3] => a[4] = d[4]
    BY DEF PairedOnce
<1>7. c[3] = b[3] => c[4] = b[4]
    BY DEF PairedOnce
<1> QED BY <1>3, <1>4, <1>5, <1>6, <1>7

LEMMA NoneThrough ==
    ASSUME Settled, NEW p \in Port
    PROVE  ~ Through(p)
<1> SUFFICES ASSUME Through(p) PROVE FALSE
    OBVIOUS
<1>s. PairsNoted /\ PairedOnce /\ TakenPaired /\ remaining = {} /\ issues = {} /\ Sound /\ EachEndOnce
    BY DEF Settled, Sound
<1>1. Back(p) \in Used /\ Neighbours(Back(p)) # {} /\ \A e \in EndSlots(Back(p)) : IsEndOf(e, p)
    BY <1>s, ThroughEnds
<1>2. Back(p) \in Reach(Back(p)) /\ Closed(Reach(Back(p))) /\ Reach(Back(p)) \subseteq Used
    BY <1>s, <1>1, ReachClosed
<1>3. Connector(p)
    BY DEF Through, Connector
<1>4. \A r \in Port : Connector(r) => Skipped(r) \/ Paired(r)
    BY <1>s DEF TakenPaired
(* It was not skipped: then its back were an end. *)
<1>5. ~ Skipped(p)
  <2> SUFFICES ASSUME Skipped(p) PROVE FALSE
      OBVIOUS
  <2>1. AlongFiber(use, Back(p)) = {}
      BY <1>s, <1>1, SkippedIs
  <2>2. Hop(use, Back(p), 0 + 1, "Fiber") = {}
      BY <2>1 DEF Hop
  <2>3. ~ Many(Back(p))
      BY <1>s, <1>1, <2>2, ManyIs
  <2>4. Back(p) \in EndSlots(Back(p))
      BY <1>2, <2>3 DEF EndSlots, Many
  <2> QED BY <1>1, <2>4, BackSlot DEF IsEndOf
<1>6. PICK pair \in port_pairs : pair[3] = p
    BY <1>3, <1>4, <1>5 DEF Paired
<1>7. PICK q : q = pair[4]
    OBVIOUS
<1>8. Connector(q) /\ q # p /\ (Traced(p, q) \/ Traced(q, p)) /\ q \in Port
    BY <1>s, <1>6, <1>7 DEF PairsNoted, IsNoted, Connector
(* It was traced to q: no signal ends at p. *)
<1>9. ~ Traced(q, p)
  <2> SUFFICES ASSUME Traced(q, p) PROVE FALSE
      OBVIOUS
  <2>1. PICK e \in EndSlots(Back(q)) : e[1] = p /\ e \in Used
      BY <1>s, <1>8, TraceEnd
  <2>2. e \in Reach(Back(p))
    <3>1. e = <<p, e[2]>> /\ e[2] \in {"Front", "Back"}
        BY <2>1, Sides DEF Used
    <3>2. CASE e[2] = "Back"
        BY <1>2, <3>1, <3>2 DEF Back
    <3>3. CASE e[2] = "Front"
      <4>1. e \in ThroughPort(use, Back(p))
          BY <2>1, <3>1, <3>3, BackSlot DEF ThroughPort, Used
      <4>2. e \in Neighbours(Back(p))
          BY <1>1, <4>1 DEF Neighbours, Used
      <4> QED BY <1>2, <4>2 DEF Closed
    <3> QED BY <3>1, <3>2, <3>3
  <2>3. e \in EndSlots(Back(p))
      BY <2>1, <2>2 DEF EndSlots
  <2> QED BY <1>1, <2>1, <2>3 DEF IsEndOf
<1>10. Back(q) \in EndSlots(Back(p))
  <2>1. PICK e \in EndSlots(Back(p)) : e[1] = q
      BY <1>s, <1>8, <1>9, TraceEnd
  <2> QED BY <1>1, <2>1 DEF IsEndOf
(* The line has another end, the back of r. *)
<1>11. PICK f \in EndSlots(Back(p)) : f # Back(q) /\ EndSlots(Back(p)) = {Back(q), f}
  <2>1. PICK a, b : a # b /\ EndSlots(Back(p)) = {a, b}
      BY <1>s, <1>1, <1>10, TwoEnds
  <2> QED BY <1>10, <2>1
<1>12. PICK r : r = f[1]
    OBVIOUS
<1>13. f = Back(r) /\ r \in Port /\ r # p /\ r # q /\ Connector(r) /\ ~ Through(r) /\ Back(r) \in Used
    BY <1>1, <1>11, <1>12 DEF IsEndOf
<1>14. Reach(Back(r)) = Reach(Back(p)) /\ EndSlots(Back(r)) = {Back(q), Back(r)}
  <2>1. Back(r) \in Reach(Back(p))
      BY <1>11, <1>13 DEF EndSlots
  <2>2. Reach(Back(r)) = Reach(Back(p))
      BY <1>s, <1>1, <2>1, ReachSame
  <2> QED BY <1>11, <1>13, <2>2 DEF EndSlots
<1>15. ~ Skipped(r)
  <2> SUFFICES ASSUME Skipped(r) PROVE FALSE
      OBVIOUS
  <2>1. Reach(Back(r)) = {Back(r)}
      BY <1>s, <1>13, SkippedAlone
  <2> QED BY <1>2, <1>13, <1>14, <2>1, BackSlot
<1>16. PICK other \in port_pairs : other[3] = r
    BY <1>4, <1>13, <1>15 DEF Paired
<1>17. PICK w : w = other[4]
    OBVIOUS
<1>18. Connector(w) /\ w # r /\ (Traced(r, w) \/ Traced(w, r)) /\ w \in Port
    BY <1>s, <1>16, <1>17 DEF PairsNoted, IsNoted, Connector
<1>19. w # q /\ w # p
    BY <1>s, <1>6, <1>7, <1>13, <1>16, <1>17, PairMeets
<1>20. CASE Traced(r, w)
  <2>1. PICK e \in EndSlots(Back(r)) : e # Back(r) /\ e[1] = w
      BY <1>s, <1>13, <1>20, TraceEnd
  <2>2. e = Back(q)
      BY <1>14, <2>1
  <2> QED BY <1>8, <1>19, <2>1, <2>2, BackSlot
<1>21. CASE Traced(w, r)
  <2>1. PICK e \in EndSlots(Back(w)) : e[1] = r /\ e \in Used
      BY <1>s, <1>18, <1>21, TraceEnd
  <2>2. Back(w) \in Used
      BY <1>s, <1>18, <1>21, TraceEnd
  <2>3. e = Back(r)
      BY <1>13, <2>1, NotThrough
  <2>4. Reach(Back(w)) = Reach(Back(p))
    <3>1. Back(r) \in Reach(Back(w)) /\ Back(r) \in Reach(Back(r))
        BY <1>s, <1>13, <2>1, <2>3, ReachClosed DEF EndSlots
    <3> QED BY <1>s, <1>13, <1>14, <2>2, <3>1, ReachJoin
  <2>5. Back(w) \in Reach(Back(p))
      BY <1>s, <2>2, <2>4, ReachClosed
  <2>6. Back(w) \notin EndSlots(Back(p))
    <3>1. Back(w) # Back(q) /\ Back(w) # Back(r)
        BY <1>8, <1>13, <1>18, <1>19, BackSlot
    <3> QED BY <1>11, <1>13, <3>1
  <2>7. Many(Back(w))
      BY <2>5, <2>6 DEF EndSlots, Many
  <2>8. Hop(use, Back(w), 0, "Fiber") # {}
      BY <1>s, <2>2, <2>7, ManyIs
  <2>9. ThroughPort(use, Back(w)) # {}
      BY <2>8 DEF Hop
  <2>10. Through(w)
      BY <1>18, <2>9, NotThrough
  <2> QED BY <1>s, <1>18, <1>19, <2>5, <2>10 DEF Sound, PassesWhole
<1> QED BY <1>18, <1>20, <1>21

(* Then the pairs noted are the linked connectors. *)
LEMMA TracedLinked ==
    ASSUME Settled, NEW p, NEW q, Connector(p), Connector(q), p # q, Traced(p, q)
    PROVE  Linked(p, q) /\ Linked(q, p)
<1>s. EachEndOnce
    BY DEF Settled, Sound
<1>p. p \in Port /\ q \in Port
    BY DEF Connector
<1>t. ~ Through(p) /\ ~ Through(q)
    BY <1>p, NoneThrough
<1>1. Back(p) \in Used /\ AlongFiber(use, Back(p)) # {}
    BY <1>s, <1>p, TraceEnd
<1>2. PICK e \in EndSlots(Back(p)) : e # Back(p) /\ e[1] = q /\ e \in Used /\ Neighbours(e) # {}
    BY <1>s, <1>p, TraceEnd
<1>3. e = Back(q)
    BY <1>t, <1>2, NotThrough
<1>4. Back(q) \in Used /\ Back(q) \in Reach(Back(p)) /\ Reach(Back(q)) = Reach(Back(p))
    BY <1>s, <1>1, <1>2, <1>3, ReachSame DEF EndSlots
<1>5. Back(p) \in Reach(Back(q))
    BY <1>s, <1>1, <1>4, ReachClosed
<1>6. Cardinality(Neighbours(Back(p))) = 1
  <2>1. ThroughPort(use, Back(p)) = {}
      BY <1>t, NotThrough
  <2>2. PICK t : t \in AlongFiber(use, Back(p))
      BY <1>1
  <2>3. AlongFiber(use, Back(p)) = {t}
      BY <1>s, <1>1, <2>2, AlongOne
  <2>4. Neighbours(Back(p)) = {t}
      BY <1>1, <2>1, <2>3 DEF Neighbours, Used
  <2>5. Cardinality({t}) = 1
      BY FS_Singleton
  <2> QED BY <2>4, <2>5
<1>7. Cardinality(Neighbours(Back(q))) = 1
  <2>1. 0 \in Nat
      OBVIOUS
  <2>2. Cardinality(Neighbours(Back(q))) \in 0 .. 2
      BY <1>s, <1>4, <2>1, Degree
  <2>3. Cardinality(Neighbours(Back(q))) <= 1
      BY <1>2, <1>3 DEF EndSlots
  <2>4. Cardinality(Neighbours(Back(q))) # 0
    <3>1. Neighbours(Back(q)) = AlongFiber(use, Back(q)) \union ThroughPort(use, Back(q))
        BY <1>4 DEF Neighbours, Used
    <3>2. ThroughPort(use, Back(q)) = {}
        BY <1>t, NotThrough
    <3>3. PICK t : t \in AlongFiber(use, Back(q))
        BY <1>2, <1>3, <3>1, <3>2
    <3>4. AlongFiber(use, Back(q)) = {t}
        BY <1>s, <1>4, <3>3, AlongOne
    <3>5. Cardinality({t}) = 1
        BY FS_Singleton
    <3> QED BY <3>1, <3>2, <3>4, <3>5
  <2> QED BY <2>2, <2>3, <2>4
<1> QED BY <1>4, <1>5, <1>6, <1>7 DEF Linked, Connector

LEMMA NotedLinked ==
    ASSUME Settled, NEW a \in port_pairs
    PROVE  Linked(a[3], a[4])
<1>1. IsNoted(a)
    BY DEF Settled, PairsNoted
<1>2. PICK p, q : p = a[3] /\ q = a[4]
    OBVIOUS
<1>3. Connector(p) /\ Connector(q) /\ p # q /\ (Traced(p, q) \/ Traced(q, p))
    BY <1>1, <1>2 DEF IsNoted
<1>4. Linked(p, q)
    BY <1>3, TracedLinked
<1> QED BY <1>2, <1>4

(* Of a line with two ends the partner is the other one. *)
LEMMA LinkedEnds ==
    ASSUME EachEndOnce, NEW p \in Port, NEW q \in Port, Linked(p, q)
    PROVE  Back(p) \in Used /\ EndSlots(Back(p)) = {Back(p), Back(q)} /\ Neighbours(Back(p)) # {}
<1>1. p # q /\ Back(q) \in Reach(Back(p))
      /\ Cardinality(Neighbours(Back(p))) = 1 /\ Cardinality(Neighbours(Back(q))) = 1
    BY DEF Linked
<1>2. Neighbours(Back(p)) # {}
    BY <1>1, FS_EmptySet
<1>3. Back(p) \in Used
    BY <1>2, BackSlot DEF Neighbours, Used
<1>4. Back(p) \in EndSlots(Back(p)) /\ Back(q) \in EndSlots(Back(p))
    BY <1>1, <1>3, ReachClosed DEF EndSlots
<1>5. PICK a, b : EndSlots(Back(p)) \subseteq {a, b}
    BY <1>3, TwoEnds
<1>6. Back(p) # Back(q)
    BY <1>1, BackSlot
<1> QED BY <1>2, <1>3, <1>4, <1>5, <1>6

LEMMA LinkedOne ==
    ASSUME EachEndOnce, NEW p \in Port, NEW q \in Port, NEW w \in Port, Linked(p, q), Linked(p, w)
    PROVE  q = w
<1>1. EndSlots(Back(p)) = {Back(p), Back(q)} /\ EndSlots(Back(p)) = {Back(p), Back(w)}
    BY LinkedEnds
<1>2. p # q /\ p # w
    BY DEF Linked
<1>3. Back(q) # Back(p) /\ Back(w) # Back(p)
    BY <1>2, BackSlot
<1>4. Back(q) = Back(w)
    BY <1>1, <1>3
<1> QED BY <1>4, BackSlot

LEMMA LinkedNoted ==
    ASSUME Settled, NEW p \in Port, NEW q \in Port, Linked(p, q)
    PROVE  \E a \in port_pairs : a[3] = p /\ a[4] = q
<1>s. PairsNoted /\ PairedOnce /\ TakenPaired /\ remaining = {} /\ issues = {} /\ EachEndOnce
    BY DEF Settled, Sound
<1>1. Connector(p) /\ Connector(q) /\ ~ Through(p)
    BY NoneThrough DEF Linked, Connector
<1>2. Back(p) \in Used /\ Neighbours(Back(p)) # {}
    BY <1>s, LinkedEnds
<1>3. ~ Skipped(p)
    BY <1>s, <1>1, <1>2, SkippedAlone
<1>4. PICK a \in port_pairs : a[3] = p
    BY <1>s, <1>1, <1>3 DEF TakenPaired, Paired
<1>5. PICK w : w = a[4]
    OBVIOUS
<1>6. Linked(p, w) /\ w \in Port
    BY <1>s, <1>4, <1>5, NotedLinked DEF PairsNoted, IsNoted, Connector
<1>7. w = q
    BY <1>s, <1>6, LinkedOne
<1> QED BY <1>4, <1>5, <1>7

-----------------------------------------------------------------------------
(* And the circuits those of the graph *)

LEMMA ConnectionsAreLinks ==
    ASSUME Settled, PlanInv, NEW r1 \in RearPort, NEW r2 \in RearPort
    PROVE  Connections(r1, r2) = LinkedRearPorts(r1, r2)
<1>1. ASSUME NEW m \in Connections(r1, r2) PROVE m \in LinkedRearPorts(r1, r2)
  <2>1. PICK a \in port_pairs : a[1] = r1 /\ a[2] = r2 /\ m = <<a[3], a[4]>>
      BY DEF Connections
  <2>2. netbox_port[a[3]] = r1 /\ netbox_port[a[4]] = r2
      BY <2>1 DEF PlanInv, PairsAssigned
  <2>3. Linked(a[3], a[4])
      BY NotedLinked
  <2>4. a[3] \in Port /\ a[4] \in Port
      BY DEF Settled, PairsNoted, IsNoted, Connector
  <2> QED BY <2>1, <2>2, <2>3, <2>4 DEF LinkedRearPorts
<1>2. ASSUME NEW m \in LinkedRearPorts(r1, r2) PROVE m \in Connections(r1, r2)
  <2>1. PICK p \in Port, q \in Port :
            m = <<p, q>> /\ netbox_port[p] = r1 /\ netbox_port[q] = r2 /\ Linked(p, q)
      BY DEF LinkedRearPorts
  <2>2. PICK a \in port_pairs : a[3] = p /\ a[4] = q
      BY <2>1, LinkedNoted
  <2>3. a[1] = r1 /\ a[2] = r2
      BY <2>1, <2>2 DEF PlanInv, PairsAssigned
  <2> QED BY <2>1, <2>2, <2>3 DEF Connections
<1> QED BY <1>1, <1>2

LEMMA PartnersFinite ==
    ASSUME PlanInv, NEW r
    PROVE  IsFiniteSet(Partners(r))
<1> DEFINE S == {a \in port_pairs : a[1] = r}
           Q == {q \in Port : \E a \in S : a[4] = q}
           f == [q \in Q |-> netbox_port[q]]
<1>1. IsFiniteSet(Q)
    BY PortAssumption, FS_Subset
<1>2. ASSUME NEW a \in S PROVE a[4] \in Q /\ a[2] = netbox_port[a[4]]
    BY DEF PlanInv, TypeOK, PairsAssigned
<1>3. Partners(r) = {a[2] : a \in S}
    BY DEF Partners
<1>4. ASSUME NEW q \in Q PROVE f[q] \in Partners(r)
    BY <1>2, <1>3
<1>5. ASSUME NEW t \in Partners(r) PROVE \E q \in Q : f[q] = t
    BY <1>2, <1>3
<1> HIDE DEF Q
<1>6. f \in Surjection(Q, Partners(r))
    BY <1>4, <1>5 DEF Surjection
<1> QED BY <1>1, <1>6, FS_Surjection

(* A rear port has one partner, which is another. *)
LEMMA OnePartner ==
    ASSUME Settled, PlanInv, Asymmetric = {}, Returning = {}, NEW r1 \in RearPort, NEW r2 \in Partners(r1)
    PROVE  /\ r2 \in RearPort /\ r1 # r2
           /\ Partners(r1) = {r2} /\ Partners(r2) = {r1}
<1>1. ASSUME NEW a \in RearPort, NEW b \in Partners(a) PROVE Partners(a) = {b}
  <2>1. IsFiniteSet(Partners(a)) /\ Cardinality(Partners(a)) \in Nat
      BY PartnersFinite, FS_CardinalityType
  <2>2. ~ (Cardinality(Partners(a)) > 1)
      BY DEF Asymmetric
  <2>3. Cardinality(Partners(a)) # 0
      BY <2>1, FS_EmptySet
  <2>4. Cardinality(Partners(a)) = 1
      BY <2>1, <2>2, <2>3
  <2> QED BY <2>1, <2>4, FS_Singleton
<1>2. PICK pair \in port_pairs : pair[1] = r1 /\ pair[2] = r2
    BY DEF Partners
<1>3. r2 \in RearPort
    BY <1>2 DEF PlanInv, TypeOK
<1>4. PICK back \in port_pairs : back = <<pair[2], pair[1], pair[4], pair[3]>>
    BY DEF Settled, PairsNoted, IsNoted
<1>5. r1 \in Partners(r2)
    BY <1>2, <1>4 DEF Partners
<1>6. Partners(r1) = {r2} /\ Partners(r2) = {r1}
    BY <1>1, <1>3, <1>5
<1>7. r1 # r2
    BY <1>6 DEF Returning
<1> QED BY <1>3, <1>6, <1>7

LEMMA PartnerLinks ==
    ASSUME Settled, PlanInv, NEW r1 \in RearPort, NEW r2 \in RearPort
    PROVE  r2 \in Partners(r1) <=> LinkedRearPorts(r1, r2) # {}
<1>1. Connections(r1, r2) = LinkedRearPorts(r1, r2)
    BY ConnectionsAreLinks
<1>2. r2 \in Partners(r1) <=> \E a \in port_pairs : a[1] = r1 /\ a[2] = r2
    BY DEF Partners
<1>3. Connections(r1, r2) # {} <=> \E a \in port_pairs : a[1] = r1 /\ a[2] = r2
    BY DEF Connections
<1> QED BY <1>1, <1>2, <1>3

(* In a set of links the first port tells the link. *)
LEMMA SameId ==
    ASSUME Settled, PlanInv, NEW r1 \in RearPort, NEW r2 \in RearPort, LinkedRearPorts(r1, r2) # {}
    PROVE  Cid(LinkedRearPorts(r1, r2))
             = CHOOSE m \in LinkedRearPorts(r1, r2) : \A o \in LinkedRearPorts(r1, r2) : m[1] <= o[1]
<1> DEFINE L == LinkedRearPorts(r1, r2)
           First(m) == \A o \in L : m[1] < o[1] \/ (m[1] = o[1] /\ m[2] <= o[2])
           Least(m) == \A o \in L : m[1] <= o[1]
<1>1. L \in SUBSET (Nat \X Nat)
    BY PortAssumption DEF LinkedRearPorts
<1>2. ASSUME NEW a \in L, NEW b \in L, a[1] = b[1] PROVE a = b
  <2>1. a \in Port \X Port /\ b \in Port \X Port /\ Linked(a[1], a[2]) /\ Linked(b[1], b[2])
      BY DEF LinkedRearPorts
  <2>2. EachEndOnce
      BY DEF Settled, Sound
  <2>3. a[1] \in Port /\ a[2] \in Port /\ b[2] \in Port /\ Linked(a[1], b[2])
      BY <1>2, <2>1
  <2>4. a[2] = b[2]
      BY <2>1, <2>2, <2>3, LinkedOne
  <2> QED BY <1>2, <2>1, <2>4
<1> HIDE DEF L
<1>3. PICK m \in L : First(m)
    BY <1>1, FirstPair DEF L
<1>4. Least(m)
    BY <1>1, <1>3
<1>5. ASSUME NEW a \in L, First(a) PROVE a = m
    BY <1>1, <1>2, <1>3, <1>5
<1>6. ASSUME NEW a \in L, Least(a) PROVE a = m
  <2>1. a[1] <= m[1] /\ m[1] <= a[1] /\ a[1] \in Nat /\ m[1] \in Nat
      BY <1>1, <1>4, <1>6
  <2> QED BY <1>2, <2>1
<1> HIDE DEF First, Least
<1>7. (CHOOSE a \in L : First(a)) = m
    BY <1>3, <1>5
<1>8. (CHOOSE a \in L : Least(a)) = m
    BY <1>3, <1>4, <1>6
<1> QED BY <1>7, <1>8 DEF Cid, L, First, Least

LEMMA LinksPlanned ==
    ASSUME PlanInv, LinkInv, pc = "planned", issues = {}, Sound
    PROVE  /\ circuits = TrueCircuits
           /\ \A p, q \in Port : Linked(p, q) =>
                  \E c \in circuits : <<p, q>> \in c.members \/ <<q, p>> \in c.members
<1>1. Settled /\ Asymmetric = {} /\ Returning = {} /\ circuits = Built
    BY DEF LinkInv, PlannedDone, Settled
<1> DEFINE Pairs == {r \in RearPort \X RearPort : r[1] < r[2] /\ LinkedRearPorts(r[1], r[2]) # {}}
<1>2. ASSUME NEW r1 \in RearPort, NEW r2 \in RearPort
      PROVE  r2 \in Partners(r1) <=> Partners(r1) = {r2} /\ Partners(r2) = {r1}
    BY <1>1, OnePartner
<1>3. ASSUME NEW r1 \in RearPort, NEW r2 \in RearPort
      PROVE  LinkedRearPorts(r1, r2) # {} <=> Partners(r1) = {r2} /\ Partners(r2) = {r1}
    BY <1>1, <1>2, PartnerLinks
<1>4. MutualPairs = Pairs
    BY <1>3 DEF MutualPairs
<1>5. ASSUME NEW r \in Pairs
      PROVE  [ports |-> {r[1], r[2]}, members |-> Connections(r[1], r[2]), cid |-> Cid(Connections(r[1], r[2]))]
               = [ports |-> {r[1], r[2]}, members |-> LinkedRearPorts(r[1], r[2]),
                  cid |-> CHOOSE m \in LinkedRearPorts(r[1], r[2]) :
                              \A o \in LinkedRearPorts(r[1], r[2]) : m[1] <= o[1]]
  <2>1. r[1] \in RearPort /\ r[2] \in RearPort /\ LinkedRearPorts(r[1], r[2]) # {}
      OBVIOUS
  <2>2. Connections(r[1], r[2]) = LinkedRearPorts(r[1], r[2])
      BY <1>1, <2>1, ConnectionsAreLinks
  <2>3. Cid(LinkedRearPorts(r[1], r[2]))
          = CHOOSE m \in LinkedRearPorts(r[1], r[2]) : \A o \in LinkedRearPorts(r[1], r[2]) : m[1] <= o[1]
      BY <1>1, <2>1, SameId
  <2> QED BY ONLY <2>2, <2>3
<1>6. circuits = TrueCircuits
    BY <1>1, <1>4, <1>5 DEF Built, TrueCircuits
<1>7. ASSUME NEW p \in Port, NEW q \in Port, Linked(p, q)
      PROVE  \E c \in circuits : <<p, q>> \in c.members \/ <<q, p>> \in c.members
  <2>1. PICK a \in port_pairs : a[3] = p /\ a[4] = q
      BY <1>1, <1>7, LinkedNoted
  <2>2. PICK b \in port_pairs : b = <<a[2], a[1], a[4], a[3]>>
      BY <1>1 DEF Settled, PairsNoted, IsNoted
  <2>3. PICK r1 \in RearPort, r2 \in RearPort : r1 = a[1] /\ r2 = a[2]
      BY DEF PlanInv, TypeOK
  <2>4. r2 \in Partners(r1)
      BY <2>3 DEF Partners
  <2>5. r1 # r2 /\ Partners(r1) = {r2} /\ Partners(r2) = {r1}
      BY <1>1, <2>4, OnePartner
  <2>6. <<p, q>> \in Connections(r1, r2) /\ <<q, p>> \in Connections(r2, r1)
      BY <2>1, <2>2, <2>3 DEF Connections
  <2>7. CASE r1 < r2
    <3>0. <<r1, r2>> \in MutualPairs
        BY <2>5, <2>7 DEF MutualPairs
    <3>1. PICK r \in MutualPairs : r[1] = r1 /\ r[2] = r2
        BY <3>0
    <3> DEFINE c == [ports |-> {r[1], r[2]}, members |-> Connections(r[1], r[2]),
                     cid |-> Cid(Connections(r[1], r[2]))]
    <3>2. c \in Built
        BY DEF Built
    <3>3. c.members = Connections(r1, r2)
        BY <3>1
    <3> HIDE DEF c
    <3> QED BY <1>1, <2>6, <3>2, <3>3
  <2>8. CASE r2 < r1
    <3>0. <<r2, r1>> \in MutualPairs
        BY <2>5, <2>8 DEF MutualPairs
    <3>1. PICK r \in MutualPairs : r[1] = r2 /\ r[2] = r1
        BY <3>0
    <3> DEFINE c == [ports |-> {r[1], r[2]}, members |-> Connections(r[1], r[2]),
                     cid |-> Cid(Connections(r[1], r[2]))]
    <3>2. c \in Built
        BY DEF Built
    <3>3. c.members = Connections(r2, r1)
        BY <3>1
    <3> HIDE DEF c
    <3> QED BY <1>1, <2>6, <3>2, <3>3
  <2> QED BY <2>5, <2>7, <2>8, PortAssumption
<1> QED BY <1>6, <1>7

LEMMA LinkInvHolds == Spec => [](PlanInv /\ LinkInv)
<1>1. Init => PlanInv /\ LinkInv
    BY PlanInvInit, LinkInvInit
<1>2. PlanInv /\ LinkInv /\ [Next]_vars => (PlanInv /\ LinkInv)'
    BY PlanInvStep, LinkInvStep
<1> QED BY <1>1, <1>2, PTL DEF Spec

(* Without issues the circuits are those of the graph of slots, with the   *)
(* same ids, in whatever order the connectors were taken.                  *)
THEOREM PlannedAreLinks == Spec => []CircuitsAreLinks
<1>1. PlanInv /\ LinkInv => CircuitsAreLinks
    BY LinksPlanned DEF CircuitsAreLinks
<1> QED BY <1>1, LinkInvHolds, PTL

(* Of two linked connectors the circuit is planned, or an issue keeps      *)
(* Netbox as it is.                                                        *)
THEOREM LinksKept == Spec => []NoLinkLost
<1>1. PlanInv /\ LinkInv => NoLinkLost
    BY LinksPlanned DEF NoLinkLost
<1> QED BY <1>1, LinkInvHolds, PTL

(* A connector in the middle of a line, whose front is used too, never     *)
(* goes without an issue: once it was paired with the one end or passed,   *)
(* some other connector of the line leads to one that was taken.           *)
THEOREM PassedReported ==
    Spec => [](pc = "planned" /\ issues = {} /\ Sound => \A p \in Port : ~ Through(p))
<1>1. PlanInv /\ LinkInv => (pc = "planned" /\ issues = {} /\ Sound => \A p \in Port : ~ Through(p))
    BY NoneThrough DEF LinkInv, PlannedDone, Settled
<1> QED BY <1>1, LinkInvHolds, PTL

(* The ends of a usage's signal, along the fiber and through the port, are *)
(* the ends of its line of fibers, whatever the plan is.                   *)
THEOREM SignalsAgree == Spec => []SignalEndsAgree
<1>1. SignalEndsAgree
    BY SignalEnds
<1> QED BY <1>1, PTL
=============================================================================
