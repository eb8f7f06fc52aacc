-------------------------- MODULE PortLkmapProofs ---------------------------
(***************************************************************************)
(* Theorems about the page of a panel's ports, and about the delivery to   *)
(* the Leitungskataster: for any ports and edits of their list, any        *)
(* network, any length of a day, and any number of changes and deliveries. *)
(***************************************************************************)
EXTENDS PanelGuardProofs, NaturalsInduction, WellFoundedInduction

(* Of numbers one is the smallest. *)
LEMMA SmallestNumber ==
    ASSUME NEW S \in SUBSET Nat, S # {}
    PROVE  \E m \in S : \A n \in S : m <= n
<1> DEFINE Less == {ss \in Nat \X Nat : ss[1] < ss[2]}
<1>1. IsWellFoundedOn(Less, Nat)
    BY NatLessThanWellFounded DEF OpToRel
<1> HIDE DEF Less
<1>2. PICK m \in S : \A n \in S : ~ (<<n, m>> \in Less)
    BY <1>1, WFMin
<1>3. \A n \in S : ~ (n < m)
    BY <1>2 DEF Less
<1> QED BY <1>3

-----------------------------------------------------------------------------
(* The ports of a panel *)

PortRows == [World.ports.Port -> PortPage!Row \union {NoPort}]
Listed == [id : World.ports.Port \union {NewPort}, order : Nat, rest : World.ports.Rest, deleted : BOOLEAN]

LEMMA PortsAre ==
    /\ NoPort \notin PortPage!Row /\ NewPort \notin World.ports.Port
    /\ IsFiniteSet(World.ports.Port) /\ World.ports.DefaultRest \in World.ports.Rest
    /\ Cardinality(World.ports.Port) \in Nat
    /\ World.ports.MaxPorts \in Nat /\ World.ports.MaxPorts <= Cardinality(World.ports.Port)
    /\ TRUE \notin {Unanswered, Failed} /\ Closed # "Panel" /\ Failed \notin PortRows
<1>1. /\ IsFiniteSet(World.ports.Port) /\ World.ports.MaxPorts \in 0 .. Cardinality(World.ports.Port)
    BY PortsKnown DEF PortPage!Known, PortPage!IsFiniteSet, IsFiniteSet, PortPage!Cardinality, Cardinality
<1>2. Cardinality(World.ports.Port) \in Nat
    BY <1>1, FS_CardinalityType
<1>3. World.ports.MaxPorts \in Nat /\ World.ports.MaxPorts <= Cardinality(World.ports.Port)
    BY <1>1, <1>2
<1>4. /\ NoPort \notin PortPage!Row /\ NewPort \notin World.ports.Port
      /\ World.ports.DefaultRest \in World.ports.Rest
      /\ TRUE \notin {Unanswered, Failed} /\ Closed # "Panel" /\ Failed \notin PortRows
    BY PortsKnown, Zenon DEF PortPage!Known, PortRows
<1> QED BY <1>1, <1>2, <1>3, <1>4

(* Ports q are those stored, with the numbers from 1 to m. *)
Lists(rows, q, m) ==
    /\ m \in Nat /\ q \in [1 .. m -> World.ports.Port]
    /\ \A i \in 1 .. m : rows[q[i]] # NoPort /\ rows[q[i]].order = i
    /\ \A p \in World.ports.Port : rows[p] # NoPort => \E i \in 1 .. m : q[i] = p
PortsListed(rows) == rows \in PortRows /\ \E m, q : Lists(rows, q, m)

LEMMA ListCounts ==
    ASSUME NEW n \in Nat, NEW f, NEW T, \A i \in 1 .. n : f[i] \in T,
           \A i, j \in 1 .. n : f[i] = f[j] => i = j,
           \A t \in T : \E i \in 1 .. n : f[i] = t
    PROVE  IsFiniteSet(T) /\ Cardinality(T) = n
<1> DEFINE g == [i \in 1 .. n |-> f[i]]
<1>1. g \in Surjection(1 .. n, T) /\ g \in Injection(1 .. n, T)
    BY DEF Surjection, Injection, IsInjective
<1>2. IsFiniteSet(1 .. n) /\ Cardinality(1 .. n) = n
    BY FS_Interval
<1> QED BY <1>1, <1>2, FS_Surjection

LEMMA ListInOrder ==
    ASSUME NEW rows, NEW q, NEW m, Lists(rows, q, m)
    PROVE  PortPage!InOrder(rows) = q
<1> DEFINE S == PortPage!StoredIds(rows)
<1>1. S = {p \in World.ports.Port : rows[p] # NoPort}
    BY DEF PortPage!StoredIds
<1> HIDE DEF S
<1>2. /\ m \in Nat /\ q \in [1 .. m -> World.ports.Port]
      /\ \A i \in 1 .. m : q[i] \in S /\ rows[q[i]].order = i
      /\ \A p \in S : \E i \in 1 .. m : q[i] = p
    BY <1>1 DEF Lists
<1>3. Cardinality(S) = m
  <2>1. \A i, j \in 1 .. m : q[i] = q[j] => i = j
      BY <1>2
  <2>2. m \in Nat /\ (\A i \in 1 .. m : q[i] \in S) /\ (\A p \in S : \E i \in 1 .. m : q[i] = p)
      BY <1>2
  <2> QED BY <2>1, <2>2, ListCounts
<1>4. ASSUME NEW i \in 1 .. m
      PROVE  Cardinality({p \in S : rows[p].order <= rows[q[i]].order}) = i
  <2> DEFINE T == {p \in S : rows[p].order <= rows[q[i]].order}
  <2>1. i \in Nat /\ \A j \in 1 .. i : j \in 1 .. m
      BY <1>2
  <2>2. \A j \in 1 .. i : q[j] \in T
      BY <1>2, <2>1
  <2>3. \A j, k \in 1 .. i : q[j] = q[k] => j = k
      BY <1>2, <2>1
  <2>4. \A p \in T : \E j \in 1 .. i : q[j] = p
      BY <1>2, <2>1
  <2> HIDE DEF T
  <2>5. Cardinality(T) = i
      BY <2>1, <2>2, <2>3, <2>4, ListCounts
  <2> QED BY <2>5 DEF T
<1>5. ASSUME NEW i \in 1 .. m
      PROVE  (CHOOSE p \in S : Cardinality({o \in S : rows[o].order <= rows[p].order}) = i) = q[i]
  <2>1. \A p \in S : Cardinality({o \in S : rows[o].order <= rows[p].order}) = i => p = q[i]
      BY <1>2, <1>4
  <2> QED BY <1>2, <1>4, <2>1
<1>6. PortPage!InOrder(rows) =
          [i \in 1 .. m |-> CHOOSE p \in S : Cardinality({o \in S : rows[o].order <= rows[p].order}) = i]
    BY <1>3 DEF PortPage!InOrder, S, PortPage!Cardinality, Cardinality
<1> QED BY <1>2, <1>5, <1>6

(* The ports stored at first. *)
LEMMA StoredAreListed ==
    ASSUME NEW rows \in World.ports.StoredPorts
    PROVE  PortsListed(rows)
<1> DEFINE S == PortPage!StoredIds(rows)
           number == [p \in S |-> rows[p].order]
           q == [i \in 1 .. Cardinality(S) |-> CHOOSE p \in S : number[p] = i]
<1>1. rows \in PortRows
    BY PortsKnown DEF PortPage!Known, PortRows
<1>2. \A p \in S : /\ rows[p].order \in 1 .. Cardinality(S)
                   /\ \A o \in S : rows[o].order = rows[p].order => o = p
    BY PortsKnown DEF PortPage!Known, PortPage!Cardinality, Cardinality
<1>3. S = {p \in World.ports.Port : rows[p] # NoPort}
    BY DEF PortPage!StoredIds
<1>4. IsFiniteSet(S) /\ Cardinality(S) \in Nat
    BY <1>3, PortsAre, FS_Subset, FS_CardinalityType
<1> HIDE DEF S
<1>5. number \in Injection(S, 1 .. Cardinality(S))
    BY <1>2 DEF Injection, IsInjective
<1>6. IsFiniteSet(1 .. Cardinality(S)) /\ Cardinality(1 .. Cardinality(S)) = Cardinality(S)
    BY <1>4, FS_Interval
<1>7. number \in Surjection(S, 1 .. Cardinality(S))
    BY <1>5, <1>6, FS_Injection
<1>8. \A i \in 1 .. Cardinality(S) : q[i] \in S /\ rows[q[i]].order = i
  <2>1. \A i \in 1 .. Cardinality(S) : \E p \in S : number[p] = i
      BY <1>7 DEF Surjection
  <2> QED BY <2>1
<1>9. \A p \in S : q[rows[p].order] = p
    BY <1>2, <1>8
<1>10. q \in [1 .. Cardinality(S) -> World.ports.Port]
    BY <1>3, <1>8
<1> HIDE DEF q
<1>11. Lists(rows, q, Cardinality(S))
    BY <1>2, <1>3, <1>4, <1>8, <1>9, <1>10 DEF Lists
<1> QED BY <1>1, <1>11 DEF PortsListed

-----------------------------------------------------------------------------
(* The list the page shows *)

LEMMA ListedIs ==
    ASSUME NEW ports \in Seq(Listed)
    PROVE  /\ DOMAIN ports = 1 .. Len(ports) /\ Len(ports) \in Nat
           /\ \A i \in 1 .. Len(ports) : ports[i] \in Listed
BY LenProperties, ElementOfSeq

(* Those shown have places from 1, each its own. *)
LEMMA PlacesAreNumbers ==
    ASSUME NEW ports, NEW len \in Nat, DOMAIN ports = 1 .. len, NEW S, S = PortPage!Shown(ports)
    PROVE  /\ S \subseteq 1 .. len /\ Cardinality(S) \in Nat /\ Cardinality(S) <= len
           /\ \A i \in S : PortPage!PlaceOf(ports, i) \in 1 .. Cardinality(S)
           /\ \A i, j \in S : PortPage!PlaceOf(ports, i) = PortPage!PlaceOf(ports, j) => i = j
           /\ \A n \in 1 .. Cardinality(S) : \E i \in S : PortPage!PlaceOf(ports, i) = n
<1> DEFINE order == {p \in S \X S : p[1] <= p[2]}
<1>1. S \subseteq 1 .. len
    BY DEF PortPage!Shown
<1>2. IsFiniteSet(S) /\ Cardinality(S) <= len
  <2>1. IsFiniteSet(1 .. len) /\ Cardinality(1 .. len) = len
      BY FS_Interval
  <2> QED BY <1>1, <2>1, FS_Subset
<1>3. \A i \in S : i \in Int
    BY <1>1
<1>4. \A i, j \in S : <<i, j>> \in order <=> i <= j
    OBVIOUS
<1>5. \A i \in S : PortPage!PlaceOf(ports, i) = Cardinality(UpTo(S, order, i))
  <2>1. ASSUME NEW i \in S PROVE {j \in S : j <= i} = UpTo(S, order, i)
      BY <1>4 DEF UpTo
  <2> QED BY <2>1 DEF PortPage!PlaceOf, PortPage!Cardinality, Cardinality
<1> HIDE DEF order
<1>6. IsOrder(S, order)
    BY <1>3, <1>4 DEF IsOrder
<1>7. /\ Cardinality(S) \in Nat
      /\ \A n \in S : Cardinality(UpTo(S, order, n)) \in 1 .. Cardinality(S)
      /\ \A m, n \in S : Cardinality(UpTo(S, order, m)) = Cardinality(UpTo(S, order, n)) => m = n
      /\ \A i \in 1 .. Cardinality(S) : \E n \in S : Cardinality(UpTo(S, order, n)) = i
    BY <1>2, <1>6, RanksAreNumbers
<1> QED BY <1>1, <1>2, <1>5, <1>7

(* Visible lists those shown in their places. *)
VisibleAt(ports, at, k) ==
    /\ k \in Nat /\ k <= Len(ports) /\ at \in [1 .. k -> PortPage!Shown(ports)]
    /\ \A n \in 1 .. k : PortPage!PlaceOf(ports, at[n]) = n
    /\ \A i \in PortPage!Shown(ports) : \E n \in 1 .. k : at[n] = i
    /\ PortPage!Visible(ports) = [n \in 1 .. k |-> ports[at[n]]]

LEMMA VisibleLists ==
    ASSUME NEW ports \in Seq(Listed)
    PROVE  \E k, at : VisibleAt(ports, at, k)
<1> DEFINE S == PortPage!Shown(ports)
           k == Cardinality(S)
           at == [n \in 1 .. k |-> CHOOSE i \in S : PortPage!PlaceOf(ports, i) = n]
<1>1. DOMAIN ports = 1 .. Len(ports) /\ Len(ports) \in Nat
    BY ListedIs
<1> HIDE DEF S
<1>2. /\ S \subseteq 1 .. Len(ports) /\ Cardinality(S) \in Nat /\ Cardinality(S) <= Len(ports)
      /\ \A i \in S : PortPage!PlaceOf(ports, i) \in 1 .. Cardinality(S)
      /\ \A i, j \in S : PortPage!PlaceOf(ports, i) = PortPage!PlaceOf(ports, j) => i = j
      /\ \A n \in 1 .. Cardinality(S) : \E i \in S : PortPage!PlaceOf(ports, i) = n
    BY <1>1, PlacesAreNumbers DEF S
<1>3. \A n \in 1 .. k : at[n] \in S /\ PortPage!PlaceOf(ports, at[n]) = n
    BY <1>2
<1>4. \A i \in S : at[PortPage!PlaceOf(ports, i)] = i
    BY <1>2, <1>3
<1>5. PortPage!Visible(ports) = [n \in 1 .. k |-> ports[at[n]]]
    BY DEF PortPage!Visible, S, PortPage!Cardinality, Cardinality
<1>6. at \in [1 .. k -> S]
    BY <1>3
<1> HIDE DEF at, k
<1>7. k \in Nat /\ k <= Len(ports)
    BY <1>2 DEF k
<1>8. \A i \in S : \E n \in 1 .. k : at[n] = i
    BY <1>2, <1>4 DEF k
<1>9. VisibleAt(ports, at, k)
    BY <1>3, <1>5, <1>6, <1>7, <1>8 DEF VisibleAt, S
<1> QED BY <1>9

(* What the page lists is what is stored, as the user changed it; it has   *)
(* place for no more ports than there are ids.                             *)
ListFits(ports) ==
    /\ ports \in Seq(Listed) /\ Len(ports) <= Cardinality(World.ports.Port)
    /\ \A i, j \in DOMAIN ports : ports[i].id = ports[j].id => i = j \/ ports[i].id = NewPort
    /\ \A i \in DOMAIN ports : ports[i].id = NewPort => i \in PortPage!Shown(ports)
    /\ \A p \in World.ports.Port : db[p] # NoPort <=> \E i \in DOMAIN ports : ports[i].id = p
IsNumbered(ports) == \A i \in PortPage!Shown(ports) : ports[i].order = PortPage!PlaceOf(ports, i)
PortsFit(ports) == ListFits(ports) /\ IsNumbered(ports)

(* Two lists of the same length with the same ports deleted. *)
LEMMA SamePlaces ==
    ASSUME NEW ports \in Seq(Listed), NEW others, DOMAIN others = DOMAIN ports,
           \A i \in DOMAIN ports : others[i].deleted = ports[i].deleted
    PROVE  /\ PortPage!Shown(others) = PortPage!Shown(ports)
           /\ \A i : PortPage!PlaceOf(others, i) = PortPage!PlaceOf(ports, i)
<1>1. PortPage!Shown(others) = PortPage!Shown(ports)
    BY DEF PortPage!Shown
<1> QED BY <1>1 DEF PortPage!PlaceOf

LEMMA RenumberedFits ==
    ASSUME NEW ports, ListFits(ports), NEW others, others = PortPage!Renumbered(ports)
    PROVE  PortsFit(others)
<1>1. /\ ports \in Seq(Listed) /\ DOMAIN ports = 1 .. Len(ports) /\ Len(ports) \in Nat
      /\ \A i \in DOMAIN ports : ports[i] \in Listed
    BY ListedIs DEF ListFits
<1>2. /\ PortPage!Shown(ports) \subseteq DOMAIN ports
      /\ \A i \in PortPage!Shown(ports) : PortPage!PlaceOf(ports, i) \in Nat
    BY <1>1, PlacesAreNumbers
<1>3. /\ DOMAIN others = DOMAIN ports
      /\ \A i \in DOMAIN ports : others[i] =
            IF i \in PortPage!Shown(ports) THEN [ports[i] EXCEPT !.order = PortPage!PlaceOf(ports, i)]
            ELSE ports[i]
    BY DEF PortPage!Renumbered, PortPage!Shown
<1>4. ASSUME NEW i \in DOMAIN ports
      PROVE  /\ others[i] \in Listed /\ others[i].id = ports[i].id /\ others[i].deleted = ports[i].deleted
             /\ i \in PortPage!Shown(ports) => others[i].order = PortPage!PlaceOf(ports, i)
    BY <1>1, <1>2, <1>3 DEF Listed
<1>5. /\ PortPage!Shown(others) = PortPage!Shown(ports)
      /\ \A i : PortPage!PlaceOf(others, i) = PortPage!PlaceOf(ports, i)
    BY <1>1, <1>3, <1>4, SamePlaces
<1>6. others \in Seq(Listed) /\ Len(others) = Len(ports)
  <2>1. others \in [1 .. Len(ports) -> Listed]
    <3>1. others = [i \in DOMAIN ports |-> others[i]]
        BY DEF PortPage!Renumbered
    <3> QED BY <1>1, <1>4, <3>1
  <2>2. others \in Seq(Listed)
      BY <1>1, <2>1, SeqDef
  <2> QED BY <1>1, <1>3, <2>2, LenProperties
<1>7. ListFits(others)
    BY <1>1, <1>3, <1>4, <1>5, <1>6 DEF ListFits
<1>8. IsNumbered(others)
    BY <1>2, <1>4, <1>5 DEF IsNumbered
<1> QED BY <1>7, <1>8 DEF PortsFit

-----------------------------------------------------------------------------
(* Edited lists *)

LEMMA AddedFits ==
    ASSUME NEW ports, ListFits(ports), Len(ports) < World.ports.MaxPorts,
           NEW new \in Listed, new.id = NewPort, ~ new.deleted
    PROVE  ListFits(Append(ports, new))
<1> DEFINE more == Append(ports, new)
<1>1. /\ ports \in Seq(Listed) /\ DOMAIN ports = 1 .. Len(ports) /\ Len(ports) \in Nat
      /\ \A i \in DOMAIN ports : ports[i] \in Listed
    BY ListedIs DEF ListFits
<1>2. /\ more \in Seq(Listed) /\ Len(more) = Len(ports) + 1 /\ DOMAIN more = 1 .. Len(ports) + 1
      /\ \A i \in 1 .. Len(ports) : more[i] = ports[i]
      /\ more[Len(ports) + 1] = new
    BY <1>1, AppendProperties
<1> HIDE DEF more
<1>3. Len(more) <= Cardinality(World.ports.Port) /\ NewPort \notin World.ports.Port
    BY <1>1, <1>2, PortsAre
<1>4. ASSUME NEW i \in 1 .. Len(ports) + 1
      PROVE  (i \in 1 .. Len(ports) /\ more[i] = ports[i]) \/ more[i] = new
    BY <1>1, <1>2
<1>5. \A i, j \in DOMAIN more : more[i].id = more[j].id => i = j \/ more[i].id = NewPort
    BY <1>1, <1>2, <1>4 DEF ListFits
<1>6. \A i \in DOMAIN more : more[i].id = NewPort => i \in PortPage!Shown(more)
    BY <1>1, <1>2, <1>4 DEF ListFits, PortPage!Shown
<1>7. \A p \in World.ports.Port : db[p] # NoPort <=> \E i \in DOMAIN more : more[i].id = p
  <2>1. ASSUME NEW p \in World.ports.Port
        PROVE  (\E i \in DOMAIN ports : ports[i].id = p) <=> \E i \in DOMAIN more : more[i].id = p
      BY <1>1, <1>2, <1>3, <1>4
  <2> QED BY <2>1 DEF ListFits
<1>8. ListFits(more)
    BY <1>2, <1>3, <1>5, <1>6, <1>7 DEF ListFits
<1> QED BY <1>8 DEF more

(* A port that is not stored goes. *)
LEMMA WithoutFits ==
    ASSUME NEW ports, ListFits(ports), NEW i \in DOMAIN ports, ports[i].id = NewPort
    PROVE  ListFits(PortPage!Without(ports, i))
<1>1. /\ ports \in Seq(Listed) /\ DOMAIN ports = 1 .. Len(ports) /\ Len(ports) \in Nat
      /\ \A j \in DOMAIN ports : ports[j] \in Listed
    BY ListedIs DEF ListFits
<1> DEFINE left == SubSeq(ports, 1, i - 1)
           right == SubSeq(ports, i + 1, Len(ports))
           rest == left \o right
<1>2. /\ left \in Seq(Listed) /\ Len(left) = i - 1
      /\ \A j \in 1 .. i - 1 : left[j] = ports[j]
    BY <1>1, SubSeqProperties
<1>3. /\ right \in Seq(Listed) /\ Len(right) = Len(ports) - i
      /\ \A j \in 1 .. Len(ports) - i : right[j] = ports[j + i]
    BY <1>1, SubSeqProperties
<1>4. PortPage!Without(ports, i) = rest
    BY DEF PortPage!Without
<1> HIDE DEF left, right
<1>5. /\ rest \in Seq(Listed) /\ Len(rest) = Len(ports) - 1 /\ DOMAIN rest = 1 .. Len(ports) - 1
      /\ \A j \in 1 .. Len(ports) - 1 : rest[j] = IF j < i THEN ports[j] ELSE ports[j + 1]
  <2>1. /\ rest \in Seq(Listed) /\ Len(rest) = Len(left) + Len(right)
        /\ \A j \in 1 .. Len(left) + Len(right) :
              rest[j] = IF j <= Len(left) THEN left[j] ELSE right[j - Len(left)]
      BY <1>2, <1>3, ConcatProperties
  <2>2. Len(rest) = Len(ports) - 1 /\ DOMAIN rest = 1 .. Len(rest)
      BY <1>1, <1>2, <1>3, <2>1, LenProperties
  <2>3. ASSUME NEW j \in 1 .. Len(ports) - 1
        PROVE  rest[j] = IF j < i THEN ports[j] ELSE ports[j + 1]
    <3>1. CASE j < i
        BY <1>1, <1>2, <2>1, <2>2, <3>1
    <3>2. CASE ~ (j < i)
      <4>1. rest[j] = right[j - (i - 1)]
          BY <1>1, <1>2, <2>1, <2>2, <3>2
      <4>2. j - (i - 1) \in 1 .. Len(ports) - i /\ j - (i - 1) + i = j + 1
          BY <1>1, <3>2
      <4> QED BY <1>3, <3>2, <4>1, <4>2
    <3> QED BY <3>1, <3>2
  <2> QED BY <2>1, <2>2, <2>3
<1> HIDE DEF rest
<1> DEFINE old(j) == IF j < i THEN j ELSE j + 1
<1>6. ASSUME NEW j \in DOMAIN rest
      PROVE  old(j) \in DOMAIN ports /\ rest[j] = ports[old(j)]
    BY <1>1, <1>5
<1>7. \A j, k \in DOMAIN rest : old(j) = old(k) => j = k
    BY <1>1, <1>5
<1>8. ASSUME NEW k \in DOMAIN ports, k # i PROVE \E j \in DOMAIN rest : old(j) = k
  <2>1. CASE k < i
      BY <1>1, <1>5, <2>1
  <2>2. CASE k > i
    <3>1. k - 1 \in DOMAIN rest /\ old(k - 1) = k
        BY <1>1, <1>5, <2>2
    <3> QED BY <3>1
  <2> QED BY <1>1, <1>8, <2>1, <2>2
<1> HIDE DEF old
<1>9. \A j, k \in DOMAIN rest : rest[j].id = rest[k].id => j = k \/ rest[j].id = NewPort
    BY <1>6, <1>7 DEF ListFits
<1>10. \A j \in DOMAIN rest : rest[j].id = NewPort => j \in PortPage!Shown(rest)
    BY <1>6 DEF ListFits, PortPage!Shown
<1>11. \A p \in World.ports.Port : db[p] # NoPort <=> \E j \in DOMAIN rest : rest[j].id = p
  <2>1. ASSUME NEW p \in World.ports.Port
        PROVE  (\E k \in DOMAIN ports : ports[k].id = p) <=> \E j \in DOMAIN rest : rest[j].id = p
      BY <1>6, <1>8, PortsAre
  <2> QED BY <2>1 DEF ListFits
<1>12. Len(rest) <= Cardinality(World.ports.Port)
    BY <1>1, <1>5, PortsAre DEF ListFits
<1> QED BY <1>4, <1>5, <1>9, <1>10, <1>11, <1>12 DEF ListFits

(* Other entries for the same ports. *)
LEMMA ReplacedFits ==
    ASSUME NEW ports, ListFits(ports), NEW others, NEW old,
           others \in [DOMAIN ports -> Listed],
           \A i \in DOMAIN ports : old[i] \in DOMAIN ports /\ others[i].id = ports[old[i]].id,
           \A i, j \in DOMAIN ports : old[i] = old[j] => i = j,
           \A i \in DOMAIN ports : \E j \in DOMAIN ports : old[j] = i,
           \A i \in DOMAIN ports : others[i].id = NewPort => i \in PortPage!Shown(others)
    PROVE  ListFits(others)
<1>1. /\ ports \in Seq(Listed) /\ DOMAIN ports = 1 .. Len(ports) /\ Len(ports) \in Nat
    BY ListedIs DEF ListFits
<1>2. others \in Seq(Listed) /\ Len(others) = Len(ports) /\ DOMAIN others = DOMAIN ports
    BY <1>1, SeqDef, LenProperties
<1>3. ASSUME NEW i \in DOMAIN ports, NEW j \in DOMAIN ports, others[i].id = others[j].id
      PROVE  i = j \/ others[i].id = NewPort
  <2>1. /\ old[i] \in DOMAIN ports /\ others[i].id = ports[old[i]].id
        /\ old[j] \in DOMAIN ports /\ others[j].id = ports[old[j]].id
      OBVIOUS
  <2>2. \A k, l \in DOMAIN ports : ports[k].id = ports[l].id => k = l \/ ports[k].id = NewPort
      BY DEF ListFits
  <2>3. PICK k, l : k = old[i] /\ l = old[j]
      OBVIOUS
  <2>4. k \in DOMAIN ports /\ l \in DOMAIN ports
        /\ others[i].id = ports[k].id /\ others[j].id = ports[l].id
      BY ONLY <2>1, <2>3
  <2>5. k = l \/ ports[k].id = NewPort
      BY ONLY <1>3, <2>2, <2>4
  <2>6. k = l => i = j
      BY ONLY <2>3, i \in DOMAIN ports, j \in DOMAIN ports,
              \A m, n \in DOMAIN ports : old[m] = old[n] => m = n
  <2> QED BY <2>4, <2>5, <2>6
<1>4. ASSUME NEW p \in World.ports.Port
      PROVE  (\E i \in DOMAIN ports : ports[i].id = p) <=> \E i \in DOMAIN others : others[i].id = p
  <2>1. ASSUME NEW i \in DOMAIN ports, ports[i].id = p PROVE \E j \in DOMAIN others : others[j].id = p
    <3>1. PICK j \in DOMAIN ports : old[j] = i
        OBVIOUS
    <3>2. others[j].id = ports[i].id
        BY <3>1
    <3> QED BY <1>2, <2>1, <3>2
  <2>2. ASSUME NEW i \in DOMAIN others, others[i].id = p PROVE \E j \in DOMAIN ports : ports[j].id = p
    <3>1. old[i] \in DOMAIN ports /\ ports[old[i]].id = p
        BY <1>2, <2>2
    <3> QED BY <3>1
  <2> QED BY <2>1, <2>2
<1> QED BY <1>2, <1>3, <1>4 DEF ListFits

-----------------------------------------------------------------------------
(* The invariant *)

PortFields == {"route", "state", "ports", "saving"}

PortStoreFits(what) ==
    \E ports : /\ PortsFit(ports)
               /\ what.changes = PortPage!Visible(ports)
               /\ what.deletes = {ports[i].id : i \in {j \in DOMAIN ports : ports[j].deleted}}

(* The changes are stored as they were sent. *)
PortsAreStored(what) ==
    \E k, q : /\ Lists(db, q, k) /\ DOMAIN what.changes = 1 .. k
              /\ \A n \in 1 .. k : what.changes[n].order = n /\ what.changes[n].rest = db[q[n]].rest

PortCallOK(c) ==
    /\ DOMAIN c = {"kind", "what", "answer"} /\ c.kind \in {"fetch", "store"}
    /\ page.route = "Panel"
    /\ c.kind = "fetch" => ~ Shows(page) /\ (c.answer \in {Unanswered, Failed} \/ PortsFit(c.answer))
    /\ c.kind = "store" =>
          /\ Shows(page) => page.saving = TRUE
          /\ c.answer \in {Unanswered, Failed, TRUE}
          /\ c.answer = Unanswered => PortStoreFits(c.what)
          /\ c.answer = TRUE => PortsAreStored(c.what)

PortsCurrent ==
    Shows(page) => \/ PortsFit(page.ports)
                   \/ \E c \in calls : c.kind = "store" /\ c.answer = TRUE

PortInv ==
    /\ PortsListed(db)
    /\ DOMAIN page = PortFields /\ page.route \in {Closed, "Panel"} /\ (page.route = Closed => ~ Shows(page))
    /\ calls = {} \/ \E c : calls = {c} /\ PortCallOK(c)
    /\ Shows(page) => calls = {} \/ page.saving = TRUE
    /\ PortsCurrent

LEMMA PortInit == ASSUME PortPage!Init PROVE PortInv
<1>1. PortsListed(db)
    BY StoredAreListed DEF PortPage!Init
<1>2. /\ page = [route |-> Closed, state |-> Pending, ports |-> <<>>, saving |-> FALSE] /\ calls = {}
    BY DEF PortPage!Init, PortPage!Empty
<1>3. page.state = Pending /\ DOMAIN page = PortFields
    BY <1>2 DEF PortFields
<1> QED BY <1>1, <1>2, <1>3 DEF PortInv, PortsCurrent, Shows

LEMMA PortFormIsQuiet ==
    ASSUME PortInv, PortPage!Form
    PROVE  Shows(page) /\ calls = {} /\ PortsFit(page.ports) /\ page.route # Closed
           /\ DOMAIN page = PortFields
BY DEF PortInv, PortPage!Form, PortsCurrent, Shows

(* The list is edited. *)
LEMMA PortsEdited ==
    ASSUME PortInv, PortPage!Form, NEW ports, PortsFit(ports),
           page' = [page EXCEPT !.ports = ports], db' = db, calls' = calls
    PROVE  PortInv'
<1>1. Shows(page) /\ calls = {} /\ page.route # Closed /\ DOMAIN page = PortFields
    BY PortFormIsQuiet
<1>2. /\ DOMAIN page' = PortFields /\ page'.route = page.route /\ page'.state = page.state
      /\ page'.ports = ports
    BY <1>1 DEF PortFields
<1>3. PortsFit(ports)'
    BY DEF PortsFit, ListFits
<1>4. PortsFit(page.ports)'
    BY <1>2, <1>3 DEF PortsFit, ListFits, IsNumbered
<1>5. PortsListed(db')
    BY DEF PortInv
<1> QED BY <1>1, <1>2, <1>4, <1>5 DEF PortInv, PortsCurrent, Shows

LEMMA PortsRenumbered ==
    ASSUME PortInv, PortPage!Form, NEW ports, ListFits(ports), PortPage!SetPorts(ports), db' = db, calls' = calls
    PROVE  PortInv'
<1>1. PICK others : others = PortPage!Renumbered(ports)
    OBVIOUS
<1>2. PortsFit(others)
    BY <1>1, RenumberedFits
<1>3. page' = [page EXCEPT !.ports = others]
    BY <1>1 DEF PortPage!SetPorts
<1> QED BY <1>2, <1>3, PortsEdited

LEMMA PortAdd == ASSUME PortInv, PortPage!AddPort PROVE PortInv'
<1>1. /\ PortPage!Form /\ db' = db /\ calls' = calls /\ Len(page.ports) < World.ports.MaxPorts
    BY DEF PortPage!AddPort, PortPage!Editing, PortPage!Len, Len
<1>2. PICK ports : ports = page.ports
    OBVIOUS
<1>3. ListFits(ports) /\ ports \in Seq(Listed)
    BY <1>1, <1>2, PortFormIsQuiet DEF PortsFit, ListFits
<1>4. /\ DOMAIN ports = 1 .. Len(ports) /\ Len(ports) \in Nat
      /\ \A i \in 1 .. Len(ports) : ports[i] \in Listed
    BY <1>3, ListedIs
<1>5. PICK rest : rest = IF ports = <<>> THEN World.ports.DefaultRest ELSE ports[Len(ports)].rest
    OBVIOUS
<1>6. rest \in World.ports.Rest
  <2>1. CASE ports = <<>>
      BY <1>5, <2>1, PortsAre
  <2>2. CASE ports # <<>>
    <3>1. Len(ports) \in 1 .. Len(ports)
        BY <1>3, <1>4, <2>2, EmptySeq
    <3>2. ports[Len(ports)].rest \in World.ports.Rest
        BY <1>4, <3>1 DEF Listed
    <3> QED BY <1>5, <2>2, <3>2
  <2> QED BY <2>1, <2>2
<1>7. PICK new : new = [id |-> NewPort, order |-> 0, rest |-> rest, deleted |-> FALSE]
    OBVIOUS
<1>8. new \in Listed /\ new.id = NewPort /\ ~ new.deleted
    BY <1>6, <1>7, Zenon DEF Listed
<1>9. PICK more : more = Append(ports, new)
    OBVIOUS
<1>10. ListFits(more)
    BY <1>1, <1>2, <1>3, <1>8, <1>9, AddedFits
<1>11. PortPage!SetPorts(more)
    BY <1>2, <1>5, <1>7, <1>9 DEF PortPage!AddPort, PortPage!Append, Append, PortPage!Len, Len
<1> QED BY <1>1, <1>10, <1>11, PortsRenumbered

LEMMA PortDeleted == ASSUME PortInv, NEW i \in DOMAIN page.ports, PortPage!MarkDeleted(i) PROVE PortInv'
<1>1. PortPage!Form /\ db' = db /\ calls' = calls
    BY DEF PortPage!MarkDeleted, PortPage!Editing
<1>2. PICK ports : ports = page.ports
    OBVIOUS
<1>3. ListFits(ports) /\ ports \in Seq(Listed)
    BY <1>1, <1>2, PortFormIsQuiet DEF PortsFit, ListFits
<1>4. /\ DOMAIN ports = 1 .. Len(ports) /\ \A j \in DOMAIN ports : ports[j] \in Listed
    BY <1>3, ListedIs
<1>5. PICK others : others = PortPage!WithoutPort(i)
    OBVIOUS
<1>6. ListFits(others)
  <2>1. CASE ports[i].id = NewPort
      BY <1>2, <1>3, <1>5, <2>1, WithoutFits DEF PortPage!WithoutPort
  <2>2. CASE ports[i].id # NewPort
    <3>1. others = [ports EXCEPT ![i].deleted = TRUE]
        BY <1>2, <1>5, <2>2 DEF PortPage!WithoutPort
    <3>2. PICK marked : marked = [ports[i] EXCEPT !.deleted = TRUE]
        OBVIOUS
    <3>3. marked \in Listed /\ marked.id = ports[i].id
      <4>1. ports[i] \in Listed
          BY <1>2, <1>4
      <4> QED BY <3>2, <4>1, Zenon DEF Listed
    <3>4. others \in [DOMAIN ports -> Listed] /\ \A j \in DOMAIN ports : others[j] = IF j = i THEN marked ELSE ports[j]
        BY <1>2, <1>4, <3>1, <3>2, <3>3
    <3>5. PICK old : old = [j \in DOMAIN ports |-> j]
        OBVIOUS
    <3>6. \A j \in DOMAIN ports : others[j].id = NewPort => j \in PortPage!Shown(others)
        BY <1>3, <2>2, <3>3, <3>4 DEF ListFits, PortPage!Shown
    <3>7. /\ \A j \in DOMAIN ports : old[j] \in DOMAIN ports /\ others[j].id = ports[old[j]].id
          /\ \A j, l \in DOMAIN ports : old[j] = old[l] => j = l
          /\ \A j \in DOMAIN ports : \E l \in DOMAIN ports : old[l] = j
        BY <3>3, <3>4, <3>5
    <3> QED BY <1>3, <3>4, <3>6, <3>7, ReplacedFits
  <2> QED BY <2>1, <2>2
<1>7. PortPage!SetPorts(others)
    BY <1>5 DEF PortPage!MarkDeleted
<1> QED BY <1>1, <1>6, <1>7, PortsRenumbered

LEMMA PortsSwapped ==
    ASSUME PortInv, NEW i \in DOMAIN page.ports, NEW j \in DOMAIN page.ports, PortPage!Swap(i, j)
    PROVE  PortInv'
<1>1. /\ PortPage!Form /\ db' = db /\ calls' = calls
      /\ ~ page.ports[i].deleted /\ ~ page.ports[j].deleted
    BY DEF PortPage!Swap, PortPage!Editing
<1>2. PICK ports : ports = page.ports
    OBVIOUS
<1>3. ListFits(ports) /\ ports \in Seq(Listed)
    BY <1>1, <1>2, PortFormIsQuiet DEF PortsFit, ListFits
<1>4. /\ DOMAIN ports = 1 .. Len(ports) /\ \A l \in DOMAIN ports : ports[l] \in Listed
    BY <1>3, ListedIs
<1>5. PICK others : others = [ports EXCEPT ![i] = ports[j], ![j] = ports[i]]
    OBVIOUS
<1>6. PICK old : old = [l \in DOMAIN ports |-> IF l = j THEN i ELSE IF l = i THEN j ELSE l]
    OBVIOUS
<1>7. others \in [DOMAIN ports -> Listed] /\ \A l \in DOMAIN ports : others[l] = ports[old[l]] /\ old[l] \in DOMAIN ports
    BY <1>2, <1>4, <1>5, <1>6
<1>8. /\ \A k, l \in DOMAIN ports : old[k] = old[l] => k = l
      /\ \A l \in DOMAIN ports : \E k \in DOMAIN ports : old[k] = l
    BY <1>2, <1>6
<1>9. \A l \in DOMAIN ports : others[l].id = NewPort => l \in PortPage!Shown(others)
    BY <1>3, <1>7 DEF ListFits, PortPage!Shown
<1>10. ListFits(others)
  <2>1. \A l \in DOMAIN ports : old[l] \in DOMAIN ports /\ others[l].id = ports[old[l]].id
      BY <1>7
  <2> QED BY <1>3, <1>7, <1>8, <1>9, <2>1, ReplacedFits
<1>11. PortPage!SetPorts(others)
    BY <1>2, <1>5 DEF PortPage!Swap
<1> QED BY <1>1, <1>10, <1>11, PortsRenumbered

LEMMA PortUpdated ==
    ASSUME PortInv, NEW i \in DOMAIN page.ports, NEW rest \in World.ports.Rest, PortPage!UpdateRest(i, rest)
    PROVE  PortInv'
<1>1. PortPage!Form /\ db' = db /\ calls' = calls /\ page' = [page EXCEPT !.ports[i].rest = rest]
    BY DEF PortPage!UpdateRest, PortPage!Editing
<1>2. PICK ports : ports = page.ports
    OBVIOUS
<1>3. PortsFit(ports) /\ ListFits(ports) /\ ports \in Seq(Listed) /\ DOMAIN page = PortFields
    BY <1>1, <1>2, PortFormIsQuiet DEF PortsFit, ListFits
<1>4. /\ DOMAIN ports = 1 .. Len(ports) /\ \A j \in DOMAIN ports : ports[j] \in Listed
    BY <1>3, ListedIs
<1>5. PICK new : new = [ports[i] EXCEPT !.rest = rest]
    OBVIOUS
<1>6. /\ new \in Listed /\ new.id = ports[i].id /\ new.order = ports[i].order /\ new.deleted = ports[i].deleted
  <2>1. ports[i] \in Listed
      BY <1>2, <1>4
  <2> QED BY <1>5, <2>1, Zenon DEF Listed
<1>7. PICK others : others = [ports EXCEPT ![i] = new]
    OBVIOUS
<1>8. /\ others \in [DOMAIN ports -> Listed] /\ DOMAIN others = DOMAIN ports
      /\ \A j \in DOMAIN ports : others[j] = IF j = i THEN new ELSE ports[j]
    BY <1>2, <1>4, <1>6, <1>7
<1>9. \A j \in DOMAIN ports : others[j].deleted = ports[j].deleted
    BY <1>6, <1>8
<1>10. \A j \in DOMAIN ports : others[j].id = ports[j].id /\ others[j].order = ports[j].order
    BY <1>6, <1>8
<1>11. /\ PortPage!Shown(others) = PortPage!Shown(ports)
       /\ \A j : PortPage!PlaceOf(others, j) = PortPage!PlaceOf(ports, j)
    BY <1>3, <1>8, <1>9, SamePlaces
<1>12. ListFits(others)
  <2>1. PICK old : old = [j \in DOMAIN ports |-> j]
      OBVIOUS
  <2>2. /\ \A j \in DOMAIN ports : old[j] \in DOMAIN ports /\ others[j].id = ports[old[j]].id
        /\ \A j, l \in DOMAIN ports : old[j] = old[l] => j = l
        /\ \A j \in DOMAIN ports : \E l \in DOMAIN ports : old[l] = j
        /\ \A j \in DOMAIN ports : others[j].id = NewPort => j \in PortPage!Shown(others)
      BY <1>3, <1>10, <1>11, <2>1 DEF ListFits
  <2> QED BY <1>3, <1>8, <2>2, ReplacedFits
<1>13. PortsFit(others)
  <2>1. PortPage!Shown(ports) \subseteq DOMAIN ports
      BY DEF PortPage!Shown
  <2> QED BY <1>3, <1>10, <1>11, <1>12, <2>1 DEF PortsFit, IsNumbered
<1>14. page' = [page EXCEPT !.ports = others]
    BY <1>1, <1>2, <1>3, <1>5, <1>7 DEF PortFields
<1> QED BY <1>1, <1>13, <1>14, PortsEdited

-----------------------------------------------------------------------------
(* Requests of the page, and answers *)

LEMMA PortFetches ==
    ASSUME PortInv, db' = db, DOMAIN page' = PortFields, page'.route = "Panel", page'.state = Pending,
           NEW what, calls' = {PortPage!Request("fetch", what)}
    PROVE  PortInv'
<1>1. PICK r : r = PortPage!Request("fetch", what)
    OBVIOUS
<1>2. /\ DOMAIN r = {"kind", "what", "answer"} /\ r.kind = "fetch" /\ r.answer = Unanswered
    BY <1>1 DEF PortPage!Request
<1>3. PortCallOK(r)'
    BY <1>2 DEF PortCallOK, Shows
<1>4. PortsListed(db')
    BY DEF PortInv
<1>5. "Panel" # Closed
    BY PortsAre
<1> QED BY <1>1, <1>3, <1>4, <1>5 DEF PortInv, PortsCurrent, Shows

LEMMA PortOpen == ASSUME PortInv, PortPage!Open PROVE PortInv'
<1>1. calls' = {PortPage!Request("fetch", [panel |-> "Panel"])} /\ db' = db /\ calls = {}
    BY DEF PortPage!Open, PortPage!Send, PortPage!Exchange
<1>2. DOMAIN page = PortFields /\ page.route = Closed /\ page' = [page EXCEPT !.route = "Panel"]
    BY DEF PortInv, PortPage!Open
<1>3. DOMAIN page' = PortFields /\ page'.route = "Panel" /\ page'.state = page.state /\ page'.saving = page.saving
    BY <1>2 DEF PortFields
<1>4. PICK r : r = PortPage!Request("fetch", [panel |-> "Panel"])
    OBVIOUS
<1>5. /\ DOMAIN r = {"kind", "what", "answer"} /\ r.kind = "fetch" /\ r.answer = Unanswered
    BY <1>4 DEF PortPage!Request
<1>6. ~ Shows(page)
    BY <1>2 DEF PortInv
<1>7. ~ Shows(page)'
    BY <1>3, <1>6 DEF Shows
<1>8. PortCallOK(r)'
    BY <1>3, <1>5, <1>7 DEF PortCallOK, Shows
<1>9. PortsListed(db')
    BY <1>1 DEF PortInv
<1> QED BY <1>1, <1>3, <1>4, <1>7, <1>8, <1>9, PortsAre DEF PortInv, PortsCurrent, Shows

LEMMA PortSave == ASSUME PortInv, PortPage!Save PROVE PortInv'
<1>1. /\ PortPage!Form /\ db' = db /\ page' = [page EXCEPT !.saving = TRUE]
    BY DEF PortPage!Save
<1>2. /\ Shows(page) /\ calls = {} /\ PortsFit(page.ports) /\ page.route # Closed /\ DOMAIN page = PortFields
    BY <1>1, PortFormIsQuiet
<1>3. /\ DOMAIN page' = PortFields /\ page'.saving = TRUE /\ page'.state = page.state /\ page'.route = page.route
      /\ page'.ports = page.ports
    BY <1>1, <1>2 DEF PortFields
<1>4. PICK what : what = [changes |-> PortPage!Visible(page.ports),
                          deletes |-> {page.ports[i].id :
                              i \in {j \in DOMAIN page.ports : page.ports[j].deleted}}]
    OBVIOUS
<1>5. PICK r : r = PortPage!Request("store", what)
    OBVIOUS
<1>6. calls' = {r}
    BY <1>2, <1>4, <1>5 DEF PortPage!Save, PortPage!Send, PortPage!Exchange
<1>7. /\ DOMAIN r = {"kind", "what", "answer"} /\ r.kind = "store" /\ r.what = what /\ r.answer = Unanswered
    BY <1>5 DEF PortPage!Request
<1>8. PortStoreFits(what)
    BY <1>2, <1>4 DEF PortStoreFits
<1>9. PortStoreFits(what)'
    BY <1>1, <1>8 DEF PortStoreFits, PortsFit, ListFits
<1>10. page.route = "Panel"
    BY <1>2 DEF PortInv
<1>11. PortCallOK(r)'
    BY <1>3, <1>7, <1>9, <1>10, PortsAre DEF PortCallOK, Shows
<1>12. PortsFit(page.ports)'
    BY <1>1, <1>2, <1>3 DEF PortsFit, ListFits, IsNumbered
<1>13. PortsListed(db')
    BY <1>1 DEF PortInv
<1> QED BY <1>2, <1>3, <1>6, <1>11, <1>12, <1>13 DEF PortInv, PortsCurrent, Shows

LEMMA PortTakes ==
    ASSUME PortInv, NEW c \in calls, NEW sent, PortPage!Exchange({c}, sent)
    PROVE  calls = {c} /\ calls' = sent /\ PortCallOK(c)
BY DEF PortInv, PortPage!Exchange

LEMMA PortArrives == ASSUME PortInv, NEW c \in calls, PortPage!PortsFetched(c) PROVE PortInv'
<1>1. /\ calls' = {} /\ PortCallOK(c) /\ c.kind = "fetch" /\ c.answer # Unanswered /\ db' = db
    BY PortTakes DEF PortPage!PortsFetched, PortPage!Arrived
<1>2. /\ DOMAIN page = PortFields /\ page.route # Closed
    BY <1>1, PortsAre DEF PortInv, PortCallOK
<1>3. PortsListed(db')
    BY <1>1 DEF PortInv
<1>4. CASE c.answer = Failed
  <2>1. /\ DOMAIN page' = PortFields /\ page'.route = page.route /\ page'.state = Failed
      BY <1>2, <1>4 DEF PortPage!PortsFetched, PortFields
  <2> QED BY <1>1, <1>2, <1>3, <2>1 DEF PortInv, PortsCurrent, Shows
<1>5. CASE c.answer # Failed
  <2>1. PICK ports : ports = c.answer
      OBVIOUS
  <2>2. /\ DOMAIN page' = PortFields /\ page'.route = page.route /\ page'.state = ports /\ page'.ports = ports
      BY <1>2, <1>5, <2>1 DEF PortPage!PortsFetched, PortFields
  <2>3. PortsFit(ports)
      BY <1>1, <1>5, <2>1 DEF PortCallOK
  <2>4. PortsFit(page.ports)'
      BY <1>1, <2>2, <2>3 DEF PortsFit, ListFits, IsNumbered
  <2> QED BY <1>1, <1>2, <1>3, <2>2, <2>4 DEF PortInv, PortsCurrent, Shows
<1> QED BY <1>4, <1>5

LEMMA PortSaved == ASSUME PortInv, NEW c \in calls, PortPage!Saved(c) PROVE PortInv'
<1>1. /\ PortCallOK(c) /\ c.kind = "store" /\ c.answer # Unanswered /\ db' = db
      /\ DOMAIN page = PortFields /\ page.route = "Panel"
    BY DEF PortInv, PortPage!Saved, PortCallOK
<1>2. PortsListed(db')
    BY <1>1 DEF PortInv
<1>3. CASE c.answer = Failed
  <2>1. calls = {c} /\ calls' = {} /\ TRUE # Failed
      BY <1>3, PortTakes, PortsAre DEF PortPage!Saved, PortPage!Arrived
  <2>2. /\ DOMAIN page' = PortFields /\ page'.route = page.route /\ page'.state = page.state
        /\ page'.ports = page.ports
      BY <1>1, <1>3 DEF PortPage!Saved, PortFields
  <2>3. Shows(page) => PortsFit(page.ports)
      BY <1>3, <2>1 DEF PortInv, PortsCurrent
  <2>4. Shows(page)' => PortsFit(page.ports)'
      BY <1>1, <2>2, <2>3 DEF Shows, PortsFit, ListFits, IsNumbered
  <2> QED BY <1>1, <1>2, <2>1, <2>2, <2>4, PortsAre DEF PortInv, PortsCurrent, Shows
<1>4. CASE c.answer # Failed
  <2>1. calls' = {PortPage!Request("fetch", [panel |-> page.route])}
      BY <1>4, PortTakes DEF PortPage!Saved
  <2>2. /\ DOMAIN page' = PortFields /\ page'.route = page.route /\ page'.state = Pending
      BY <1>1, <1>4 DEF PortPage!Saved, PortFields
  <2> QED BY <1>1, <2>1, <2>2, PortFetches
<1> QED BY <1>3, <1>4

-----------------------------------------------------------------------------
(* What the backend answers *)

(* Ports q in their order, as the page lists them. *)
LEMMA StoredFits ==
    ASSUME db \in PortRows, NEW m, NEW q, Lists(db, q, m),
           NEW ports, ports = [i \in 1 .. m |-> [id |-> q[i], order |-> db[q[i]].order,
                                                 rest |-> db[q[i]].rest, deleted |-> FALSE]]
    PROVE  PortsFit(ports)
<1>1. /\ m \in Nat /\ q \in [1 .. m -> World.ports.Port]
      /\ \A i \in 1 .. m : db[q[i]] # NoPort /\ db[q[i]].order = i
      /\ \A p \in World.ports.Port : db[p] # NoPort => \E i \in 1 .. m : q[i] = p
    BY DEF Lists
<1>2. ASSUME NEW i \in 1 .. m
      PROVE  ports[i] \in Listed /\ ports[i].id = q[i] /\ ports[i].order = i /\ ~ ports[i].deleted
  <2>1. q[i] \in World.ports.Port /\ db[q[i]] # NoPort
      BY <1>1
  <2>2. PICK row \in PortPage!Row : row = db[q[i]]
      BY <2>1 DEF PortRows
  <2>3. row.order \in Nat /\ row.rest \in World.ports.Rest
      BY DEF PortPage!Row
  <2>4. ports[i] = [id |-> q[i], order |-> row.order, rest |-> row.rest, deleted |-> FALSE]
      BY <2>2
  <2>5. ports[i] \in Listed /\ ports[i].id = q[i] /\ ports[i].order = row.order /\ ~ ports[i].deleted
      BY <2>1, <2>3, <2>4, Zenon DEF Listed
  <2> QED BY <1>1, <2>2, <2>5
<1>3. ports \in Seq(Listed) /\ Len(ports) = m /\ DOMAIN ports = 1 .. m
  <2>1. ports \in [1 .. m -> Listed]
      BY <1>2
  <2>2. ports \in Seq(Listed)
      BY <1>1, <2>1, SeqDef
  <2> QED BY <1>1, <2>1, <2>2, LenProperties
<1>4. \A i, j \in 1 .. m : q[i] = q[j] => i = j
    BY <1>1
<1>5. m <= Cardinality(World.ports.Port)
  <2>1. PICK T : T = {q[i] : i \in 1 .. m}
      OBVIOUS
  <2>2. T \subseteq World.ports.Port
      BY <1>1, <2>1
  <2>3. IsFiniteSet(T) /\ Cardinality(T) = m
    <3>1. (\A i \in 1 .. m : q[i] \in T) /\ (\A p \in T : \E i \in 1 .. m : q[i] = p)
        BY <2>1
    <3>2. m \in Nat
        BY <1>1
    <3> QED BY ONLY <1>4, <3>1, <3>2, ListCounts
  <2> QED BY <2>2, <2>3, PortsAre, FS_Subset
<1>6. PortPage!Shown(ports) = 1 .. m
    BY <1>2, <1>3 DEF PortPage!Shown
<1>7. ASSUME NEW i \in 1 .. m PROVE PortPage!PlaceOf(ports, i) = i
  <2>1. {j \in 1 .. m : j <= i} = 1 .. i /\ i \in Nat
      BY <1>1
  <2>2. Cardinality(1 .. i) = i
      BY <2>1, FS_Interval
  <2> QED BY <1>6, <2>1, <2>2 DEF PortPage!PlaceOf, PortPage!Cardinality, Cardinality
<1>8. \A i \in 1 .. m : q[i] \in World.ports.Port
    BY <1>1
<1>9. ListFits(ports)
  <2>1. \A i, j \in 1 .. m : ports[i].id = ports[j].id => i = j
      BY <1>2, <1>4
  <2>2. \A i \in 1 .. m : ports[i].id # NewPort
      BY <1>2, <1>8, PortsAre
  <2>3. ASSUME NEW p \in World.ports.Port
        PROVE  db[p] # NoPort <=> \E i \in 1 .. m : ports[i].id = p
    <3>1. db[p] # NoPort <=> \E i \in 1 .. m : q[i] = p
        BY <1>1
    <3>2. \A i \in 1 .. m : ports[i].id = q[i]
        BY <1>2
    <3> QED BY ONLY <3>1, <3>2
  <2> QED BY <1>3, <1>5, <2>1, <2>2, <2>3 DEF ListFits
<1>10. IsNumbered(ports)
    BY <1>2, <1>6, <1>7 DEF IsNumbered
<1> QED BY <1>9, <1>10 DEF PortsFit

-----------------------------------------------------------------------------
(* Storing: the changes, one after the other *)

(* Changes to what is left after the deletions. *)
ChangesInOrder(rows, changes, k) ==
    /\ rows \in PortRows /\ k \in Nat /\ k <= Cardinality(World.ports.Port) /\ changes \in [1 .. k -> Listed]
    /\ \A n \in 1 .. k : changes[n].order = n
    /\ \A n, o \in 1 .. k : changes[n].id = changes[o].id => n = o \/ changes[n].id = NewPort
    /\ \A p \in World.ports.Port : rows[p] # NoPort <=> \E n \in 1 .. k : changes[n].id = p

LEMMA VisibleFits ==
    ASSUME db \in PortRows, NEW what, PortStoreFits(what),
           NEW rows, rows = [p \in World.ports.Port |-> IF p \in what.deletes THEN NoPort ELSE db[p]]
    PROVE  \E k : ChangesInOrder(rows, what.changes, k)
<1>1. PICK ports : /\ PortsFit(ports) /\ what.changes = PortPage!Visible(ports)
                   /\ what.deletes = {ports[i].id : i \in {j \in DOMAIN ports : ports[j].deleted}}
    BY DEF PortStoreFits
<1>2. /\ ListFits(ports) /\ IsNumbered(ports) /\ ports \in Seq(Listed)
      /\ Len(ports) <= Cardinality(World.ports.Port)
    BY <1>1 DEF PortsFit, ListFits
<1>3. PICK k, at : VisibleAt(ports, at, k)
    BY <1>2, VisibleLists
<1>4. /\ DOMAIN ports = 1 .. Len(ports) /\ Len(ports) \in Nat
      /\ \A i \in DOMAIN ports : ports[i] \in Listed
    BY <1>2, ListedIs
<1>5. PICK changes : changes = what.changes
    OBVIOUS
<1>6. /\ k \in Nat /\ k <= Len(ports)
      /\ changes = [n \in 1 .. k |-> ports[at[n]]]
      /\ \A n \in 1 .. k : at[n] \in PortPage!Shown(ports) /\ PortPage!PlaceOf(ports, at[n]) = n
      /\ \A i \in PortPage!Shown(ports) : \E n \in 1 .. k : at[n] = i
    BY <1>1, <1>3, <1>5 DEF VisibleAt
<1>7. \A i \in PortPage!Shown(ports) : i \in DOMAIN ports /\ ~ ports[i].deleted
    BY DEF PortPage!Shown
<1>8. \A i \in DOMAIN ports : i \in PortPage!Shown(ports) \/ ports[i].deleted
    BY DEF PortPage!Shown
<1>9. ASSUME NEW n \in 1 .. k
      PROVE  changes[n] \in Listed /\ changes[n] = ports[at[n]] /\ at[n] \in DOMAIN ports /\ changes[n].order = n
    BY <1>2, <1>4, <1>6, <1>7 DEF IsNumbered
<1>10. changes \in [1 .. k -> Listed]
    BY <1>6, <1>9
<1>11. \A n, o \in 1 .. k : at[n] = at[o] => n = o
    BY <1>6
<1>12. ASSUME NEW n \in 1 .. k, NEW o \in 1 .. k, changes[n].id = changes[o].id
       PROVE  n = o \/ changes[n].id = NewPort
  <2>1. \A i, j \in DOMAIN ports : ports[i].id = ports[j].id => i = j \/ ports[i].id = NewPort
      BY <1>2 DEF ListFits
  <2>2. PICK i, j \in DOMAIN ports : i = at[n] /\ j = at[o]
      BY <1>9
  <2>3. ports[i].id = ports[j].id /\ changes[n] = ports[i]
      BY <1>9, <1>12, <2>2
  <2>4. i = j \/ ports[i].id = NewPort
      BY ONLY <2>1, <2>3, i \in DOMAIN ports, j \in DOMAIN ports
  <2> QED BY <1>11, <2>2, <2>3, <2>4
<1>13. ASSUME NEW p \in World.ports.Port
       PROVE  rows[p] # NoPort <=> \E n \in 1 .. k : changes[n].id = p
  <2>1. db[p] # NoPort <=> \E i \in DOMAIN ports : ports[i].id = p
      BY <1>2 DEF ListFits
  <2>2. \A i, j \in DOMAIN ports : ports[i].id = p /\ ports[j].id = p => i = j
    <3>1. \A i, j \in DOMAIN ports : ports[i].id = ports[j].id => i = j \/ ports[i].id = NewPort
        BY <1>2 DEF ListFits
    <3>2. p # NewPort
        BY PortsAre
    <3> QED BY <3>1, <3>2
  <2>3. p \in what.deletes <=> \E i \in DOMAIN ports : ports[i].deleted /\ ports[i].id = p
      BY <1>1
  <2>4. ASSUME rows[p] # NoPort PROVE \E n \in 1 .. k : changes[n].id = p
    <3>1. p \notin what.deletes /\ db[p] # NoPort
        BY <2>4
    <3>2. PICK i \in DOMAIN ports : ports[i].id = p
        BY <2>1, <3>1
    <3>3. i \in PortPage!Shown(ports)
        BY <1>8, <2>3, <3>1, <3>2
    <3>4. PICK n \in 1 .. k : at[n] = i
        BY <1>6, <3>3
    <3> QED BY <1>9, <3>2, <3>4
  <2>5. ASSUME NEW n \in 1 .. k, changes[n].id = p PROVE rows[p] # NoPort
    <3>1. PICK i : i = at[n] /\ i \in DOMAIN ports /\ i \in PortPage!Shown(ports) /\ ports[i].id = p
        BY <1>6, <1>9, <2>5
    <3>2. p \notin what.deletes /\ db[p] # NoPort
        BY <1>7, <2>1, <2>2, <2>3, <3>1
    <3> QED BY <3>2
  <2> QED BY <2>4, <2>5
<1>14. rows \in PortRows
    BY DEF PortRows
<1>15. k <= Cardinality(World.ports.Port)
    BY <1>2, <1>4, <1>6, PortsAre
<1>16. ChangesInOrder(rows, changes, k)
  <2>1. \A n \in 1 .. k : changes[n].order = n
      BY <1>9
  <2> QED BY <1>6, <1>10, <1>12, <1>13, <1>14, <1>15, <2>1 DEF ChangesInOrder
<1> QED BY <1>5, <1>16

(* n changes are made: in ports q; the others' are still as they were. *)
Made(rows, changes, k, n, q) ==
    /\ q \in [1 .. n -> World.ports.Port]
    /\ \A i \in 1 .. n : rows[q[i]] # NoPort /\ rows[q[i]].order = i /\ rows[q[i]].rest = changes[i].rest
    /\ \A p \in World.ports.Port :
          rows[p] # NoPort <=> \/ \E i \in 1 .. n : q[i] = p
                               \/ \E j \in n + 1 .. k : changes[j].id = p
    /\ \A i \in 1 .. n : \A j \in n + 1 .. k : q[i] # changes[j].id

(* What is written of a change, if it is. *)
WrittenTo(rows, change) ==
    IF change.id = NewPort THEN CHOOSE p \in World.ports.Port : rows[p] = NoPort ELSE change.id
LEMMA WrittenIs ==
    ASSUME NEW rows \in PortRows, NEW change \in Listed, NEW p \in World.ports.Port,
           p = WrittenTo(rows, change), change.id = NewPort \/ rows[p] # NoPort,
           NEW after, after = PortPage!Written(rows, change), after # Failed
    PROVE  \E row \in PortPage!Row : /\ row.order = change.order /\ row.rest = change.rest
                                     /\ after = [rows EXCEPT ![p] = row]
<1>1. PICK row : row = [order |-> change.order, rest |-> change.rest, used |-> rows[p] # NoPort /\ rows[p].used]
    OBVIOUS
<1>2. row \in PortPage!Row
  <2>1. change.order \in Nat /\ change.rest \in World.ports.Rest
      BY DEF Listed
  <2>2. (rows[p] # NoPort /\ rows[p].used) \in BOOLEAN
      BY Zenon
  <2> QED BY <1>1, <2>1, <2>2, Zenon DEF PortPage!Row
<1>3. row.order = change.order /\ row.rest = change.rest
    BY <1>1
<1>4. after = [rows EXCEPT ![p] = row]
    BY <1>1, Zenon DEF PortPage!Written, WrittenTo
<1> QED BY <1>2, <1>3, <1>4

(* There is an id left for a new port. *)
LEMMA FreeIdLeft ==
    ASSUME NEW before, NEW changes, NEW k, ChangesInOrder(before, changes, k), NEW n \in Nat, n < k,
           NEW rows, NEW q, Made(rows, changes, k, n, q), changes[n + 1].id = NewPort
    PROVE  \E p \in World.ports.Port : rows[p] = NoPort
<1> SUFFICES ASSUME \A p \in World.ports.Port : rows[p] # NoPort PROVE FALSE
    OBVIOUS
<1>1. k \in Nat /\ k <= Cardinality(World.ports.Port) /\ Cardinality(World.ports.Port) \in Nat
    BY PortsAre DEF ChangesInOrder
<1>2. \A p \in World.ports.Port : \/ \E i \in 1 .. n : q[i] = p
                                  \/ \E j \in n + 1 .. k : changes[j].id = p
    BY DEF Made
<1> DEFINE S == (1 .. k) \ {n + 1}
           f == [i \in S |-> IF i <= n THEN q[i] ELSE changes[i].id]
           T == {f[i] : i \in S}
<1>3. \A p \in World.ports.Port : \E i \in S : f[i] = p
  <2> SUFFICES ASSUME NEW p \in World.ports.Port PROVE \E i \in S : f[i] = p
      OBVIOUS
  <2>1. ASSUME NEW i \in 1 .. n, q[i] = p PROVE i \in S /\ f[i] = p
      BY <1>1, <2>1
  <2>2. ASSUME NEW j \in n + 1 .. k, changes[j].id = p PROVE j \in S /\ f[j] = p
    <3>1. j # n + 1
        BY <2>2, PortsAre
    <3> QED BY <1>1, <2>2, <3>1
  <2> QED BY <1>2, <2>1, <2>2
<1>4. World.ports.Port \subseteq T
    BY <1>3
<1>5. IsFiniteSet(S) /\ Cardinality(S) = k - 1
  <2>1. IsFiniteSet(1 .. k) /\ Cardinality(1 .. k) = k /\ n + 1 \in 1 .. k
      BY <1>1, FS_Interval
  <2> QED BY <2>1, FS_RemoveElement
<1>6. f \in Surjection(S, T)
    BY DEF Surjection
<1> HIDE DEF f, T, S
<1>7. IsFiniteSet(T) /\ Cardinality(T) <= Cardinality(S)
    BY <1>5, <1>6, FS_Surjection
<1>8. Cardinality(World.ports.Port) <= Cardinality(T) /\ Cardinality(T) \in Nat
    BY <1>4, <1>7, FS_Subset, FS_CardinalityType
<1> QED BY <1>1, <1>5, <1>7, <1>8

LEMMA OneMore ==
    ASSUME NEW before, NEW changes, NEW k, ChangesInOrder(before, changes, k), NEW n \in Nat, n < k,
           NEW rows \in PortRows, NEW q, Made(rows, changes, k, n, q),
           NEW after, after = PortPage!Written(rows, changes[n + 1]), after # Failed
    PROVE  after \in PortRows /\ \E o : Made(after, changes, k, n + 1, o)
<1>1. /\ k \in Nat /\ n + 1 \in 1 .. k /\ n + 1 \in Nat
      /\ \A j \in 1 .. k : changes[j] \in Listed /\ changes[j].order = j
      /\ \A i, j \in 1 .. k : changes[i].id = changes[j].id => i = j \/ changes[i].id = NewPort
    BY DEF ChangesInOrder
<1>2. PICK change \in Listed : change = changes[n + 1]
    BY <1>1
<1>3. /\ q \in [1 .. n -> World.ports.Port]
      /\ \A i \in 1 .. n : rows[q[i]] # NoPort /\ rows[q[i]].order = i /\ rows[q[i]].rest = changes[i].rest
      /\ \A p \in World.ports.Port :
            rows[p] # NoPort <=> \/ \E i \in 1 .. n : q[i] = p
                                 \/ \E j \in n + 1 .. k : changes[j].id = p
      /\ \A i \in 1 .. n : \A j \in n + 1 .. k : q[i] # changes[j].id
    BY DEF Made
<1>4. PICK p : p = WrittenTo(rows, change)
    OBVIOUS
<1>5. /\ p \in World.ports.Port
      /\ change.id # NewPort => rows[p] # NoPort /\ p = change.id
      /\ change.id = NewPort => rows[p] = NoPort
  <2>1. CASE change.id = NewPort
      BY <1>2, <1>4, <2>1, FreeIdLeft DEF WrittenTo
  <2>2. CASE change.id # NewPort
    <3>1. p \in World.ports.Port /\ p = change.id
        BY <1>2, <1>4, <2>2 DEF Listed, WrittenTo
    <3>2. n + 1 \in n + 1 .. k
        BY <1>1
    <3> QED BY <1>2, <1>3, <2>2, <3>1, <3>2
  <2> QED BY <2>1, <2>2
<1>6. PICK row \in PortPage!Row : /\ row.order = change.order /\ row.rest = change.rest
                                  /\ after = [rows EXCEPT ![p] = row]
  <2>1. after = PortPage!Written(rows, change) /\ (change.id = NewPort \/ rows[p] # NoPort)
      BY <1>2, <1>5
  <2> QED BY <1>4, <1>5, <2>1, WrittenIs
<1>7. row # NoPort /\ row.order = n + 1 /\ row.rest = changes[n + 1].rest
    BY <1>1, <1>2, <1>6, PortsAre
<1>8. \A i \in 1 .. n : q[i] # p
  <2>1. n + 1 \in n + 1 .. k
      BY <1>1
  <2> QED BY <1>2, <1>3, <1>5, <2>1
<1>9. \A j \in n + 2 .. k : changes[j].id # p
  <2> SUFFICES ASSUME NEW j \in n + 2 .. k PROVE changes[j].id # p
      OBVIOUS
  <2>1. j \in 1 .. k /\ j # n + 1 /\ j \in n + 1 .. k
      BY <1>1
  <2>2. CASE change.id = NewPort
      BY <1>3, <1>5, <2>1, <2>2
  <2>3. CASE change.id # NewPort
      BY <1>1, <1>2, <1>5, <2>1, <2>3
  <2> QED BY <2>2, <2>3
<1>10. after \in PortRows /\ \A o \in World.ports.Port : after[o] = IF o = p THEN row ELSE rows[o]
    BY <1>5, <1>6 DEF PortRows
<1>11. PICK r : r = [i \in 1 .. n + 1 |-> IF i = n + 1 THEN p ELSE q[i]]
    OBVIOUS
<1>12. \A i \in 1 .. n + 1 : i = n + 1 \/ i \in 1 .. n
    OBVIOUS
<1>13. \A i \in 1 .. n : i \in 1 .. n + 1 /\ i # n + 1 /\ i \in 1 .. k
    BY <1>1
<1>14. r[n + 1] = p /\ \A i \in 1 .. n : r[i] = q[i]
    BY <1>11, <1>13
<1>15. r \in [1 .. n + 1 -> World.ports.Port]
    BY <1>3, <1>5, <1>11, <1>12
<1>16. ASSUME NEW i \in 1 .. n + 1
       PROVE  after[r[i]] # NoPort /\ after[r[i]].order = i /\ after[r[i]].rest = changes[i].rest
  <2>1. CASE i = n + 1
      BY <1>5, <1>7, <1>10, <1>14, <2>1
  <2>2. CASE i \in 1 .. n
    <3>1. q[i] \in World.ports.Port /\ q[i] # p /\ r[i] = q[i]
        BY <1>3, <1>8, <1>14, <2>2
    <3> QED BY <1>3, <1>10, <2>2, <3>1
  <2> QED BY <1>12, <2>1, <2>2
<1>17. ASSUME NEW o \in World.ports.Port
       PROVE  after[o] # NoPort <=> \/ \E i \in 1 .. n + 1 : r[i] = o
                                    \/ \E j \in n + 2 .. k : changes[j].id = o
  <2>1. CASE o = p
    <3>1. n + 1 \in 1 .. n + 1
        OBVIOUS
    <3> QED BY <1>7, <1>10, <1>14, <2>1, <3>1
  <2>2. CASE o # p
    <3>1. after[o] = rows[o]
        BY <1>10, <2>2
    <3>2. (\E i \in 1 .. n + 1 : r[i] = o) <=> \E i \in 1 .. n : q[i] = o
        BY <1>12, <1>13, <1>14, <2>2
    <3>3. (\E j \in n + 1 .. k : changes[j].id = o) <=> \E j \in n + 2 .. k : changes[j].id = o
      <4>1. \A j \in n + 1 .. k : j = n + 1 \/ j \in n + 2 .. k
          BY <1>1
      <4>2. \A j \in n + 2 .. k : j \in n + 1 .. k
          BY <1>1
      <4>3. changes[n + 1].id # o
          BY <1>2, <1>5, <2>2, PortsAre
      <4> QED BY ONLY <4>1, <4>2, <4>3
    <3> QED BY <1>3, <3>1, <3>2, <3>3
  <2> QED BY <2>1, <2>2
<1>18. \A i \in 1 .. n + 1 : \A j \in n + 2 .. k : r[i] # changes[j].id
  <2>1. \A j \in n + 2 .. k : j \in n + 1 .. k
      BY <1>1
  <2> QED BY <1>3, <1>9, <1>12, <1>14, <2>1
<1>19. (n + 1) + 1 = n + 2
    OBVIOUS
<1>20. Made(after, changes, k, n + 1, r)
    BY ONLY <1>15, <1>16, <1>17, <1>18, <1>19 DEF Made
<1> QED BY <1>10, <1>20

(* The rows before each change, and after the last (AfterChanges). *)
OneAfter(rows, change) == IF rows = Failed THEN Failed ELSE PortPage!Written(rows, change)
IsAfter(f, rows, changes, k) ==
    f = [n \in 0 .. k |-> IF n = 0 THEN rows ELSE OneAfter(f[n - 1], changes[n])]

LEMMA AfterExists ==
    ASSUME NEW rows, NEW changes, NEW k \in Nat
    PROVE  \E f : IsAfter(f, rows, changes, k)
<1> DEFINE S == {m \in Nat : ~ \E f : IsAfter(f, rows, changes, m)}
<1> SUFFICES S = {}
    OBVIOUS
<1> SUFFICES ASSUME S # {} PROVE FALSE
    OBVIOUS
<1>1. PICK m \in S : \A n \in S : m <= n
  <2>1. S \in SUBSET Nat
      OBVIOUS
  <2> HIDE DEF S
  <2> QED BY <2>1, SmallestNumber
<1>2. m \in Nat /\ ~ \E f : IsAfter(f, rows, changes, m)
    BY <1>1
<1>3. m # 0
  <2>1. PICK f : f = [n \in 0 .. 0 |-> rows]
      OBVIOUS
  <2>2. IsAfter(f, rows, changes, 0)
      BY <2>1 DEF IsAfter
  <2> QED BY <1>2, <2>2
<1>4. PICK g : IsAfter(g, rows, changes, m - 1)
  <2>1. m - 1 \in Nat /\ ~ (m <= m - 1)
      BY <1>2, <1>3
  <2> QED BY <1>1, <2>1
<1>5. PICK f : f = [n \in 0 .. m |-> IF n = m THEN OneAfter(g[m - 1], changes[m]) ELSE g[n]]
    OBVIOUS
<1>6. \A n \in 0 .. m : f[n] = IF n = 0 THEN rows ELSE OneAfter(f[n - 1], changes[n])
  <2> SUFFICES ASSUME NEW n \in 0 .. m PROVE f[n] = IF n = 0 THEN rows ELSE OneAfter(f[n - 1], changes[n])
      OBVIOUS
  <2>1. \A l \in 0 .. m - 1 : f[l] = g[l]
      BY <1>2, <1>5
  <2>2. CASE n = m
    <3>1. m - 1 \in 0 .. m - 1 /\ f[n] = OneAfter(g[m - 1], changes[m])
        BY <1>2, <1>3, <1>5, <2>2
    <3> QED BY <1>3, <2>1, <2>2, <3>1
  <2>3. CASE n # m
    <3>1. n \in 0 .. m - 1 /\ (n # 0 => n - 1 \in 0 .. m - 1)
        BY <1>2, <2>3
    <3>2. g[n] = IF n = 0 THEN rows ELSE OneAfter(g[n - 1], changes[n])
        BY <1>4, <3>1 DEF IsAfter
    <3> QED BY <2>1, <3>1, <3>2
  <2> QED BY <2>2, <2>3
<1>7. IsAfter(f, rows, changes, m)
  <2>1. f = [n \in 0 .. m |-> f[n]]
      BY <1>5
  <2> QED BY <1>6, <2>1 DEF IsAfter
<1> QED BY <1>2, <1>7

LEMMA AfterIs ==
    ASSUME NEW rows, NEW changes, NEW k \in Nat, PortPage!Len(changes) = k
    PROVE  \E f : IsAfter(f, rows, changes, k) /\ PortPage!AfterChanges(rows, changes) = f[k]
<1> DEFINE after == CHOOSE f : f = [n \in 0 .. k |->
                        IF n = 0 THEN rows
                        ELSE IF f[n - 1] = Failed THEN Failed ELSE PortPage!Written(f[n - 1], changes[n])]
<1>1. PortPage!AfterChanges(rows, changes) = after[k]
    BY DEF PortPage!AfterChanges
<1>2. after = CHOOSE f : IsAfter(f, rows, changes, k)
    BY DEF IsAfter, OneAfter
<1> HIDE DEF after
<1>3. IsAfter(after, rows, changes, k)
    BY <1>2, AfterExists
<1> QED BY <1>1, <1>3

LEMMA AllMade ==
    ASSUME NEW rows, NEW changes, NEW k, ChangesInOrder(rows, changes, k),
           NEW f, IsAfter(f, rows, changes, k), f[k] # Failed
    PROVE  f[k] \in PortRows /\ \E q : Made(f[k], changes, k, k, q)
<1> DEFINE IsMade(n) == f[n] = Failed \/ (f[n] \in PortRows /\ \E q : Made(f[n], changes, k, n, q))
           S == {n \in 0 .. k : ~ IsMade(n)}
<1>1. k \in Nat /\ \A n \in 0 .. k : f[n] = IF n = 0 THEN rows ELSE OneAfter(f[n - 1], changes[n])
    BY DEF ChangesInOrder, IsAfter
<1>2. IsMade(0)
  <2>1. PICK q : q = [i \in 1 .. 0 |-> rows]
      OBVIOUS
  <2>2. f[0] = rows /\ rows \in PortRows /\ 0 + 1 = 1
      BY <1>1 DEF ChangesInOrder
  <2>3. q \in [1 .. 0 -> World.ports.Port] /\ \A i \in 1 .. 0 : FALSE
      BY <2>1
  <2>4. \A p \in World.ports.Port : rows[p] # NoPort <=> \E j \in 1 .. k : changes[j].id = p
      BY DEF ChangesInOrder
  <2>5. Made(rows, changes, k, 0, q)
      BY <2>2, <2>3, <2>4 DEF Made
  <2> QED BY <2>2, <2>5
<1>3. ASSUME NEW n \in Nat, n < k, IsMade(n) PROVE IsMade(n + 1)
  <2>1. n + 1 \in 0 .. k /\ n + 1 # 0 /\ (n + 1) - 1 = n
      BY <1>1, <1>3
  <2>2. f[n + 1] = OneAfter(f[n], changes[n + 1])
      BY <1>1, <2>1
  <2>3. CASE f[n + 1] = Failed
      BY <2>3
  <2>4. CASE f[n + 1] # Failed
    <3>1. f[n] # Failed /\ f[n + 1] = PortPage!Written(f[n], changes[n + 1])
        BY <2>2, <2>4 DEF OneAfter
    <3>2. PICK q : f[n] \in PortRows /\ Made(f[n], changes, k, n, q)
        BY <1>3, <3>1
    <3>3. PICK before, after : before = f[n] /\ after = f[n + 1]
        OBVIOUS
    <3>4. after \in PortRows /\ \E o : Made(after, changes, k, n + 1, o)
        BY <1>3, <2>4, <3>1, <3>2, <3>3, OneMore
    <3> QED BY <3>3, <3>4
  <2> QED BY <2>3, <2>4
<1>4. S = {}
  <2> SUFFICES ASSUME S # {} PROVE FALSE
      OBVIOUS
  <2>1. S \in SUBSET Nat
      BY <1>1
  <2>2. PICK m \in S : \A n \in S : m <= n
    <3> HIDE DEF S
    <3> QED BY <2>1, SmallestNumber
  <2> HIDE DEF IsMade
  <2>3. m \in 0 .. k /\ ~ IsMade(m) /\ m # 0
      BY <1>2
  <2>4. m - 1 \in 0 .. k /\ m - 1 \in Nat /\ m - 1 < k /\ ~ (m <= m - 1) /\ (m - 1) + 1 = m
      BY <1>1, <2>3
  <2>5. IsMade(m - 1)
      BY <2>2, <2>4
  <2> QED BY <1>3, <2>3, <2>4, <2>5
<1>5. k \in 0 .. k
    BY <1>1
<1> HIDE DEF IsMade
<1>6. IsMade(k)
    BY <1>4, <1>5
<1> QED BY <1>6 DEF IsMade

LEMMA MadeAreStored ==
    ASSUME NEW rows, NEW changes, NEW k, ChangesInOrder(rows, changes, k),
           NEW after \in PortRows, NEW q, Made(after, changes, k, k, q)
    PROVE  /\ Lists(after, q, k) /\ DOMAIN changes = 1 .. k
           /\ \A n \in 1 .. k : changes[n].order = n /\ changes[n].rest = after[q[n]].rest
<1>1. k \in Nat /\ DOMAIN changes = 1 .. k /\ \A n \in 1 .. k : changes[n].order = n
    BY DEF ChangesInOrder
<1>2. \A j \in k + 1 .. k : FALSE
    BY <1>1
<1>3. /\ q \in [1 .. k -> World.ports.Port]
      /\ \A i \in 1 .. k : after[q[i]] # NoPort /\ after[q[i]].order = i /\ after[q[i]].rest = changes[i].rest
      /\ \A p \in World.ports.Port : after[p] # NoPort => \E i \in 1 .. k : q[i] = p
    BY <1>2 DEF Made
<1> QED BY <1>1, <1>3 DEF Lists

-----------------------------------------------------------------------------
(* The backend *)

(* The only request is answered, and the page does not know yet.           *)
LEMMA PortReplies ==
    ASSUME PortInv, NEW c \in calls, NEW answer, PortPage!Reply(c, answer), page' = page
    PROVE  \E r : /\ calls' = {r} /\ DOMAIN r = DOMAIN c
                  /\ r.kind = c.kind /\ r.what = c.what /\ r.answer = answer
<1> DEFINE r == [c EXCEPT !.answer = answer]
<1>1. calls' = {r} /\ PortCallOK(c)
    BY PortTakes DEF PortPage!Reply
<1>2. /\ DOMAIN r = DOMAIN c /\ r.kind = c.kind /\ r.what = c.what /\ r.answer = answer
    BY <1>1 DEF PortCallOK
<1> HIDE DEF r
<1> QED BY <1>1, <1>2

(* Nothing is stored. *)
LEMMA PortAnswers ==
    ASSUME PortInv, NEW c \in calls, c.answer = Unanswered, NEW answer,
           PortPage!Reply(c, answer), page' = page, db' = db,
           \/ answer = Failed
           \/ c.kind = "fetch" /\ PortsFit(answer)
    PROVE  PortInv'
<1>1. PICK r : /\ calls' = {r} /\ DOMAIN r = DOMAIN c
               /\ r.kind = c.kind /\ r.what = c.what /\ r.answer = answer
    BY PortReplies
<1>2. PortCallOK(c) /\ calls = {c} /\ Unanswered # TRUE /\ Failed # TRUE
    BY PortsAre DEF PortInv
<1>3. \A ports : PortsFit(ports) => PortsFit(ports)'
    BY DEF PortsFit, ListFits
<1>4. PortCallOK(r)'
  <2>1. \A what : PortStoreFits(what) => PortStoreFits(what)'
      BY DEF PortStoreFits, PortsFit, ListFits
  <2>2. CASE answer = Failed
      BY <1>1, <1>2, <2>1, <2>2 DEF PortCallOK, Shows
  <2>3. CASE c.kind = "fetch" /\ PortsFit(answer)
    <3>1. PortsFit(answer)'
        BY <1>3, <2>3
    <3>2. ~ Shows(page)' /\ page'.route = "Panel"
        BY <1>2, <2>3 DEF PortCallOK, Shows
    <3>3. r.answer = answer /\ r.kind = "fetch" /\ DOMAIN r = {"kind", "what", "answer"}
        BY <1>1, <1>2, <2>3 DEF PortCallOK
    <3> QED BY <3>1, <3>2, <3>3 DEF PortCallOK
  <2> QED BY <2>2, <2>3
<1>5. Shows(page) => PortsFit(page.ports)
    BY <1>2 DEF PortInv, PortsCurrent
<1>6. Shows(page)' => PortsFit(page.ports)'
    BY <1>5 DEF Shows, PortsFit, ListFits, IsNumbered
<1>7. PortsListed(db')
    BY DEF PortInv
<1>8. /\ DOMAIN page' = PortFields /\ page'.route \in {Closed, "Panel"}
      /\ page'.route = Closed => ~ Shows(page)'
      /\ Shows(page)' => page'.saving = TRUE
    BY <1>2 DEF PortInv, Shows
<1> QED BY <1>1, <1>4, <1>6, <1>7, <1>8 DEF PortInv, PortsCurrent

LEMMA PortServeFetch == ASSUME PortInv, NEW c \in calls, PortPage!ServeFetch(c) PROVE PortInv'
<1>1. PICK m, q : db \in PortRows /\ Lists(db, q, m)
    BY DEF PortInv, PortsListed
<1>2. PortPage!InOrder(db) = q
    BY <1>1, ListInOrder
<1>3. DOMAIN q = 1 .. m
    BY <1>1 DEF Lists
<1>4. PICK ports : ports = [i \in 1 .. m |-> [id |-> q[i], order |-> db[q[i]].order,
                                              rest |-> db[q[i]].rest, deleted |-> FALSE]]
    OBVIOUS
<1>5. PortsFit(ports)
    BY <1>1, <1>4, StoredFits
<1>6. /\ PortPage!Reply(c, ports) /\ c.kind = "fetch" /\ c.answer = Unanswered
      /\ db' = db /\ page' = page
    BY <1>2, <1>3, <1>4 DEF PortPage!ServeFetch, PortPage!Waiting
<1> QED BY <1>5, <1>6, PortAnswers

LEMMA PortServeStore == ASSUME PortInv, NEW c \in calls, PortPage!ServeStore(c) PROVE PortInv'
<1>1. PICK what : what = c.what
    OBVIOUS
<1>2. PICK deleted : deleted = [p \in World.ports.Port |-> IF p \in what.deletes THEN NoPort ELSE db[p]]
    OBVIOUS
<1>3. PICK after : after = IF \E p \in what.deletes : db[p] # NoPort /\ db[p].used THEN Failed
                           ELSE PortPage!AfterChanges(deleted, what.changes)
    OBVIOUS
<1>4. /\ c.kind = "store" /\ c.answer = Unanswered /\ page' = page
      /\ IF after = Failed THEN PortPage!Reply(c, Failed) /\ db' = db
                           ELSE PortPage!Reply(c, TRUE) /\ db' = after
    BY <1>1, <1>2, <1>3 DEF PortPage!ServeStore, PortPage!Waiting
<1>5. CASE after = Failed
    BY <1>4, <1>5, PortAnswers
<1>6. CASE after # Failed
  <2>1. PortCallOK(c) /\ PortStoreFits(what) /\ TRUE \notin {Unanswered, Failed} /\ db \in PortRows
      BY <1>1, <1>4, PortsAre DEF PortInv, PortCallOK, PortsListed
  <2>2. PICK k : ChangesInOrder(deleted, what.changes, k)
      BY <1>2, <2>1, VisibleFits
  <2>3. k \in Nat /\ Len(what.changes) = k
    <3>1. k \in Nat /\ what.changes \in [1 .. k -> Listed]
        BY <2>2 DEF ChangesInOrder
    <3>2. what.changes \in Seq(Listed)
        BY <3>1, SeqDef
    <3> QED BY <3>1, <3>2, LenProperties
  <2>4. PICK f : IsAfter(f, deleted, what.changes, k) /\ PortPage!AfterChanges(deleted, what.changes) = f[k]
      BY <2>3, AfterIs DEF PortPage!Len, Len
  <2>5. after = f[k]
      BY <1>3, <1>6, <2>4
  <2>6. PICK q : after \in PortRows /\ Made(after, what.changes, k, k, q)
      BY <1>6, <2>2, <2>4, <2>5, AllMade
  <2>7. /\ Lists(after, q, k) /\ DOMAIN what.changes = 1 .. k
        /\ \A n \in 1 .. k : what.changes[n].order = n /\ what.changes[n].rest = after[q[n]].rest
      BY <2>2, <2>6, MadeAreStored
  <2>8. db' = after /\ PortPage!Reply(c, TRUE)
      BY <1>4, <1>6
  <2>9. PICK yes : yes = TRUE
      OBVIOUS
  <2>10. PortPage!Reply(c, yes)
      BY <2>8, <2>9 DEF PortPage!Reply
  <2>11. PICK r : /\ calls' = {r} /\ DOMAIN r = DOMAIN c
                  /\ r.kind = c.kind /\ r.what = c.what /\ r.answer = yes
      BY <1>4, <2>10, PortReplies
  <2>12. r.kind = "store" /\ r.what = what /\ r.answer = TRUE /\ DOMAIN r = {"kind", "what", "answer"}
      BY <1>1, <1>4, <2>1, <2>9, <2>11 DEF PortCallOK
  <2>13. PortsAreStored(what)'
    <3>1. \E l, o : /\ Lists(db', o, l) /\ DOMAIN what.changes = 1 .. l
                    /\ \A n \in 1 .. l : what.changes[n].order = n /\ what.changes[n].rest = db'[o[n]].rest
        BY <2>7, <2>8
    <3> QED BY <3>1 DEF PortsAreStored, Lists
  <2>14. PortCallOK(r)'
      BY <1>4, <2>1, <2>12, <2>13 DEF PortCallOK, Shows
  <2>15. PortsListed(db')
      BY <2>6, <2>7, <2>8 DEF PortsListed
  <2>16. /\ DOMAIN page' = PortFields /\ page'.route \in {Closed, "Panel"}
         /\ page'.route = Closed => ~ Shows(page)'
         /\ Shows(page)' => page'.saving = TRUE
      BY <1>4, <2>1 DEF PortInv, PortCallOK, Shows
  <2>17. PortsCurrent'
      BY <2>11, <2>12 DEF PortsCurrent
  <2> QED BY <2>11, <2>14, <2>15, <2>16, <2>17 DEF PortInv
<1> QED BY <1>5, <1>6

LEMMA PortStep == ASSUME PortInv, [PortPage!Next]_<<db, page, calls, spent>> PROVE PortInv'
<1>1. CASE UNCHANGED <<db, page, calls, spent>>
  <2>1. page' = page /\ db' = db /\ calls' = calls
      BY <1>1
  <2>2. \A ports : PortsFit(ports)' = PortsFit(ports)
      BY <2>1 DEF PortsFit, ListFits
  <2>3. \A what : PortStoreFits(what)' = PortStoreFits(what) /\ PortsAreStored(what)' = PortsAreStored(what)
      BY <2>1 DEF PortStoreFits, PortsAreStored, PortsFit, ListFits
  <2>4. \A c \in calls : PortCallOK(c) => PortCallOK(c)'
      BY <2>1, <2>2, <2>3 DEF PortCallOK, Shows
  <2>5. PortsCurrent'
      BY <2>1 DEF PortInv, PortsCurrent, Shows, PortsFit, ListFits, IsNumbered
  <2>6. Shows(page)' = Shows(page) /\ PortsListed(db')
      BY <2>1 DEF Shows, PortInv
  <2> QED BY <2>1, <2>4, <2>5, <2>6 DEF PortInv
<1>2. ASSUME PortPage!Refuse PROVE PortInv'
    BY <1>2, PortAnswers DEF PortPage!Refuse
<1> QED BY <1>1, <1>2, PortOpen, PortAdd, PortDeleted, PortsSwapped, PortUpdated, PortSave, PortArrives,
        PortSaved, PortServeFetch, PortServeStore
        DEF PortPage!Next

PortKept == kind = "ports" => PortInv

LEMMA PortAlways == Spec => []PortKept
<1>1. Init => PortKept
    BY PortInit DEF Init, PortKept
<1>2. PortKept /\ [Next]_vars => PortKept'
  <2> SUFFICES ASSUME PortKept, [Next]_vars, kind = "ports" PROVE PortInv'
      BY DEF PortKept, Next, vars
  <2>1. [PortPage!Next]_<<db, page, calls, spent>>
      BY DEF Next, vars
  <2> QED BY <2>1, PortStep DEF PortKept
<1> QED BY <1>1, <1>2, PTL DEF Spec

(* Once the ports of a panel are stored, they are those the page listed,   *)
(* in its order: each change finds the port it is meant for though the     *)
(* ones before it were written, a new port takes an id no other has        *)
(* (Written), and what is deleted is gone before (update_panel_ports).     *)
THEOREM ShownPortsAreStored == Spec => []PortsStoredAsShown
<1>1. PortKept => PortsStoredAsShown
  <2> SUFFICES ASSUME PortKept, kind = "ports", NEW c \in calls, c.kind = "store", c.answer = TRUE,
                      NEW ports, ports = PortPage!InOrder(db)
               PROVE  PortPage!Data(c.what.changes) = [i \in DOMAIN ports |-> <<i, db[ports[i]].rest>>]
      BY DEF PortsStoredAsShown, PortPage!StoredAsShown
  <2>1. PortsAreStored(c.what)
      BY DEF PortKept, PortInv, PortCallOK
  <2>2. PICK k, q : /\ Lists(db, q, k) /\ DOMAIN c.what.changes = 1 .. k
                    /\ \A n \in 1 .. k : c.what.changes[n].order = n /\ c.what.changes[n].rest = db[q[n]].rest
      BY <2>1 DEF PortsAreStored
  <2>3. ports = q
      BY <2>2, ListInOrder
  <2>4. DOMAIN q = 1 .. k
      BY <2>2 DEF Lists
  <2>5. PortPage!Data(c.what.changes) =
            [n \in 1 .. k |-> <<c.what.changes[n].order, c.what.changes[n].rest>>]
      BY <2>2 DEF PortPage!Data
  <2> QED BY <2>2, <2>3, <2>4, <2>5
<1> QED BY <1>1, PortAlways, PTL

-----------------------------------------------------------------------------
(* The delivery to the Leitungskataster *)

(* The network: rows are of their tables, and none is of the future.       *)
NetworkOK(d) ==
    /\ DOMAIN d = {"owner", "typ", "schacht", "duct", "deliveries", "now"}
    /\ d.now \in Int
    /\ DOMAIN d.owner = World.lkmap.Owner /\ DOMAIN d.typ = World.lkmap.Typ
    /\ DOMAIN d.schacht = World.lkmap.Schacht /\ DOMAIN d.duct = World.lkmap.Duct
    /\ \A s \in World.lkmap.Schacht : d.schacht[s] \in LkmapPage!Schaechte /\ d.schacht[s].changed <= d.now
    /\ \A t \in World.lkmap.Duct : d.duct[t] # NoDuct =>
          d.duct[t] \in LkmapPage!Trassen /\ d.duct[t].changed <= d.now

(* What is in the network and not in a delivery like that is dated after   *)
(* the delivery.                                                           *)
DatedAfter(d, delivery) ==
    /\ \A s \in World.lkmap.Schacht :
          (\E x \in delivery.files.schaechte : x.id = s /\ x # LkmapPage!LkPunkt(d, s)) =>
              d.schacht[s].changed > delivery.created
    /\ \A t \in LkmapPage!DeliveredDucts(d) :
          LkmapPage!LkLinie(d, t) \notin delivery.files.ducts => d.duct[t].changed > delivery.created

LogOK(d) ==
    /\ \E A : d.deliveries \in Seq(A)
    /\ \A i \in DOMAIN d.deliveries :
          /\ DOMAIN d.deliveries[i] = {"created", "files", "delivered"}
          /\ d.deliveries[i].created \in Int /\ d.deliveries[i].created <= d.now
          /\ DatedAfter(d, d.deliveries[i])

LkmapInv == NetworkOK(db) /\ LogOK(db)

-----------------------------------------------------------------------------
(* What is exported of an object depends on few rows. *)

LEMMA PointKept ==
    ASSUME NEW d, NEW e, NEW s, e.schacht[s] = d.schacht[s],
           e.owner[d.schacht[s].owner] = d.owner[d.schacht[s].owner],
           d.schacht[s].typ # NoTyp => e.typ[d.schacht[s].typ] = d.typ[d.schacht[s].typ]
    PROVE  LkmapPage!LkPunkt(e, s) = LkmapPage!LkPunkt(d, s)
BY DEF LkmapPage!LkPunkt, LkmapPage!Eigentuemer

LEMMA LineKept ==
    ASSUME NEW d, NEW e, NEW t \in LkmapPage!DeliveredDucts(e), e.duct[t] = d.duct[t],
           \A s \in LkmapPage!EndsOf(d.duct[t]) : e.schacht[s].position = d.schacht[s].position,
           e.owner[d.duct[t].owner] = d.owner[d.duct[t].owner]
    PROVE  t \in LkmapPage!DeliveredDucts(d) /\ LkmapPage!LkLinie(e, t) = LkmapPage!LkLinie(d, t)
<1>1. t \in LkmapPage!DeliveredDucts(d)
    BY DEF LkmapPage!DeliveredDucts, LkmapPage!Ducts, LkmapPage!Located
<1>2. e.schacht[d.duct[t].a].position = d.schacht[d.duct[t].a].position
      /\ e.schacht[d.duct[t].z].position = d.schacht[d.duct[t].z].position
    BY DEF LkmapPage!EndsOf
<1> QED BY <1>1, <1>2 DEF LkmapPage!LkLinie, LkmapPage!Eigentuemer

(* The rows a trigger dates. *)
LEMMA TouchedRows ==
    ASSUME NEW rows, NEW some, NEW time
    PROVE  LET new == LkmapPage!Touched(rows, some, time)
           IN  /\ DOMAIN new = DOMAIN rows
               /\ \A i \in DOMAIN rows :
                     new[i] = IF i \in some THEN [rows[i] EXCEPT !.changed = time] ELSE rows[i]
BY DEF LkmapPage!Touched

LEMMA DatedSchacht ==
    ASSUME NEW row \in LkmapPage!Schaechte, NEW time \in Int
    PROVE  LET new == [row EXCEPT !.changed = time]
           IN  /\ new \in LkmapPage!Schaechte /\ new.changed = time
               /\ new.position = row.position /\ new.typ = row.typ /\ new.owner = row.owner
BY DEF LkmapPage!Schaechte

LEMMA DatedTrasse ==
    ASSUME NEW row \in LkmapPage!Trassen, NEW time \in Int
    PROVE  LET new == [row EXCEPT !.changed = time]
           IN  new \in LkmapPage!Trassen /\ new.changed = time
BY DEF LkmapPage!Trassen

SchaechteTouched(d, rows, some, time) ==
    /\ DOMAIN rows = DOMAIN d.schacht
    /\ \A s \in World.lkmap.Schacht :
          /\ rows[s].position = d.schacht[s].position
          /\ \/ s \notin some /\ rows[s] = d.schacht[s]
             \/ rows[s] \in LkmapPage!Schaechte /\ rows[s].changed = time

LEMMA TouchedSchaechte ==
    ASSUME NEW d, NetworkOK(d), NEW some, NEW time \in Int, NEW rows,
           rows = LkmapPage!Touched(d.schacht, some, time)
    PROVE  SchaechteTouched(d, rows, some, time)
<1>1. DOMAIN rows = DOMAIN d.schacht
      /\ \A s \in DOMAIN d.schacht :
            rows[s] = IF s \in some THEN [d.schacht[s] EXCEPT !.changed = time] ELSE d.schacht[s]
    BY TouchedRows
<1>2. ASSUME NEW s \in World.lkmap.Schacht
      PROVE  /\ rows[s].position = d.schacht[s].position
             /\ \/ s \notin some /\ rows[s] = d.schacht[s]
                \/ rows[s] \in LkmapPage!Schaechte /\ rows[s].changed = time
  <2>1. PICK r \in LkmapPage!Schaechte : r = d.schacht[s]
      BY DEF NetworkOK
  <2>2. s \in DOMAIN d.schacht
      BY DEF NetworkOK
  <2>3. CASE s \notin some
      BY <1>1, <2>2, <2>3
  <2>4. CASE s \in some
    <3>1. rows[s] = [r EXCEPT !.changed = time]
        BY <1>1, <2>1, <2>2, <2>4
    <3> QED BY <2>1, <3>1, DatedSchacht
  <2> QED BY <2>3, <2>4
<1> QED BY <1>1, <1>2 DEF SchaechteTouched

LEMMA TouchedDucts ==
    ASSUME NEW d, NetworkOK(d), NEW some, NEW time \in Int, NEW rows,
           rows = LkmapPage!Touched(d.duct, some, time),
           \A t \in World.lkmap.Duct : t \in some => d.duct[t] # NoDuct
    PROVE  /\ DOMAIN rows = World.lkmap.Duct
           /\ \A t \in World.lkmap.Duct :
                 \/ t \notin some /\ rows[t] = d.duct[t]
                 \/ rows[t] \in LkmapPage!Trassen /\ rows[t].changed = time
<1>1. DOMAIN rows = World.lkmap.Duct
      /\ \A t \in World.lkmap.Duct :
            rows[t] = IF t \in some THEN [d.duct[t] EXCEPT !.changed = time] ELSE d.duct[t]
    BY TouchedRows DEF NetworkOK
<1>2. ASSUME NEW t \in World.lkmap.Duct, t \in some
      PROVE  rows[t] \in LkmapPage!Trassen /\ rows[t].changed = time
  <2>1. PICK r \in LkmapPage!Trassen : r = d.duct[t]
      BY <1>2 DEF NetworkOK
  <2>2. rows[t] = [r EXCEPT !.changed = time]
      BY <1>1, <1>2, <2>1
  <2> QED BY <2>2, DatedTrasse
<1> QED BY <1>1, <1>2

(* What a step of the network may do to a manhole and to a duct: it is     *)
(* dated now, or all that is exported of it is as it was.                  *)
SchachtStep(d, e, s) ==
    \/ /\ e.schacht[s] \in LkmapPage!Schaechte /\ e.schacht[s].changed = e.now
    \/ /\ e.schacht[s] = d.schacht[s]
       /\ e.owner[d.schacht[s].owner] = d.owner[d.schacht[s].owner]
       /\ d.schacht[s].typ # NoTyp => e.typ[d.schacht[s].typ] = d.typ[d.schacht[s].typ]
DuctStep(d, e, t) ==
    \/ e.duct[t] = NoDuct
    \/ e.duct[t] \in LkmapPage!Trassen /\ e.duct[t].changed = e.now
    \/ /\ e.duct[t] = d.duct[t]
       /\ \A s \in LkmapPage!EndsOf(d.duct[t]) : e.schacht[s].position = d.schacht[s].position
       /\ e.owner[d.duct[t].owner] = d.owner[d.duct[t].owner]
NetworkStep(d, e) ==
    /\ DOMAIN e = DOMAIN d
    /\ DOMAIN e.owner = DOMAIN d.owner /\ DOMAIN e.typ = DOMAIN d.typ
    /\ DOMAIN e.schacht = DOMAIN d.schacht /\ DOMAIN e.duct = DOMAIN d.duct
    /\ e.deliveries = d.deliveries
    /\ e.now \in Int /\ e.now > d.now
    /\ \A s \in World.lkmap.Schacht : SchachtStep(d, e, s)
    /\ \A t \in World.lkmap.Duct : DuctStep(d, e, t)

LEMMA RowsKept ==
    ASSUME NEW d, NEW e, NetworkOK(d), NetworkStep(d, e)
    PROVE  NetworkOK(e)
<1>1. d.now \in Int /\ e.now \in Int /\ d.now < e.now
    BY DEF NetworkOK, NetworkStep
<1>2. ASSUME NEW s \in World.lkmap.Schacht
      PROVE  e.schacht[s] \in LkmapPage!Schaechte /\ e.schacht[s].changed <= e.now
  <2>1. d.schacht[s] \in LkmapPage!Schaechte /\ d.schacht[s].changed <= d.now /\ d.schacht[s].changed \in Int
      BY DEF NetworkOK, LkmapPage!Schaechte
  <2>2. SchachtStep(d, e, s)
      BY DEF NetworkStep
  <2> QED BY <1>1, <2>1, <2>2 DEF SchachtStep
<1>3. ASSUME NEW t \in World.lkmap.Duct, e.duct[t] # NoDuct
      PROVE  e.duct[t] \in LkmapPage!Trassen /\ e.duct[t].changed <= e.now
  <2>1. d.duct[t] # NoDuct =>
            /\ d.duct[t] \in LkmapPage!Trassen /\ d.duct[t].changed <= d.now /\ d.duct[t].changed \in Int
      BY DEF NetworkOK, LkmapPage!Trassen
  <2>2. DuctStep(d, e, t)
      BY DEF NetworkStep
  <2> QED BY <1>1, <1>3, <2>1, <2>2 DEF DuctStep
<1> QED BY <1>1, <1>2, <1>3 DEF NetworkOK, NetworkStep

(* What is exported differently after the step is dated later than         *)
(* anything before it.                                                     *)
LEMMA SchachtMoves ==
    ASSUME NEW d, NEW e, NetworkStep(d, e), NEW s \in World.lkmap.Schacht
    PROVE  \/ e.schacht[s].changed = e.now
           \/ /\ e.schacht[s].changed = d.schacht[s].changed
              /\ LkmapPage!LkPunkt(e, s) = LkmapPage!LkPunkt(d, s)
<1>1. SchachtStep(d, e, s)
    BY DEF NetworkStep
<1> QED BY <1>1, PointKept DEF SchachtStep

LEMMA DuctMoves ==
    ASSUME NEW d, NEW e, NetworkStep(d, e), NEW t \in LkmapPage!DeliveredDucts(e)
    PROVE  \/ e.duct[t].changed = e.now
           \/ /\ t \in LkmapPage!DeliveredDucts(d) /\ e.duct[t].changed = d.duct[t].changed
              /\ LkmapPage!LkLinie(e, t) = LkmapPage!LkLinie(d, t)
<1>1. t \in World.lkmap.Duct /\ e.duct[t] # NoDuct
    BY DEF LkmapPage!DeliveredDucts, LkmapPage!Ducts
<1>2. DuctStep(d, e, t)
    BY <1>1 DEF NetworkStep
<1> QED BY <1>1, <1>2, LineKept DEF DuctStep

LEMMA LogKept ==
    ASSUME NEW d, NEW e, NetworkOK(d), LogOK(d), NetworkStep(d, e)
    PROVE  LogOK(e)
<1>1. e.deliveries = d.deliveries /\ e.now \in Int /\ e.now > d.now /\ d.now \in Int
    BY DEF NetworkOK, NetworkStep
<1>2. ASSUME NEW i \in DOMAIN d.deliveries PROVE DatedAfter(e, d.deliveries[i])
  <2> DEFINE x == d.deliveries[i]
  <2>1. x.created \in Int /\ x.created <= d.now /\ DatedAfter(d, x)
      BY DEF LogOK
  <2> HIDE DEF x
  <2>2. ASSUME NEW s \in World.lkmap.Schacht, NEW y \in x.files.schaechte,
               y.id = s, y # LkmapPage!LkPunkt(e, s)
        PROVE  e.schacht[s].changed > x.created
    <3>1. CASE e.schacht[s].changed = e.now
        BY <1>1, <2>1, <3>1
    <3>2. CASE /\ e.schacht[s].changed = d.schacht[s].changed
               /\ LkmapPage!LkPunkt(e, s) = LkmapPage!LkPunkt(d, s)
        BY <2>1, <2>2, <3>2 DEF DatedAfter
    <3> QED BY <3>1, <3>2, SchachtMoves
  <2>3. ASSUME NEW t \in LkmapPage!DeliveredDucts(e), LkmapPage!LkLinie(e, t) \notin x.files.ducts
        PROVE  e.duct[t].changed > x.created
    <3>1. CASE e.duct[t].changed = e.now
        BY <1>1, <2>1, <3>1
    <3>2. CASE /\ t \in LkmapPage!DeliveredDucts(d) /\ e.duct[t].changed = d.duct[t].changed
               /\ LkmapPage!LkLinie(e, t) = LkmapPage!LkLinie(d, t)
        BY <2>1, <2>3, <3>2 DEF DatedAfter
    <3> QED BY <3>1, <3>2, DuctMoves
  <2> QED BY <2>2, <2>3 DEF DatedAfter, x
<1>3. \A i \in DOMAIN e.deliveries : e.deliveries[i].created <= e.now
    BY <1>1 DEF LogOK
<1> QED BY <1>1, <1>2, <1>3 DEF LogOK

LEMMA NetworkStepKeeps ==
    ASSUME LkmapInv, NetworkStep(db, db')
    PROVE  LkmapInv'
<1>1. NetworkOK(db') /\ LogOK(db')
    BY RowsKept, LogKept DEF LkmapInv
<1>2. LkmapInv' = (NetworkOK(db') /\ LogOK(db'))
    BY DEF LkmapInv
<1> QED BY <1>1, <1>2

-----------------------------------------------------------------------------
(* The changes of the network *)

(* The owner and the type of a row are in their tables.                    *)
LEMMA RowsRefer ==
    ASSUME NEW d, NetworkOK(d)
    PROVE  /\ \A s \in World.lkmap.Schacht :
                 /\ d.schacht[s].owner \in World.lkmap.Owner
                 /\ d.schacht[s].typ \in World.lkmap.Typ \union {NoTyp}
           /\ \A t \in World.lkmap.Duct : d.duct[t] # NoDuct =>
                 d.duct[t].owner \in World.lkmap.Owner
                 /\ LkmapPage!EndsOf(d.duct[t]) \subseteq World.lkmap.Schacht
BY DEF NetworkOK, LkmapPage!Schaechte, LkmapPage!Trassen, LkmapPage!EndsOf

(* The row of a manhole that is updated. *)
LEMMA SchachtUpdated ==
    ASSUME NEW old \in LkmapPage!Schaechte, NEW row \in LkmapPage!SchachtRows, NEW time \in Int,
           NEW new, new = LkmapPage!Dated(old, [row EXCEPT !.changed = old.changed], time)
    PROVE  /\ new \in LkmapPage!Schaechte /\ new.position = row.position
           /\ new = old \/ new.changed = time
<1> DEFINE asked == [row EXCEPT !.changed = old.changed]
<1>1. asked \in LkmapPage!Schaechte /\ asked.position = row.position
    BY DEF LkmapPage!SchachtRows, LkmapPage!Schaechte
<1>2. CASE old = asked
    BY <1>1, <1>2 DEF LkmapPage!Dated
<1>3. CASE old # asked
  <2>1. new = [asked EXCEPT !.changed = time]
      BY <1>3 DEF LkmapPage!Dated
  <2>2. PICK a \in LkmapPage!Schaechte : a = asked
      BY <1>1
  <2> HIDE DEF asked
  <2>3. new = [a EXCEPT !.changed = time]
      BY <2>1, <2>2
  <2> QED BY <1>1, <2>2, <2>3 DEF LkmapPage!Schaechte
<1> QED BY <1>2, <1>3

(* The row of a duct that is created or updated. *)
LEMMA TrasseAsked ==
    ASSUME NEW row \in LkmapPage!DuctRows
    PROVE  row \in LkmapPage!Trassen
BY DEF LkmapPage!DuctRows, LkmapPage!Trassen

LEMMA DuctUpdated ==
    ASSUME NEW old \in LkmapPage!Trassen, NEW row \in LkmapPage!DuctRows, NEW time \in Int,
           NEW new, new = LkmapPage!Dated(old, [row EXCEPT !.changed = old.changed], time)
    PROVE  new = old \/ (new \in LkmapPage!Trassen /\ new.changed = time)
<1> DEFINE asked == [row EXCEPT !.changed = old.changed]
<1>1. PICK was \in Int : was = old.changed
    BY DEF LkmapPage!Trassen
<1>2. asked \in LkmapPage!Trassen
  <2>1. row \in LkmapPage!Trassen
      BY TrasseAsked
  <2> QED BY <1>1, <2>1, DatedTrasse
<1> HIDE DEF asked
<1>3. CASE old = asked
    BY <1>3 DEF LkmapPage!Dated, asked
<1>4. CASE old # asked
  <2>1. new = [asked EXCEPT !.changed = time]
      BY <1>4 DEF LkmapPage!Dated, asked
  <2>2. PICK a \in LkmapPage!Trassen : a = asked
      BY <1>2
  <2> QED BY <2>1, <2>2, DatedTrasse
<1> QED BY <1>3, <1>4

LEMMA LkmapUpdateSchacht ==
    ASSUME LkmapInv, NEW k \in World.lkmap.Schacht, NEW row \in LkmapPage!SchachtRows,
           LkmapPage!UpdateSchacht(k, row)
    PROVE  LkmapInv'
<1>0. NetworkOK(db)
    BY DEF LkmapInv
<1>1. PICK old \in LkmapPage!Schaechte : old = db.schacht[k]
    BY <1>0 DEF NetworkOK
<1>2. PICK time \in Int : time = db.now + 1 /\ time > db.now
    BY <1>0 DEF NetworkOK
<1>3. PICK new : new = LkmapPage!Dated(old, [row EXCEPT !.changed = old.changed], time)
    OBVIOUS
<1>4. PICK ducts : ducts = IF row.position # old.position THEN LkmapPage!Verschoben(db, k, time) ELSE db.duct
    OBVIOUS
<1>5. /\ DOMAIN db' = DOMAIN db
      /\ db'.owner = db.owner /\ db'.typ = db.typ /\ db'.deliveries = db.deliveries /\ db'.now = time
      /\ db'.schacht = [db.schacht EXCEPT ![k] = new] /\ db'.duct = ducts
    BY <1>0, <1>1, <1>2, <1>3, <1>4 DEF NetworkOK, LkmapPage!UpdateSchacht, LkmapPage!Network
<1>6. /\ new \in LkmapPage!Schaechte /\ new.position = row.position
      /\ new = old \/ new.changed = time
    BY <1>3, SchachtUpdated
<1>7. DOMAIN ducts = World.lkmap.Duct
      /\ \A t \in World.lkmap.Duct :
            \/ ducts[t] = db.duct[t]
               /\ (db.duct[t] # NoDuct /\ k \in LkmapPage!EndsOf(db.duct[t]) => row.position = old.position)
            \/ ducts[t] \in LkmapPage!Trassen /\ ducts[t].changed = time
  <2>1. CASE row.position = old.position
      BY <1>0, <1>4, <2>1 DEF NetworkOK
  <2>2. CASE row.position # old.position
    <3> DEFINE some == {t \in LkmapPage!Ducts(db) : k \in LkmapPage!EndsOf(db.duct[t])}
    <3>1. ducts = LkmapPage!Touched(db.duct, some, time)
        BY <1>4, <2>2 DEF LkmapPage!Verschoben
    <3>2. \A t \in World.lkmap.Duct :
              t \in some <=> db.duct[t] # NoDuct /\ k \in LkmapPage!EndsOf(db.duct[t])
        BY DEF LkmapPage!Ducts
    <3> HIDE DEF some
    <3>3. DOMAIN ducts = World.lkmap.Duct
          /\ \A t \in World.lkmap.Duct :
                \/ t \notin some /\ ducts[t] = db.duct[t]
                \/ ducts[t] \in LkmapPage!Trassen /\ ducts[t].changed = time
        BY <1>0, <3>1, <3>2, TouchedDucts
    <3> QED BY <3>2, <3>3
  <2> QED BY <2>1, <2>2
<1>8. DOMAIN db'.schacht = DOMAIN db.schacht
      /\ \A s \in World.lkmap.Schacht :
            /\ s # k => db'.schacht[s] = db.schacht[s]
            /\ s = k => db'.schacht[s] = new
    BY <1>0, <1>5 DEF NetworkOK
<1>9. ASSUME NEW s \in World.lkmap.Schacht PROVE SchachtStep(db, db', s)
    BY <1>1, <1>5, <1>6, <1>8 DEF SchachtStep
<1>10. ASSUME NEW t \in World.lkmap.Duct PROVE DuctStep(db, db', t)
  <2>1. CASE db'.duct[t] = NoDuct
      BY <2>1 DEF DuctStep
  <2>2. CASE ducts[t] \in LkmapPage!Trassen /\ ducts[t].changed = time
      BY <1>5, <2>2 DEF DuctStep
  <2>3. CASE /\ db'.duct[t] # NoDuct /\ ducts[t] = db.duct[t]
             /\ db.duct[t] # NoDuct /\ k \in LkmapPage!EndsOf(db.duct[t]) => row.position = old.position
    <3>1. LkmapPage!EndsOf(db.duct[t]) \subseteq World.lkmap.Schacht
        BY <1>0, <1>5, <2>3, RowsRefer
    <3>2. \A s \in LkmapPage!EndsOf(db.duct[t]) : db'.schacht[s].position = db.schacht[s].position
        BY <1>1, <1>5, <1>6, <1>8, <2>3, <3>1
    <3> QED BY <1>5, <2>3, <3>2 DEF DuctStep
  <2> QED BY <1>7, <2>1, <2>2, <2>3
<1>11. NetworkStep(db, db')
    BY <1>0, <1>2, <1>5, <1>7, <1>8, <1>9, <1>10 DEF NetworkStep, NetworkOK
<1> QED BY <1>11, NetworkStepKeeps

LEMMA LkmapCreateDuct ==
    ASSUME LkmapInv, NEW row \in LkmapPage!DuctRows, LkmapPage!CreateDuct(row)
    PROVE  LkmapInv'
<1>0. NetworkOK(db)
    BY DEF LkmapInv
<1>1. PICK time \in Int : time = db.now + 1 /\ time > db.now
    BY <1>0 DEF NetworkOK
<1>2. PICK k : k = LkmapPage!Min({t \in World.lkmap.Duct : db.duct[t] = NoDuct})
    OBVIOUS
<1>3. PICK new : new = [row EXCEPT !.changed = time]
    OBVIOUS
<1>4. /\ DOMAIN db' = DOMAIN db
      /\ db'.owner = db.owner /\ db'.typ = db.typ /\ db'.deliveries = db.deliveries /\ db'.now = time
      /\ db'.schacht = db.schacht /\ db'.duct = [db.duct EXCEPT ![k] = new]
    BY <1>0, <1>1, <1>2, <1>3 DEF NetworkOK, LkmapPage!CreateDuct, LkmapPage!Network
<1>5. new \in LkmapPage!Trassen /\ new.changed = time
    BY <1>3, TrasseAsked, DatedTrasse
<1>6. DOMAIN db'.duct = DOMAIN db.duct
      /\ \A t \in World.lkmap.Duct : db'.duct[t] = db.duct[t] \/ db'.duct[t] = new
    BY <1>0, <1>4 DEF NetworkOK
<1>7. NetworkStep(db, db')
    BY <1>0, <1>1, <1>4, <1>5, <1>6 DEF NetworkStep, NetworkOK, SchachtStep, DuctStep
<1> QED BY <1>7, NetworkStepKeeps

LEMMA LkmapUpdateDuct ==
    ASSUME LkmapInv, NEW k \in World.lkmap.Duct, NEW row \in LkmapPage!DuctRows,
           LkmapPage!UpdateDuct(k, row)
    PROVE  LkmapInv'
<1>0. NetworkOK(db)
    BY DEF LkmapInv
<1>1. PICK time \in Int : time = db.now + 1 /\ time > db.now
    BY <1>0 DEF NetworkOK
<1>2. PICK old \in LkmapPage!Trassen : old = db.duct[k]
    BY <1>0 DEF NetworkOK, LkmapPage!UpdateDuct, LkmapPage!Ducts
<1>3. PICK new : new = LkmapPage!Dated(old, [row EXCEPT !.changed = old.changed], time)
    OBVIOUS
<1>4. /\ DOMAIN db' = DOMAIN db
      /\ db'.owner = db.owner /\ db'.typ = db.typ /\ db'.deliveries = db.deliveries /\ db'.now = time
      /\ db'.schacht = db.schacht /\ db'.duct = [db.duct EXCEPT ![k] = new]
    BY <1>0, <1>1, <1>2, <1>3 DEF NetworkOK, LkmapPage!UpdateDuct, LkmapPage!Network
<1>5. new = old \/ (new \in LkmapPage!Trassen /\ new.changed = time)
    BY <1>3, DuctUpdated
<1>6. DOMAIN db'.duct = DOMAIN db.duct
      /\ \A t \in World.lkmap.Duct :
            /\ t # k => db'.duct[t] = db.duct[t]
            /\ t = k => db'.duct[t] = new
    BY <1>0, <1>4 DEF NetworkOK
<1>7. \A t \in World.lkmap.Duct :
          db'.duct[t] = db.duct[t] \/ (db'.duct[t] \in LkmapPage!Trassen /\ db'.duct[t].changed = time)
    BY <1>2, <1>5, <1>6
<1>8. NetworkStep(db, db')
    BY <1>0, <1>1, <1>4, <1>6, <1>7 DEF NetworkStep, NetworkOK, SchachtStep, DuctStep
<1> QED BY <1>8, NetworkStepKeeps

LEMMA LkmapDeleteDuct ==
    ASSUME LkmapInv, NEW k \in World.lkmap.Duct, LkmapPage!DeleteDuct(k)
    PROVE  LkmapInv'
<1>0. NetworkOK(db)
    BY DEF LkmapInv
<1>1. PICK time \in Int : time = db.now + 1 /\ time > db.now
    BY <1>0 DEF NetworkOK
<1>2. /\ DOMAIN db' = DOMAIN db
      /\ db'.owner = db.owner /\ db'.typ = db.typ /\ db'.deliveries = db.deliveries /\ db'.now = time
      /\ db'.schacht = db.schacht /\ db'.duct = [db.duct EXCEPT ![k] = NoDuct]
    BY <1>0, <1>1 DEF NetworkOK, LkmapPage!DeleteDuct, LkmapPage!Network
<1>3. DOMAIN db'.duct = DOMAIN db.duct
      /\ \A t \in World.lkmap.Duct : db'.duct[t] = db.duct[t] \/ db'.duct[t] = NoDuct
    BY <1>0, <1>2 DEF NetworkOK
<1>4. NetworkStep(db, db')
    BY <1>0, <1>1, <1>2, <1>3 DEF NetworkStep, NetworkOK, SchachtStep, DuctStep
<1> QED BY <1>4, NetworkStepKeeps

LEMMA LkmapUpdateOwner ==
    ASSUME LkmapInv, NEW o \in World.lkmap.Owner, NEW row, LkmapPage!UpdateOwner(o, row)
    PROVE  LkmapInv'
<1>0. NetworkOK(db)
    BY DEF LkmapInv
<1>1. PICK time \in Int : time = db.now + 1 /\ time > db.now
    BY <1>0 DEF NetworkOK
<1>2. PICK some : some = IF row # db.owner[o] THEN {s \in World.lkmap.Schacht : db.schacht[s].owner = o} ELSE {}
    OBVIOUS
<1>3. PICK more : more = IF row # db.owner[o] THEN {t \in LkmapPage!Ducts(db) : db.duct[t].owner = o} ELSE {}
    OBVIOUS
<1>4. PICK rows : rows = LkmapPage!Touched(db.schacht, some, time)
    OBVIOUS
<1>5. PICK ducts : ducts = LkmapPage!Touched(db.duct, more, time)
    OBVIOUS
<1>6. db' = [[db EXCEPT !.owner[o] = row,
                        !.schacht = LkmapPage!Touched(@, some, time),
                        !.duct = LkmapPage!Touched(@, more, time)] EXCEPT !.now = @ + 1]
    BY <1>1, <1>2, <1>3 DEF LkmapPage!UpdateOwner, LkmapPage!Network
<1>7. /\ DOMAIN db' = DOMAIN db
      /\ db'.owner = [db.owner EXCEPT ![o] = row] /\ db'.typ = db.typ
      /\ db'.deliveries = db.deliveries /\ db'.now = time
      /\ db'.schacht = rows /\ db'.duct = ducts
    BY <1>0, <1>1, <1>4, <1>5, <1>6 DEF NetworkOK
<1>8. /\ DOMAIN rows = DOMAIN db.schacht
      /\ \A s \in World.lkmap.Schacht :
            /\ rows[s].position = db.schacht[s].position
            /\ \/ s \notin some /\ rows[s] = db.schacht[s]
               \/ rows[s] \in LkmapPage!Schaechte /\ rows[s].changed = time
  <2>1. SchaechteTouched(db, rows, some, time)
      BY <1>0, <1>4, TouchedSchaechte
  <2> QED BY <2>1 DEF SchaechteTouched
<1>9. /\ DOMAIN ducts = World.lkmap.Duct
      /\ \A t \in World.lkmap.Duct :
            \/ t \notin more /\ ducts[t] = db.duct[t]
            \/ ducts[t] \in LkmapPage!Trassen /\ ducts[t].changed = time
  <2>1. \A t \in World.lkmap.Duct : t \in more => db.duct[t] # NoDuct
      BY <1>3 DEF LkmapPage!Ducts
  <2> QED BY <1>0, <1>5, <2>1, TouchedDucts
<1>10. \A a \in World.lkmap.Owner : db'.owner[a] = db.owner[a] \/ (a = o /\ row # db.owner[o])
    BY <1>0, <1>7 DEF NetworkOK
<1>11. ASSUME NEW s \in World.lkmap.Schacht PROVE SchachtStep(db, db', s)
  <2>1. CASE s \notin some /\ rows[s] = db.schacht[s]
    <3>1. db.schacht[s].owner \in World.lkmap.Owner
        BY <1>0, RowsRefer
    <3>2. db'.owner[db.schacht[s].owner] = db.owner[db.schacht[s].owner]
        BY <1>2, <1>10, <2>1, <3>1
    <3> QED BY <1>7, <2>1, <3>2 DEF SchachtStep
  <2>2. CASE rows[s] \in LkmapPage!Schaechte /\ rows[s].changed = time
      BY <1>7, <2>2 DEF SchachtStep
  <2> QED BY <1>8, <2>1, <2>2
<1>12. ASSUME NEW t \in World.lkmap.Duct PROVE DuctStep(db, db', t)
  <2>1. CASE db'.duct[t] = NoDuct
      BY <2>1 DEF DuctStep
  <2>2. CASE ducts[t] \in LkmapPage!Trassen /\ ducts[t].changed = time
      BY <1>7, <2>2 DEF DuctStep
  <2>3. CASE db'.duct[t] # NoDuct /\ t \notin more /\ ducts[t] = db.duct[t]
    <3>1. /\ db.duct[t] # NoDuct /\ db.duct[t].owner \in World.lkmap.Owner
          /\ LkmapPage!EndsOf(db.duct[t]) \subseteq World.lkmap.Schacht
        BY <1>0, <1>7, <2>3, RowsRefer
    <3>2. db'.owner[db.duct[t].owner] = db.owner[db.duct[t].owner]
        BY <1>3, <1>10, <2>3, <3>1 DEF LkmapPage!Ducts
    <3>3. \A s \in LkmapPage!EndsOf(db.duct[t]) : db'.schacht[s].position = db.schacht[s].position
        BY <1>7, <1>8, <3>1
    <3> QED BY <1>7, <2>3, <3>2, <3>3 DEF DuctStep
  <2> QED BY <1>9, <2>1, <2>2, <2>3
<1>13. NetworkStep(db, db')
    BY <1>0, <1>1, <1>7, <1>8, <1>9, <1>11, <1>12 DEF NetworkStep, NetworkOK
<1> QED BY <1>13, NetworkStepKeeps

LEMMA LkmapUpdateTyp ==
    ASSUME LkmapInv, NEW k \in World.lkmap.Typ, NEW objektart, LkmapPage!UpdateTyp(k, objektart)
    PROVE  LkmapInv'
<1>0. NetworkOK(db)
    BY DEF LkmapInv
<1>1. PICK time \in Int : time = db.now + 1 /\ time > db.now
    BY <1>0 DEF NetworkOK
<1>2. PICK some : some = {s \in World.lkmap.Schacht : db.schacht[s].typ = k /\ objektart # db.typ[k]}
    OBVIOUS
<1>3. PICK rows : rows = LkmapPage!Touched(db.schacht, some, time)
    OBVIOUS
<1>4. db' = [[db EXCEPT !.typ[k] = objektart, !.schacht = LkmapPage!Touched(@, some, time)] EXCEPT !.now = @ + 1]
    BY <1>1, <1>2 DEF LkmapPage!UpdateTyp, LkmapPage!Network
<1>5. /\ DOMAIN db' = DOMAIN db
      /\ db'.owner = db.owner /\ db'.typ = [db.typ EXCEPT ![k] = objektart]
      /\ db'.deliveries = db.deliveries /\ db'.now = time
      /\ db'.schacht = rows /\ db'.duct = db.duct
    BY <1>0, <1>1, <1>3, <1>4 DEF NetworkOK
<1>6. /\ DOMAIN rows = DOMAIN db.schacht
      /\ \A s \in World.lkmap.Schacht :
            /\ rows[s].position = db.schacht[s].position
            /\ \/ s \notin some /\ rows[s] = db.schacht[s]
               \/ rows[s] \in LkmapPage!Schaechte /\ rows[s].changed = time
  <2>1. SchaechteTouched(db, rows, some, time)
      BY <1>0, <1>3, TouchedSchaechte
  <2> QED BY <2>1 DEF SchaechteTouched
<1>7. ASSUME NEW s \in World.lkmap.Schacht PROVE SchachtStep(db, db', s)
  <2>1. CASE s \notin some /\ rows[s] = db.schacht[s]
    <3>1. ASSUME db.schacht[s].typ # NoTyp
          PROVE  db'.typ[db.schacht[s].typ] = db.typ[db.schacht[s].typ]
      <4>1. db.schacht[s].typ \in World.lkmap.Typ
          BY <1>0, <3>1, RowsRefer
      <4> QED BY <1>0, <1>2, <1>5, <2>1, <4>1 DEF NetworkOK
    <3> QED BY <1>5, <2>1, <3>1 DEF SchachtStep
  <2>2. CASE rows[s] \in LkmapPage!Schaechte /\ rows[s].changed = time
      BY <1>5, <2>2 DEF SchachtStep
  <2> QED BY <1>6, <2>1, <2>2
<1>8. ASSUME NEW t \in World.lkmap.Duct PROVE DuctStep(db, db', t)
  <2>1. CASE db.duct[t] = NoDuct
      BY <1>5, <2>1 DEF DuctStep
  <2>2. CASE db.duct[t] # NoDuct
    <3>1. \A s \in LkmapPage!EndsOf(db.duct[t]) : db'.schacht[s].position = db.schacht[s].position
        BY <1>0, <1>5, <1>6, <2>2, RowsRefer
    <3> QED BY <1>5, <3>1 DEF DuctStep
  <2> QED BY <2>1, <2>2
<1>9. NetworkStep(db, db')
    BY <1>0, <1>1, <1>5, <1>6, <1>7, <1>8 DEF NetworkStep, NetworkOK
<1> QED BY <1>9, NetworkStepKeeps

LEMMA LaterDay ==
    ASSUME NEW length \in Nat \ {0}, NEW time \in Int
    PROVE  (time \div length + 1) * length \in Int /\ (time \div length + 1) * length > time
OBVIOUS

LEMMA LkmapTomorrow ==
    ASSUME LkmapInv, LkmapPage!Tomorrow
    PROVE  LkmapInv'
<1>0. NetworkOK(db)
    BY DEF LkmapInv
<1>1. PICK time : time = (db.now \div World.lkmap.DayLength + 1) * World.lkmap.DayLength
    OBVIOUS
<1>2. time \in Int /\ time > db.now
    BY <1>0, <1>1, LaterDay, LkmapKnown DEF NetworkOK, LkmapPage!Known
<1>3. /\ DOMAIN db' = DOMAIN db
      /\ db'.owner = db.owner /\ db'.typ = db.typ /\ db'.deliveries = db.deliveries /\ db'.now = time
      /\ db'.schacht = db.schacht /\ db'.duct = db.duct
    BY <1>0, <1>1 DEF NetworkOK, LkmapPage!Tomorrow, LkmapPage!Day
<1>4. NetworkStep(db, db')
    BY <1>0, <1>2, <1>3 DEF NetworkStep, NetworkOK, SchachtStep, DuctStep
<1> QED BY <1>4, NetworkStepKeeps

-----------------------------------------------------------------------------
(* The log of the deliveries *)

(* The network is as it was; a delivery in the log was there before, or is *)
(* of what is exported now.                                                *)
SameNetwork(d, e) ==
    /\ DOMAIN e = DOMAIN d
    /\ e.owner = d.owner /\ e.typ = d.typ /\ e.schacht = d.schacht /\ e.duct = d.duct
    /\ e.now \in Int /\ e.now >= d.now
Logged(d, e, delivery) ==
    /\ DOMAIN delivery = {"created", "files", "delivered"}
    /\ \/ \E old \in Range(d.deliveries) : delivery.created = old.created /\ delivery.files = old.files
       \/ delivery.created = e.now /\ delivery.files = LkmapPage!Files(d)

LEMMA SameExport ==
    ASSUME NEW d, NEW e, SameNetwork(d, e), NEW delivery, DatedAfter(d, delivery)
    PROVE  DatedAfter(e, delivery)
<1>1. LkmapPage!DeliveredDucts(e) = LkmapPage!DeliveredDucts(d)
    BY DEF SameNetwork, LkmapPage!DeliveredDucts, LkmapPage!Ducts, LkmapPage!Located
<1>2. \A s : LkmapPage!LkPunkt(e, s) = LkmapPage!LkPunkt(d, s)
    BY DEF SameNetwork, LkmapPage!LkPunkt, LkmapPage!Eigentuemer
<1>3. \A t : LkmapPage!LkLinie(e, t) = LkmapPage!LkLinie(d, t)
    BY DEF SameNetwork, LkmapPage!LkLinie, LkmapPage!Eigentuemer
<1> QED BY <1>1, <1>2, <1>3 DEF SameNetwork, DatedAfter

(* Nothing differs from what is delivered now.                             *)
LEMMA NothingDiffers ==
    ASSUME NEW d, NEW delivery, delivery.files = LkmapPage!Files(d)
    PROVE  DatedAfter(d, delivery)
<1>1. ASSUME NEW s \in World.lkmap.Schacht, NEW x \in delivery.files.schaechte, x.id = s
      PROVE  x = LkmapPage!LkPunkt(d, s)
  <2>1. PICK s0 \in LkmapPage!DeliveredSchaechte(d) : x = LkmapPage!LkPunkt(d, s0)
      BY DEF LkmapPage!Files
  <2>2. x.id = s0
      BY <2>1 DEF LkmapPage!LkPunkt
  <2> QED BY <1>1, <2>1, <2>2
<1>2. \A t \in LkmapPage!DeliveredDucts(d) : LkmapPage!LkLinie(d, t) \in delivery.files.ducts
    BY DEF LkmapPage!Files
<1> QED BY <1>1, <1>2 DEF DatedAfter

LEMMA LogStepKeeps ==
    ASSUME LkmapInv, SameNetwork(db, db'), \E A : db'.deliveries \in Seq(A),
           \A i \in DOMAIN db'.deliveries : Logged(db, db', db'.deliveries[i])
    PROVE  LkmapInv'
<1>0. NetworkOK(db) /\ LogOK(db) /\ db.now \in Int /\ db'.now \in Int /\ db'.now >= db.now
    BY DEF LkmapInv, NetworkOK, SameNetwork
<1>1. NetworkOK(db')
  <2>1. \A s \in World.lkmap.Schacht : db.schacht[s].changed \in Int
      BY <1>0 DEF NetworkOK, LkmapPage!Schaechte
  <2>2. \A t \in World.lkmap.Duct : db.duct[t] # NoDuct => db.duct[t].changed \in Int
      BY <1>0 DEF NetworkOK, LkmapPage!Trassen
  <2>3. \A s \in World.lkmap.Schacht :
            db'.schacht[s] \in LkmapPage!Schaechte /\ db'.schacht[s].changed <= db'.now
      BY <1>0, <2>1 DEF NetworkOK, SameNetwork
  <2>4. \A t \in World.lkmap.Duct : db'.duct[t] # NoDuct =>
            db'.duct[t] \in LkmapPage!Trassen /\ db'.duct[t].changed <= db'.now
      BY <1>0, <2>2 DEF NetworkOK, SameNetwork
  <2> QED BY <1>0, <2>3, <2>4 DEF NetworkOK, SameNetwork
<1>2. ASSUME NEW i \in DOMAIN db'.deliveries
      PROVE  /\ DOMAIN db'.deliveries[i] = {"created", "files", "delivered"}
             /\ db'.deliveries[i].created \in Int /\ db'.deliveries[i].created <= db'.now
             /\ DatedAfter(db', db'.deliveries[i])
  <2>1. PICK x : x = db'.deliveries[i]
      OBVIOUS
  <2>2. Logged(db, db', x)
      BY <2>1
  <2>3. CASE \E old \in Range(db.deliveries) : x.created = old.created /\ x.files = old.files
    <3>1. PICK j \in DOMAIN db.deliveries :
              x.created = db.deliveries[j].created /\ x.files = db.deliveries[j].files
        BY <2>3 DEF Range
    <3>2. /\ db.deliveries[j].created \in Int /\ db.deliveries[j].created <= db.now
          /\ DatedAfter(db, db.deliveries[j])
        BY <1>0 DEF LogOK
    <3>3. DatedAfter(db, x)
        BY <3>1, <3>2 DEF DatedAfter
    <3>4. DatedAfter(db', x)
        BY <3>3, SameExport
    <3> QED BY <1>0, <2>1, <2>2, <3>1, <3>2, <3>4 DEF Logged
  <2>4. CASE x.created = db'.now /\ x.files = LkmapPage!Files(db)
    <3>1. DatedAfter(db, x)
        BY <2>4, NothingDiffers
    <3>2. DatedAfter(db', x)
        BY <3>1, SameExport
    <3> QED BY <1>0, <2>1, <2>2, <2>4, <3>2 DEF Logged
  <2> QED BY <2>2, <2>3, <2>4 DEF Logged
<1>3. LogOK(db')
    BY <1>2 DEF LogOK
<1>4. LkmapInv' = (NetworkOK(db') /\ LogOK(db'))
    BY DEF LkmapInv
<1> QED BY <1>1, <1>3, <1>4

(* A log with a row more, and one with another row at a place.             *)
LEMMA RowMore ==
    ASSUME NEW A, NEW s \in Seq(A), NEW x
    PROVE  /\ Append(s, x) \in Seq(A \union {x})
           /\ \A i \in DOMAIN Append(s, x) : Append(s, x)[i] = x \/ (i \in DOMAIN s /\ Append(s, x)[i] = s[i])
OBVIOUS

LEMMA RowElse ==
    ASSUME NEW A, NEW s \in Seq(A), NEW k, NEW x, NEW t, t = [s EXCEPT ![k] = x]
    PROVE  /\ t \in Seq(A \union {x})
           /\ DOMAIN t = DOMAIN s
           /\ \A i \in DOMAIN s : t[i] = IF i = k THEN x ELSE s[i]
<1>1. DOMAIN s = 1 .. Len(s) /\ Len(s) \in Nat /\ \A i \in 1 .. Len(s) : s[i] \in A
    OBVIOUS
<1>2. t = [i \in 1 .. Len(s) |-> IF i = k THEN x ELSE s[i]]
    BY <1>1
<1>3. t \in [1 .. Len(s) -> A \union {x}]
    BY <1>1, <1>2
<1>4. t \in Seq(A \union {x})
    BY <1>1, <1>3, SeqDef
<1> QED BY <1>1, <1>2, <1>4

LEMMA RowWas ==
    ASSUME NEW d, LogOK(d), NEW e, NEW i \in DOMAIN d.deliveries
    PROVE  Logged(d, e, d.deliveries[i])
BY DEF LogOK, Logged, Range

LEMMA LkmapDownload ==
    ASSUME LkmapInv, NEW c, LkmapPage!ServeDownload(c)
    PROVE  LkmapInv'
<1>0. NetworkOK(db) /\ LogOK(db)
    BY DEF LkmapInv
<1>1. CASE db' = db
    BY <1>1 DEF LkmapInv, NetworkOK, LogOK, DatedAfter
<1>2. CASE db' # db
  <2>1. PICK time \in Int : time = db.now + 1 /\ time > db.now
      BY <1>0 DEF NetworkOK
  <2>2. PICK x : x = [created |-> time, files |-> LkmapPage!Files(db), delivered |-> LkmapPage!Never]
      OBVIOUS
  <2>3. PICK log : log = Append(db.deliveries, x)
      OBVIOUS
  <2>4. /\ DOMAIN db' = DOMAIN db
        /\ db'.owner = db.owner /\ db'.typ = db.typ /\ db'.schacht = db.schacht /\ db'.duct = db.duct
        /\ db'.deliveries = log /\ db'.now = time
      BY <1>0, <1>2, <2>1, <2>2, <2>3 DEF NetworkOK, LkmapPage!ServeDownload, LkmapPage!Downloaded
  <2>5. SameNetwork(db, db')
      BY <1>0, <2>1, <2>4 DEF SameNetwork, NetworkOK
  <2>6. PICK A : db.deliveries \in Seq(A)
      BY <1>0 DEF LogOK
  <2>7. /\ log \in Seq(A \union {x})
        /\ \A i \in DOMAIN log : log[i] = x \/ (i \in DOMAIN db.deliveries /\ log[i] = db.deliveries[i])
      BY <2>3, <2>6, RowMore
  <2>8. Logged(db, db', x)
      BY <2>2, <2>4 DEF Logged
  <2>9. \A i \in DOMAIN log : Logged(db, db', log[i])
      BY <1>0, <2>7, <2>8, RowWas
  <2> QED BY <2>4, <2>5, <2>7, <2>9, LogStepKeeps
<1> QED BY <1>1, <1>2

LEMMA LkmapMark ==
    ASSUME LkmapInv, NEW c, LkmapPage!ServeMark(c)
    PROVE  LkmapInv'
<1>0. NetworkOK(db) /\ LogOK(db)
    BY DEF LkmapInv
<1>1. CASE db' = db
    BY <1>1 DEF LkmapInv, NetworkOK, LogOK, DatedAfter
<1>2. CASE db' # db
  <2>1. PICK time \in Int : time = db.now + 1 /\ time > db.now
      BY <1>0 DEF NetworkOK
  <2>2. PICK k : k = c.what.id
      OBVIOUS
  <2>3. PICK marked : marked = IF c.what.delivered THEN time ELSE LkmapPage!Never
      OBVIOUS
  <2>4. PICK x : x = [db.deliveries[k] EXCEPT !.delivered = marked]
      OBVIOUS
  <2>5. PICK log : log = [db.deliveries EXCEPT ![k] = x]
      OBVIOUS
  <2>6. /\ DOMAIN db' = DOMAIN db
        /\ db'.owner = db.owner /\ db'.typ = db.typ /\ db'.schacht = db.schacht /\ db'.duct = db.duct
        /\ db'.deliveries = log /\ db'.now = time
    <3>1. db' = LkmapPage!Mark(db, k, c.what.delivered)
        BY <2>2 DEF LkmapPage!ServeMark
    <3>2. db' = [db EXCEPT !.deliveries[k].delivered = marked, !.now = @ + 1]
        BY <1>2, <2>1, <2>3, <3>1 DEF LkmapPage!Mark
    <3> QED BY <1>0, <2>1, <2>4, <2>5, <3>2 DEF NetworkOK
  <2>7. SameNetwork(db, db')
      BY <1>0, <2>1, <2>6 DEF SameNetwork, NetworkOK
  <2>8. PICK A : db.deliveries \in Seq(A)
      BY <1>0 DEF LogOK
  <2>9. /\ log \in Seq(A \union {x}) /\ DOMAIN log = DOMAIN db.deliveries
        /\ \A i \in DOMAIN log : log[i] = IF i = k THEN x ELSE db.deliveries[i]
      BY <2>5, <2>8, RowElse
  <2>10. ASSUME k \in DOMAIN log PROVE Logged(db, db', x)
    <3>1. DOMAIN db.deliveries[k] = {"created", "files", "delivered"}
        BY <1>0, <2>9, <2>10 DEF LogOK
    <3>2. DOMAIN x = {"created", "files", "delivered"}
          /\ x.created = db.deliveries[k].created /\ x.files = db.deliveries[k].files
        BY <2>4, <3>1
    <3>3. db.deliveries[k] \in Range(db.deliveries)
        BY <2>9, <2>10 DEF Range
    <3> QED BY <3>2, <3>3 DEF Logged
  <2>11. \A i \in DOMAIN log : Logged(db, db', log[i])
      BY <1>0, <2>9, <2>10, RowWas
  <2> QED BY <2>6, <2>7, <2>9, <2>11, LogStepKeeps
<1> QED BY <1>1, <1>2

LEMMA LkmapSame ==
    ASSUME LkmapInv, UNCHANGED db
    PROVE  LkmapInv'
BY DEF LkmapInv, NetworkOK, LogOK, DatedAfter

LEMMA LkmapInit ==
    ASSUME LkmapPage!Init
    PROVE  LkmapInv
<1>1. PICK network \in World.lkmap.StoredNetwork :
          db = [owner |-> network.owner, typ |-> network.typ, schacht |-> network.schacht,
                duct |-> network.duct, deliveries |-> <<>>, now |-> 1]
    BY DEF LkmapPage!Init
<1>2. /\ DOMAIN network.owner = World.lkmap.Owner /\ DOMAIN network.typ = World.lkmap.Typ
      /\ DOMAIN network.schacht = World.lkmap.Schacht /\ DOMAIN network.duct = World.lkmap.Duct
      /\ \A s \in World.lkmap.Schacht :
            network.schacht[s] \in LkmapPage!Schaechte /\ network.schacht[s].changed <= 1
      /\ \A t \in World.lkmap.Duct : network.duct[t] # NoDuct =>
            network.duct[t] \in LkmapPage!Trassen /\ network.duct[t].changed <= 1
    BY <1>1, LkmapKnown DEF LkmapPage!Known
<1>3. NetworkOK(db)
    BY <1>1, <1>2 DEF NetworkOK
<1>4. LogOK(db)
  <2>1. <<>> \in Seq({}) /\ DOMAIN <<>> = {}
      OBVIOUS
  <2>2. db.deliveries = <<>>
      BY <1>1
  <2> QED BY <2>1, <2>2 DEF LogOK
<1> QED BY <1>3, <1>4 DEF LkmapInv

LEMMA LkmapStep ==
    ASSUME LkmapInv, LkmapPage!Next
    PROVE  LkmapInv'
<1>1. CASE LkmapPage!ChangeNetwork
  <2>1. ASSUME NEW s \in World.lkmap.Schacht, NEW row \in LkmapPage!SchachtRows,
               LkmapPage!UpdateSchacht(s, row)
        PROVE  LkmapInv'
      BY <2>1, LkmapUpdateSchacht
  <2>2. ASSUME NEW row \in LkmapPage!DuctRows, LkmapPage!CreateDuct(row)
        PROVE  LkmapInv'
      BY <2>2, LkmapCreateDuct
  <2>3. ASSUME NEW row \in LkmapPage!DuctRows, NEW t \in World.lkmap.Duct, LkmapPage!UpdateDuct(t, row)
        PROVE  LkmapInv'
      BY <2>3, LkmapUpdateDuct
  <2>4. ASSUME NEW t \in World.lkmap.Duct, LkmapPage!DeleteDuct(t)
        PROVE  LkmapInv'
      BY <2>4, LkmapDeleteDuct
  <2>5. ASSUME NEW o \in World.lkmap.Owner, NEW row, LkmapPage!UpdateOwner(o, row)
        PROVE  LkmapInv'
      BY <2>5, LkmapUpdateOwner
  <2>6. ASSUME NEW k \in World.lkmap.Typ, NEW objektart, LkmapPage!UpdateTyp(k, objektart)
        PROVE  LkmapInv'
      BY <2>6, LkmapUpdateTyp
  <2> QED BY <1>1, <2>1, <2>2, <2>3, <2>4, <2>5, <2>6 DEF LkmapPage!ChangeNetwork
<1>2. CASE LkmapPage!Tomorrow
    BY <1>2, LkmapTomorrow
<1>3. CASE LkmapPage!Open \/ LkmapPage!Leave \/ LkmapPage!Download
    BY <1>3, LkmapSame DEF LkmapPage!Open, LkmapPage!Leave, LkmapPage!Download
<1>4. ASSUME NEW i \in DOMAIN page.marked, LkmapPage!SetDelivered(i)
      PROVE  LkmapInv'
    BY <1>4, LkmapSame DEF LkmapPage!SetDelivered
<1>5. ASSUME NEW c \in calls,
             \/ page.route # Closed /\ (LkmapPage!Loaded(c) \/ LkmapPage!Changed(c))
             \/ LkmapPage!ServeFetch(c) \/ LkmapPage!ServeDownload(c) \/ LkmapPage!ServeMark(c)
      PROVE  LkmapInv'
  <2>1. CASE LkmapPage!Loaded(c) \/ LkmapPage!Changed(c) \/ LkmapPage!ServeFetch(c)
      BY <2>1, LkmapSame DEF LkmapPage!Loaded, LkmapPage!Changed, LkmapPage!ServeFetch
  <2>2. CASE LkmapPage!ServeDownload(c)
      BY <2>2, LkmapDownload
  <2>3. CASE LkmapPage!ServeMark(c)
      BY <2>3, LkmapMark
  <2> QED BY <1>5, <2>1, <2>2, <2>3
<1>6. CASE LkmapPage!Refuse \/ LkmapPage!Forget
    BY <1>6, LkmapSame DEF LkmapPage!Refuse, LkmapPage!Forget
<1> QED BY <1>1, <1>2, <1>3, <1>4, <1>5, <1>6 DEF LkmapPage!Next

-----------------------------------------------------------------------------
(* The delivery, among the other pages. *)
LkmapKept == kind = "lkmap" => LkmapInv

LEMMA LkmapAlways == Spec => []LkmapKept
<1>1. Init => LkmapKept
    BY LkmapInit DEF Init, LkmapKept
<1>2. LkmapKept /\ [Next]_vars => LkmapKept'
  <2>1. CASE Next
      BY <2>1, LkmapStep DEF Next, LkmapKept
  <2>2. CASE UNCHANGED vars
      BY <2>2, LkmapSame DEF vars, LkmapKept
  <2> QED BY <2>1, <2>2
<1> QED BY <1>1, <1>2, PTL DEF Spec

(* The last of the deliveries marked is one of them.                       *)
LEMMA Latest ==
    ASSUME NEW n \in Nat, NEW S \in SUBSET (1 .. n), S # {}
    PROVE  LkmapPage!Max(S) \in S
<1> DEFINE Left == {n - i : i \in S}
<1>1. ASSUME NEW i \in S PROVE i \in Int /\ n - i \in Nat
    OBVIOUS
<1>2. PICK m \in Left : \A l \in Left : m <= l
  <2>1. Left \in SUBSET Nat
      BY <1>1
  <2>2. Left # {}
      OBVIOUS
  <2> HIDE DEF Left
  <2> QED BY <2>1, <2>2, SmallestNumber
<1>3. PICK k \in S : m = n - k
    BY <1>2
<1>4. ASSUME NEW i \in S PROVE k >= i
  <2>1. m <= n - i
      BY <1>2
  <2> QED BY <1>1, <1>3, <2>1
<1> QED BY <1>4 DEF LkmapPage!Max

(* What is not as it was last delivered is dated later than that delivery: *)
(* the triggers date every row whose export a change touches, and none is  *)
(* dated later than now (DatedAfter, NetworkOK).                           *)
THEOREM ChangesGetDates == Spec => []ChangesAreDated
<1>1. LkmapKept => ChangesAreDated
  <2> SUFFICES ASSUME LkmapInv, LkmapPage!Marked(db.deliveries) # {}
               PROVE  LkmapPage!ChangesAreDated
      BY DEF LkmapKept, ChangesAreDated, LkmapPage!ChangesAreDated
  <2>1. PICK A : db.deliveries \in Seq(A)
      BY DEF LkmapInv, LogOK
  <2>2. PICK i : i = LkmapPage!Max(LkmapPage!Marked(db.deliveries))
      OBVIOUS
  <2>3. i \in DOMAIN db.deliveries
    <3>1. LkmapPage!Marked(db.deliveries) \in SUBSET (1 .. Len(db.deliveries)) /\ Len(db.deliveries) \in Nat
        BY <2>1 DEF LkmapPage!Marked
    <3>2. i \in LkmapPage!Marked(db.deliveries)
        BY <2>2, <3>1, Latest
    <3> QED BY <3>2 DEF LkmapPage!Marked
  <2>4. PICK last : last = LkmapPage!LastOf(db.deliveries)
      OBVIOUS
  <2>5. DatedAfter(db, last)
      BY <2>2, <2>3, <2>4 DEF LkmapPage!LastOf, LkmapInv, LogOK
  <2>6. ASSUME NEW s \in LkmapPage!DeliveredSchaechte(db), NEW x \in last.files.schaechte,
               x.id = LkmapPage!LkPunkt(db, s).id, x # LkmapPage!LkPunkt(db, s)
        PROVE  db.schacht[s].changed > last.created
    <3>1. s \in World.lkmap.Schacht /\ LkmapPage!LkPunkt(db, s).id = s
        BY DEF LkmapPage!DeliveredSchaechte, LkmapPage!Ending, LkmapPage!LkPunkt
    <3> QED BY <2>5, <2>6, <3>1 DEF DatedAfter
  <2>7. ASSUME NEW t \in LkmapPage!DeliveredDucts(db), LkmapPage!LkLinie(db, t) \notin last.files.ducts
        PROVE  db.duct[t].changed > last.created
      BY <2>5, <2>7 DEF DatedAfter
  <2> QED BY <2>4, <2>6, <2>7 DEF LkmapPage!ChangesAreDated
<1> QED BY <1>1, LkmapAlways, PTL
=============================================================================
