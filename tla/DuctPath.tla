------------------------------ MODULE DuctPath ------------------------------
(***************************************************************************)
(* The path of a cable: a sequence of ducts, which join at manholes.  The  *)
(* database stores the ducts only; align_ducts turns each one to follow    *)
(* the one before.                                                         *)
(***************************************************************************)
EXTENDS Integers, FiniteSets, Sequences

CONSTANTS
    Duct, Schacht,
    DuctEnds,    \* a duct's manholes <<a, z>>
    NoPath

EndsOf(d) == {DuctEnds[d][1], DuctEnds[d][2]}
A(d) == DuctEnds[d][1]
Z(d) == DuctEnds[d][2]

(* The other end of a duct at manhole s. *)
OtherEnd(d, s) == IF A(d) = s THEN Z(d) ELSE A(d)

(* A fault: the first duct is taken as it is stored. *)
AlwaysForward(ducts) == A(ducts[1])

(* Where the first duct begins: it is turned to meet the second one, its   *)
(* end a first; {} if they don't meet.                                     *)
Near(ducts) ==
    IF Len(ducts) = 1 THEN A(ducts[1])
    ELSE IF A(ducts[1]) \in EndsOf(ducts[2]) THEN Z(ducts[1]) ELSE A(ducts[1])

(* The manholes passed, from the near one on, as far as the ducts connect. *)
Passed(ducts) ==
    LET at[n \in 0 .. Len(ducts)] ==
            IF n = 0 THEN <<Near(ducts)>>
            ELSE LET before == at[n - 1]
                 IN  IF Len(before) = n /\ before[n] \in EndsOf(ducts[n])
                     THEN Append(before, OtherEnd(ducts[n], before[n])) ELSE before
    IN  at[Len(ducts)]

(* DuctsNotConnected, DuctNotAtSchacht. *)
Alignable(ducts) == Len(ducts) = 0 \/ Len(Passed(ducts)) = Len(ducts) + 1

(* path_from_ducts: the near manhole and each duct with its far one, of    *)
(* ducts that connect.                                                     *)
PathFromDucts(ducts) ==
    IF Len(ducts) = 0 THEN NoPath
    ELSE [near |-> Near(ducts),
          segments |-> [i \in 1 .. Len(Passed(ducts)) - 1 |->
                           [duct |-> ducts[i], far |-> Passed(ducts)[i + 1]]]]

DuctSequence(path) ==
    IF path = NoPath THEN <<>> ELSE [i \in DOMAIN path.segments |-> path.segments[i].duct]
FarEnd(path) == path.segments[Len(path.segments)].far

(* CablePath::reverse, for a cable seen from its other end. *)
Reverse(path) ==
    LET n == Len(path.segments)
    IN  [near |-> FarEnd(path),
         segments |-> [i \in 1 .. n |->
             [duct |-> path.segments[n + 1 - i].duct,
              far |-> IF i = n THEN path.near ELSE path.segments[n - i].far]]]
=============================================================================
