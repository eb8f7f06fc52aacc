------------------------------ MODULE DuctLine ------------------------------
(***************************************************************************)
(* The course of a duct between its manholes.  Points lie on a straight    *)
(* here: whole steps, of which SameDistance is the first that is not "the  *)
(* same point" (0.5 m) and ConfirmDistance the last that needs no          *)
(* confirmation (10 m).                                                    *)
(***************************************************************************)
EXTENDS Integers, Sequences, SequencesExt

CONSTANTS
    SameDistance, ConfirmDistance,
    NoFit       \* the manholes are at the same place, or there is no point

Distance(x, y) == IF x < y THEN y - x ELSE x - y
IsSame(x, y) == Distance(x, y) < SameDistance
First(points) == points[1]
Final(points) == points[Len(points)]

(* A fault: the line is taken in the direction of the file. *)
NotTurned(points, a, z) == points

(* Turned to run from a to z. *)
Turned(points, a, z) ==
    IF Distance(First(points), z) + Distance(Final(points), a)
         < Distance(First(points), a) + Distance(Final(points), z)
    THEN Reverse(points) ELSE points

(* Ends that repeat their manhole are left out, unless a single point      *)
(* would be left.                                                          *)
Trimmed(points, a, z) ==
    LET tail == IF Len(points) > 1 /\ IsSame(Final(points), z) THEN Front(points) ELSE points
        both == IF IsSame(First(points), a) THEN Tail(tail) ELSE tail
    IN  IF Len(both) = 1 THEN points ELSE both

(* What is made of a line, and whether an end is far from its manhole.     *)
Fit(line, a, z) ==
    IF line = <<>> \/ IsSame(a, z) THEN NoFit
    ELSE LET points == Turned(line, a, z)
         IN  [points |-> Trimmed(points, a, z),
              far |-> Distance(First(points), a) > ConfirmDistance
                        \/ Distance(Final(points), z) > ConfirmDistance]

(* What is stored: a course of two points or more, else none (straight).   *)
Stored(fitted) == IF Len(fitted.points) >= 2 THEN fitted.points ELSE <<>>
=============================================================================
