------------------------ MODULE DuctEditorProperties ------------------------
(* What must hold of the page of a duct's properties. *)
EXTENDS DuctEditor

TypeOK ==
    /\ PageTypeOK
    /\ \A d \in Duct : db[d] # NoDuct => db[d].a \in Schacht /\ db[d].z \in Schacht /\ db[d].rest \in Rest
    /\ DOMAIN page = DOMAIN Empty
    /\ page.route \in Duct \union {NewDuct, Closed}
    /\ page.a \in Schacht \union {NoSchacht} /\ page.z \in Schacht \union {NoSchacht}
    /\ page.file \in Lines \union {NoFile}

(* A course that is to be stored, of a duct or with a new one. *)
Courses ==
    {c.what : c \in {k \in calls : k.kind = "line"}}
        \union {c.what.course : c \in {k \in calls : k.kind = "create"}}

(***************************************************************************)
(* The course that is stored is the one of the preview the user saw, and   *)
(* one far from its manholes was confirmed for this very line: also if the *)
(* user went on to another line or other manholes before the check of the  *)
(* first one was answered.                                                 *)
(***************************************************************************)
CourseIsThePreview ==
    \A course \in Courses : course.line # NoFile =>
        /\ course.preview = FitAt(course.line, course.ends.a, course.ends.z)
        /\ course.preview.far => course.confirmed

(* Neither direction is nearer to the manholes. *)
Undecided(line, a, z) ==
    Distance(First(line), z) + Distance(Final(line), a)
        = Distance(First(line), a) + Distance(Final(line), z)

(***************************************************************************)
(* A file gives the same course whichever end it starts at, and each of    *)
(* its points is on the course or repeats a manhole.                       *)
(***************************************************************************)
PreviewShowsTheFile ==
    \A c \in calls : (c.kind = "check" /\ c.answer \notin {Unanswered, Failed}) =>
        LET line == c.what.line
            a == Position[c.what.a]
            z == Position[c.what.z]
            course == c.answer.points
        IN  /\ Undecided(line, a, z) \/ course = Fit(Reverse(line), a, z).points
            /\ \A i \in DOMAIN line :
                  \/ \E j \in DOMAIN course : course[j] = line[i]
                  \/ IsSame(line[i], a) \/ IsSame(line[i], z)
=============================================================================
