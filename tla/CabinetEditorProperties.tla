---------------------- MODULE CabinetEditorProperties ----------------------
(* What must hold of the page of a manhole's properties. *)
EXTENDS CabinetEditor

TypeOK ==
    /\ PageTypeOK
    /\ \A k \in Cabinet : db[k] # NoCabinet => db[k].position \in Point \union {NoPosition}
    /\ DOMAIN page = DOMAIN Empty
    /\ page.route \in Cabinet \union {NewCabinet, Closed}
    /\ page.position \in Point \union {NoPosition, Checking, Proposal, Invalid}
    /\ page.text \in Texts \union {NoPosition} /\ page.rest \in Rest \union {Incomplete}

(***************************************************************************)
(* The position that would be stored is the one in the fields, whatever    *)
(* was typed, picked and answered in between.  (Unless stored values were  *)
(* shown while typed ones were being converted: the answer then replaces   *)
(* the position and leaves the fields.)                                    *)
(***************************************************************************)
FieldsShowThePosition ==
    (page.position \in Point \union {NoPosition} /\ ~ page.overtaken) =>
        page.text = ShownText(page.system, page.position)

(***************************************************************************)
(* The page never waits for a conversion that nobody makes: a delay runs,  *)
(* or the last conversion is under way.                                    *)
(***************************************************************************)
CheckingEnds == page.position = Checking => page.delay \/ ConvertsLast(calls) # {}
=============================================================================
