------------------------------- MODULE Pages ---------------------------------
(***************************************************************************)
(* The pages of the frontend, of which the user works on one: each as an   *)
(* instance of its module, with its objects and bounds (World).            *)
(***************************************************************************)
CONSTANTS
    Pages,      \* those the user may open
    World,      \* by page: what there is, and how much of it
    Unanswered, Failed, NotFound, Pending, Closed,
    NewCable, NoCable, NoPath, NewDuct, NoDuct, NoSchacht, NoFile, NoCheck, NoFit,
    NoRow, Removed, NewPort, NoPort, NewPanel1, NewPanel2, Root, NoPanel, NoDevice,
    NewCabinet, NoCabinet, NoPosition, Checking, Proposal, Invalid, Incomplete, NoDialog,
    NoTyp

VARIABLES
    kind,                     \* of the page
    db, page, calls, spent    \* as in Page

vars == <<kind, db, page, calls, spent>>

-----------------------------------------------------------------------------
(* The properties and the path of a cable. *)
CablePage == INSTANCE CableEditorProperties WITH
    MaxCalls <- World.cable.MaxCalls, MaxOpens <- World.cable.MaxOpens,
    MaxEdits <- World.cable.MaxEdits, MaxFailures <- World.cable.MaxFailures,
    Duct <- World.cable.Duct, Schacht <- World.cable.Schacht, DuctEnds <- World.cable.DuctEnds,
    Cable <- World.cable.Cable, New <- NewCable, Name <- World.cable.Name,
    EmptyName <- World.cable.EmptyName, Count <- World.cable.Count,
    NewBundleCount <- World.cable.NewBundleCount, NewFiberCount <- World.cable.NewFiberCount, MaxLength <- World.cable.MaxLength,
    Cables <- World.cable.Cables

(* The properties and the course of a duct. *)
DuctPage == INSTANCE DuctEditorProperties WITH
    MaxCalls <- World.duct.MaxCalls, MaxOpens <- World.duct.MaxOpens,
    MaxEdits <- World.duct.MaxEdits, MaxFailures <- World.duct.MaxFailures,
    Duct <- World.duct.Duct, Schacht <- World.duct.Schacht, Position <- World.duct.Position,
    Rest <- World.duct.Rest, DefaultRest <- World.duct.DefaultRest, Lines <- World.duct.Lines,
    SameDistance <- World.duct.SameDistance, ConfirmDistance <- World.duct.ConfirmDistance,
    StoredDucts <- World.duct.StoredDucts

(* The fibers on the ports of a panel. *)
FiberPage == INSTANCE FiberEditorProperties WITH
    MaxCalls <- World.fibers.MaxCalls, MaxOpens <- World.fibers.MaxOpens,
    MaxEdits <- World.fibers.MaxEdits, MaxFailures <- World.fibers.MaxFailures,
    Baseline <- World.fibers.Baseline, Plan <- World.fibers.Plan, Port <- World.fibers.Port,
    Side <- World.fibers.Side, Schacht <- World.fibers.Schacht,
    SchachtOf <- World.fibers.SchachtOf, Cable <- World.fibers.Cable,
    BundleNo <- World.fibers.BundleNo, FiberNo <- World.fibers.FiberNo,
    Duct <- World.fibers.Duct, DuctEnds <- World.fibers.DuctEnds,
    PanelPorts <- World.fibers.PanelPorts, Kabels <- World.fibers.Kabels,
    PortType <- World.fibers.PortType, Usages <- World.fibers.Usages

(* The loops of a panel. *)
LoopPage == INSTANCE LoopEditorProperties WITH
    MaxCalls <- World.loops.MaxCalls, MaxOpens <- World.loops.MaxOpens,
    MaxEdits <- World.loops.MaxEdits, MaxFailures <- World.loops.MaxFailures,
    Baseline <- World.loops.Baseline, Plan <- World.loops.Plan, Port <- World.loops.Port,
    Side <- World.loops.Side, Schacht <- World.loops.Schacht,
    SchachtOf <- World.loops.SchachtOf, Cable <- World.loops.Cable,
    BundleNo <- World.loops.BundleNo, FiberNo <- World.loops.FiberNo, Duct <- World.loops.Duct,
    DuctEnds <- World.loops.DuctEnds, PanelPorts <- World.loops.PanelPorts,
    Kabels <- World.loops.Kabels, PortType <- World.loops.PortType, Usages <- World.loops.Usages

(* The ports of a panel. *)
PortPage == INSTANCE PortEditorProperties WITH
    MaxCalls <- World.ports.MaxCalls, MaxOpens <- World.ports.MaxOpens,
    MaxEdits <- World.ports.MaxEdits, MaxFailures <- World.ports.MaxFailures,
    Port <- World.ports.Port, Rest <- World.ports.Rest, DefaultRest <- World.ports.DefaultRest,
    MaxPorts <- World.ports.MaxPorts, StoredPorts <- World.ports.StoredPorts

(* The panels of a manhole. *)
PanelPage == INSTANCE PanelTreeProperties WITH
    MaxCalls <- World.panels.MaxCalls, MaxOpens <- World.panels.MaxOpens,
    MaxEdits <- World.panels.MaxEdits, MaxFailures <- World.panels.MaxFailures,
    Panel <- World.panels.Panel, New <- {NewPanel1, NewPanel2}, Cabinet <- World.panels.Cabinet,
    Name <- World.panels.Name, EmptyName <- World.panels.EmptyName,
    Device <- World.panels.Device, StoredPanels <- World.panels.StoredPanels,
    WithPorts <- World.panels.WithPorts

(* The properties of a manhole. *)
CabinetPage == INSTANCE CabinetEditorProperties WITH
    MaxCalls <- World.cabinet.MaxCalls, MaxOpens <- World.cabinet.MaxOpens,
    MaxEdits <- World.cabinet.MaxEdits, MaxFailures <- World.cabinet.MaxFailures,
    Cabinet <- World.cabinet.Cabinet, Point <- World.cabinet.Point,
    Foreign <- World.cabinet.Foreign, Rest <- World.cabinet.Rest,
    StoredCabinets <- World.cabinet.StoredCabinets

(* The delivery to the Leitungskataster. *)
LkmapPage == INSTANCE LkmapProperties WITH
    MaxCalls <- World.lkmap.MaxCalls, MaxOpens <- World.lkmap.MaxOpens,
    MaxEdits <- World.lkmap.MaxEdits, MaxFailures <- World.lkmap.MaxFailures,
    Owner <- World.lkmap.Owner, Typ <- World.lkmap.Typ, Schacht <- World.lkmap.Schacht,
    Duct <- World.lkmap.Duct, Name <- World.lkmap.Name, NoName <- World.lkmap.NoName,
    Objektart <- World.lkmap.Objektart, Unbekannt <- World.lkmap.Unbekannt,
    Position <- World.lkmap.Position, Course <- World.lkmap.Course,
    Lagebestimmung <- World.lkmap.Lagebestimmung, DayLength <- World.lkmap.DayLength,
    QuarterLength <- World.lkmap.QuarterLength, StoredNetwork <- World.lkmap.StoredNetwork,
    MaxTime <- World.lkmap.MaxTime

(* The question before a page is left. *)
Guarded == INSTANCE UnsavedGuardProperties WITH
    MaxCalls <- World.guard.MaxCalls, MaxOpens <- World.guard.MaxOpens,
    MaxEdits <- World.guard.MaxEdits, MaxFailures <- World.guard.MaxFailures,
    Address <- World.guard.Address, Start <- World.guard.Start, PageOf <- World.guard.PageOf

ASSUME CableKnown == CablePage!Known
ASSUME DuctKnown == DuctPage!Known
ASSUME FiberKnown == FiberPage!Known
ASSUME LoopsKnown == LoopPage!LoopsKnown
ASSUME PortsKnown == PortPage!Known
ASSUME CabinetKnown == CabinetPage!Known
ASSUME LkmapKnown == LkmapPage!Known
ASSUME GuardKnown == Guarded!Known

-----------------------------------------------------------------------------
Init ==
    /\ kind \in Pages
    /\ \/ kind = "cable" /\ CablePage!Init
       \/ kind = "duct" /\ DuctPage!Init
       \/ kind = "fibers" /\ FiberPage!Init
       \/ kind = "loops" /\ LoopPage!Init
       \/ kind = "ports" /\ PortPage!Init
       \/ kind = "panels" /\ PanelPage!Init
       \/ kind = "cabinet" /\ CabinetPage!Init
       \/ kind = "lkmap" /\ LkmapPage!Init
       \/ kind = "guard" /\ Guarded!Init

Next ==
    /\ UNCHANGED kind
    /\ \/ kind = "cable" /\ CablePage!Next
       \/ kind = "duct" /\ DuctPage!Next
       \/ kind = "fibers" /\ FiberPage!Next
       \/ kind = "loops" /\ LoopPage!Next
       \/ kind = "ports" /\ PortPage!Next
       \/ kind = "panels" /\ PanelPage!Next
       \/ kind = "cabinet" /\ CabinetPage!Next
       \/ kind = "lkmap" /\ LkmapPage!Next
       \/ kind = "guard" /\ Guarded!Next

Spec == Init /\ [][Next]_vars

-----------------------------------------------------------------------------
(* What must hold of each page, as its module's properties state it. *)

(* The types of the state of each page. *)
TypeOK ==
    /\ kind = "cable" => CablePage!TypeOK
    /\ kind = "duct" => DuctPage!TypeOK
    /\ kind = "fibers" => FiberPage!TypeOK
    /\ kind = "loops" => LoopPage!TypeOK
    /\ kind = "ports" => PortPage!TypeOK
    /\ kind = "panels" => PanelPage!TypeOK
    /\ kind = "cabinet" => CabinetPage!TypeOK
    /\ kind = "lkmap" => LkmapPage!TypeOK
    /\ kind = "guard" => Guarded!TypeOK

(* Only the fields of a cable the user changed are sent, and a count that  *)
(* goes with the other only as it was loaded.                              *)
OnlyTypedIsSent == kind = "cable" => CablePage!OnlyTypedIsSent
(* The backend rebuilds the path the user built from its ducts. *)
WhatIsBuiltAligns == kind = "cable" => CablePage!WhatIsBuiltAligns
(* The course of a duct that is stored was checked, shown and confirmed. *)
CourseIsThePreview == kind = "duct" => DuctPage!CourseIsThePreview
(* A duct's course does not depend on where its file starts. *)
PreviewShowsTheFile == kind = "duct" => DuctPage!PreviewShowsTheFile
(* No fiber is put on two sides of ports. *)
NoFiberTwice == kind = "fibers" => FiberPage!NoFiberTwice
(* The fibers stored are those shown. *)
FibersStoredAsShown == kind = "fibers" => FiberPage!StoredAsShown
(* A loop has the same number on both sides. *)
LoopsStayWhole == kind = "loops" => LoopPage!LoopsStayWhole
(* The loops stored are those shown. *)
LoopsStoredAsShown == kind = "loops" => LoopPage!StoredAsShown
(* The ports stored are those shown, in their order. *)
PortsStoredAsShown == kind = "ports" => PortPage!StoredAsShown
(* No panel is lost or doubled by rearranging the forest. *)
TreeIsWhole == kind = "panels" => PanelPage!TreeIsWhole
(* A new panel is sent before those below it. *)
ParentsFirst == kind = "panels" => PanelPage!ParentsFirst
(* The position of a manhole that is stored is the one in the fields. *)
FieldsShowThePosition == kind = "cabinet" => CabinetPage!FieldsShowThePosition
(* A page that waits for a conversion gets one. *)
CheckingEnds == kind = "cabinet" => CabinetPage!CheckingEnds
(* A change since the last delivery is dated after it. *)
ChangesAreDated == kind = "lkmap" => LkmapPage!ChangesAreDated
(* The address is the one of the page shown. *)
ShownIsTheAddress == kind = "guard" => Guarded!ShownIsTheAddress
(* Unsaved changes go only by being stored or discarded. *)
LossIsChosen == [][kind = "guard" => Guarded!LossIsChosen]_vars

(* "Spleiss muss beidseitig belegt oder komplett leer sein." (attach_fiber.rs) *)
SpliceWhole == kind = "fibers" => FiberPage!SpliceWhole
(* Discarded changes "gehen verloren" (unsaved.rs). *)
DiscardedIsLost == kind = "fibers" => FiberPage!DiscardedIsLost
(* "Ob sich seit der letzten Lieferung etwas geaendert hat, sagt der Vergleich" (leitungskataster.md) *)
ComparedWithTheLast == kind = "lkmap" => LkmapPage!ComparedWithTheLast
=============================================================================
