------------------------------- MODULE MCPages -------------------------------
(* What TLC's runs of the pages know, page by page. *)
EXTENDS Pages, Integers

CONSTANT LkmapTime  \* the end of time of the page of the Leitungskataster

(* Ducts 1 to 4 between manholes 1 to 4: a ring of three, and one beside.  *)
MCDuctEnds == <<<<1, 2>>, <<3, 2>>, <<3, 1>>, <<3, 4>>>>
CableRow(name, ducts) == [name |-> name, bundle_count |-> 1, fiber_count |-> 12, ducts |-> ducts]

MCCable ==
    [MaxCalls |-> 2, MaxOpens |-> 2, MaxEdits |-> 2, MaxFailures |-> 0,
     Duct |-> 1 .. 4, Schacht |-> 1 .. 4, DuctEnds |-> MCDuctEnds, Cable |-> 1 .. 2,
     Name |-> {"a", "b"}, EmptyName |-> "", Count |-> {1, 12}, NewBundleCount |-> 1,
     NewFiberCount |-> 12, MaxLength |-> 3,
     Cables |-> {<<CableRow("a", <<1, 2>>), NoCable>>, <<CableRow("a", <<1>>), CableRow("b", <<4>>)>>}]

(* Manholes at 0, 6 and 9 of a line; files that run along and against it.  *)
DuctRow(a, z, line) == [a |-> a, z |-> z, rest |-> "r", line |-> line, cables |-> FALSE]

MCDuct ==
    [MaxCalls |-> 2, MaxOpens |-> 2, MaxEdits |-> 2, MaxFailures |-> 0,
     Duct |-> 1 .. 2, Schacht |-> 1 .. 3, Position |-> <<0, 6, 9>>, Rest |-> {"r", "s"}, DefaultRest |-> "r",
     Lines |-> {<<0, 3, 6>>, <<5, 1>>, <<9, 4, 2>>}, SameDistance |-> 1, ConfirmDistance |-> 2,
     StoredDucts |-> {<<DuctRow(1, 2, <<7, 8>>), NoDuct>>}]

(* A panel with ports 1 and 2, where cables 1 and 2 with two fibers each   *)
(* end; the current state is plan 0.                                       *)
Fiber(c, n) == [cable |-> c, bundle |-> 1, fiber |-> n]
Slots == (1 .. 3) \X {"Front", "Back"}
Usage(slots, fibers) ==
    [s \in Slots |-> IF \E i \in DOMAIN slots : slots[i] = s
                     THEN fibers[CHOOSE i \in DOMAIN slots : slots[i] = s] ELSE NoRow]
Plans(baseline, first) == [p \in 0 .. 2 |-> IF p = 0 THEN baseline ELSE IF p = 1 THEN first ELSE Usage(<<>>, <<>>)]
Laid(n) == [c \in 1 .. n |-> [buendel_anz |-> 1, faser_anz |-> 2, path |-> <<c>>]]

MCFibers ==
    [MaxCalls |-> 2, MaxOpens |-> 2, MaxEdits |-> 3, MaxFailures |-> 1,
     Baseline |-> 0, Plan |-> 1 .. 2, Port |-> 1 .. 3, Side |-> {"Front", "Back"},
     Schacht |-> 1 .. 3, SchachtOf |-> <<1, 1, 1>>, Cable |-> 1 .. 2, BundleNo |-> {1}, FiberNo |-> 1 .. 2,
     Duct |-> 1 .. 2, DuctEnds |-> <<<<1, 2>>, <<3, 1>>>>,
     PanelPorts |-> <<1, 2>>, Kabels |-> Laid(2), PortType |-> <<"Splice", "Connector", "Connector">>,
     Usages |-> {Plans(Usage(<<<<2, "Back">>>>, <<Fiber(1, 1)>>),
                       Usage(<<<<1, "Front">>, <<1, "Back">>>>, <<Fiber(1, 2), Fiber(2, 1)>>))}]

MCLoops ==
    [MaxCalls |-> 2, MaxOpens |-> 2, MaxEdits |-> 4, MaxFailures |-> 1,
     Baseline |-> 0, Plan |-> 1 .. 2, Port |-> 1 .. 3, Side |-> {"Front", "Back"},
     Schacht |-> 1 .. 3, SchachtOf |-> <<1, 1, 1>>, Cable |-> 1 .. 3, BundleNo |-> {1}, FiberNo |-> 1 .. 2,
     Duct |-> 1 .. 3, DuctEnds |-> <<<<1, 2>>, <<3, 1>>, <<1, 3>>>>,
     PanelPorts |-> <<1, 2>>, Kabels |-> Laid(3), PortType |-> <<"Loop", "Loop", "Connector">>,
     Usages |-> {Plans(Usage(<<<<1, "Front">>, <<1, "Back">>>>, <<Fiber(1, 1), Fiber(2, 1)>>),
                       Usage(<<<<2, "Front">>, <<2, "Back">>>>, <<Fiber(1, 2), Fiber(2, 2)>>)),
                 Plans(Usage(<<>>, <<>>), Usage(<<>>, <<>>))}]

PortRow(order, rest, used) == [order |-> order, rest |-> rest, used |-> used]

MCPorts ==
    [MaxCalls |-> 1, MaxOpens |-> 1, MaxEdits |-> 4, MaxFailures |-> 1,
     Port |-> 1 .. 5, Rest |-> {"r", "s"}, DefaultRest |-> "r", MaxPorts |-> 4,
     StoredPorts |-> {<<PortRow(1, "r", TRUE), PortRow(2, "s", FALSE), PortRow(3, "r", FALSE), NoPort, NoPort>>}]

(* Manhole z with a panel and two below it, manhole y with one.            *)
PanelRow(z, parent, order) ==
    [cabinet |-> z, parent |-> parent, order |-> order, panel |-> [name |-> "n", device |-> NoDevice]]

MCPanels ==
    [MaxCalls |-> 1, MaxOpens |-> 2, MaxEdits |-> 3, MaxFailures |-> 0,
     Panel |-> 1 .. 6, Cabinet |-> {"z", "y"}, Name |-> {"n", "m"}, EmptyName |-> "", Device |-> {"d"}, WithPorts |-> {2},
     StoredPanels |-> {<<PanelRow("z", Root, 1), PanelRow("z", 1, 1), PanelRow("z", 1, 2),
                         PanelRow("y", Root, 1), NoPanel, NoPanel>>}]

CabinetRow(rest, position, used) == [rest |-> rest, position |-> position, used |-> used]

MCCabinet ==
    [MaxCalls |-> 2, MaxOpens |-> 2, MaxEdits |-> 2, MaxFailures |-> 0,
     Cabinet |-> 1 .. 2, Point |-> 1 .. 2, Foreign |-> {2}, Rest |-> {"r", "s"},
     StoredCabinets |-> {<<CabinetRow("r", 1, FALSE), NoCabinet>>}]

(* Manhole 1 and a delivered duct to manhole 2, which has no position yet; *)
(* three times of a day, two days of a quarter.                            *)
LkSchacht(position, typ) == [position |-> position, typ |-> typ, owner |-> 1, changed |-> 1]

MCLkmap ==
    [MaxCalls |-> 1, MaxOpens |-> 1, MaxEdits |-> 2, MaxFailures |-> 0,
     Owner |-> {1}, Typ |-> {1}, Schacht |-> 1 .. 2, Duct |-> 1 .. 2,
     Name |-> {"n", "m"}, NoName |-> "", Objektart |-> {"rund", "eckig"}, Unbekannt |-> "unbekannt",
     Position |-> {1}, Course |-> {2}, Lagebestimmung |-> {"genau"},
     DayLength |-> 3, QuarterLength |-> 6, MaxTime |-> LkmapTime,
     StoredNetwork |-> {[owner |-> <<[name |-> "n", lkName |-> ""]>>, typ |-> <<"rund">>,
                         schacht |-> <<LkSchacht(1, 1), LkSchacht(NoPosition, NoTyp)>>,
                         duct |-> <<[a |-> 1, z |-> 2, course |-> NoPosition, lagebestimmung |-> "genau",
                                     owner |-> 1, leitungskataster |-> TRUE, changed |-> 1], NoDuct>>]}]

(* A list, and one page for two addresses.                                 *)
MCGuard ==
    [MaxCalls |-> 1, MaxOpens |-> 4, MaxEdits |-> 2, MaxFailures |-> 1,
     Address |-> {"list", "fibers1", "fibers2"}, Start |-> "list",
     PageOf |-> [a \in {"list", "fibers1", "fibers2"} |-> IF a = "list" THEN "list" ELSE "fibers"]]

MCWorld ==
    [cable |-> MCCable, duct |-> MCDuct, fibers |-> MCFibers, loops |-> MCLoops, ports |-> MCPorts,
     panels |-> MCPanels, cabinet |-> MCCabinet, lkmap |-> MCLkmap, guard |-> MCGuard]
=============================================================================
