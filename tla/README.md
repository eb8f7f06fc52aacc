# Cable Editor: specification and proofs

The Cable Editor documents an optical fiber network: manholes (*Schächte*), ducts (*Trassen*)
between them, cables in the ducts, panels and ports in the manholes, and which fiber of which
cable is attached to which side of which port. Changes are planned (a *plan* is a set of changed
port usages on top of the current state), implemented, and shown as circuits in Netbox. The program
is a backend (Rust, PostgreSQL, GraphQL) that runs in several replicas, and a frontend in the
browser (Rust, WebAssembly).

This directory holds TLA+ modules that model it, TLC configurations that check them on small
instances, and theorems TLAPS has proved for every value of the constants. The modules are
written from the code; the docs are used only to say what the code is meant to do.

    tlc -workers 2 -config plan_usage.cfg MCPlanUsage     # checks an instance
    tlc -workers 2 -config pages.cfg MCPages              # the pages of the frontend
    tlapm PlanUsageProofs.tla                             # checks the proofs

## The system

### Components, their state and their operations

| Component | State | Operations | Calls / is called by |
|---|---|---|---|
| Requests (`cable-editor-binary/src/main.rs`, `db/mod.rs`, `graphql/loader.rs`) | a pool of 15 connections; per request one connection, shared behind a lock | one GraphQL request is one transaction: `BEGIN`, the resolvers, `COMMIT` (then the worker is woken) or `ROLLBACK` | runs every mutation below |
| Plans and port usages (`mutation/panel.rs`, `plan.rs`, `implement.rs`) | tables `plan`, `port_usage` | create and rename a plan, set port usages, implement, remove broken usages, choose the plan active in Netbox | checked by `IssueCheck`; triggers record changes |
| Check of port usages (`port_usage_issue.rs`, migration `port-usage-issue`) | none: the views `kabel_ende`, `port_usage_issue`, the function `effective_port_usage` | problems before and after a change; refuse new ones | called by `setPortUsage`, `updateCable`, `implementPlan` |
| Cables (`mutation/cable.rs`, `entity/cable.rs`, `entity/path.rs`) | `kabel`, `kabel_trasse` | create, update (name, structure, path), delete; align the ducts of a path | port usages refer to them |
| Ducts, manholes, their types, owners (`mutation/duct.rs`, `schacht.rs`, `schacht_typ.rs`, `owner.rs`) | `trasse`, `schacht`, `schacht_typ`, `eigentuemer` | create, update, delete, the course of a duct, the default owner | refer to each other |
| Panels and ports (`mutation/panel.rs`) | `panel` (a tree per manhole), `panel_port` | create, update and delete panels and ports | port usages refer to ports |
| Automatic Netbox sync (`netbox/auto_sync.rs`, migration `netbox-auto-sync`) | `netbox_sync_anstoss`, `netbox_sync`, `netbox_sync_issue`, an advisory lock; a worker per replica | triggers record changes; a run syncs, stores its result, deletes the rows it read; failures are stored and retried | woken by requests; runs the sync |
| Steps of a sync (`mutation/sync.rs`, `netbox/`) | the circuits in Netbox | compute the planned circuits and the issues; delete, create, update circuits | called by a run only |
| Work order and traces (`planned.rs`, `entity/panel.rs`) | none | follow a fiber through ports and cables; compare a plan with the current state | the sync uses the trace |
| Delivery to the Leitungskataster (`lkmap/`, `mutation/lkmap.rs`) | `lk_lieferung`, `geaendert_am` of manholes and ducts (triggers) | export, download (logs a delivery), mark as delivered, what changed since | reads manholes and ducts |
| Login and roles (`authorization.rs`) | a cache of user infos (30 s) | a role guard on each mutation | every request |
| Frontend: editors (`pages/*/`, `components/panel`, `components/cabinet`, `table.rs`) | per page: what is loaded, what was entered, dialogs, checks under way | load, edit, check, save, delete, show another object | requests over HTTP to the mutations above |
| Frontend: guard and loading (`unsaved.rs`, `load.rs`, `recovery.rs`) | unsaved changes, the history of the browser | ask before a page is left, load, retry | wraps the router and every page |

### What is hard

- **Requests interleave** under READ COMMITTED. Checks read before they write; the database
  constraints stop only some of the races.
- **A run of the sync reads in several queries** while requests commit, writes to a system without
  transactions, and stores its result afterwards. It may fail or crash anywhere, and another
  replica may take over.
- **Whether a change matters to Netbox** depends on tables that change themselves (which plan is
  active), at the time a trigger runs.
- **A check is scoped** to the rows a change names, while a change can affect others.
- **Time**: an interval since the last run, waits after failures, both compared with stored times.
- **The frontend** gets answers after the page has changed, and cannot hold back the browser.

What must be right, per component: a usage fits its cable, and no fiber end is used twice in the
current state (port usages); implementing yields exactly what was planned (plans); one plan is
active in Netbox (plans); a change that affects Netbox is recorded, synced, and `SYNCHRON` is true
(sync); issues never reach Netbox (sync); Netbox ends up with each planned circuit exactly once
(steps of a sync); a response means a commit (requests); references and the one default owner
survive concurrent requests (master data); what changed since a delivery is told (Leitungskataster);
no pending change is lost without a question (frontend). `PROJECT.json` lists the hazards with the
line of code where each bites and the properties that cover it.

## The modules

| Module | What |
|---|---|
| `PortUsage` | the tables as values; the views and functions of the database over them, `IssueCheck` |
| `PlanUsage` | every mutation on plans, port usages and cables; extends `PortUsage` |
| `PlanUsageProperties` | what must hold of them |
| `PlanUsageProofs` | theorems about them |
| `MCPlanUsage` | instances for TLC |
| `NetboxAutoSync` | the automatic sync: requests, triggers, workers, failures, time |
| `NetboxAutoSyncProperties`, `NetboxAutoSyncProofs`, `MCNetboxAutoSync` | properties, theorems, instances |
| `FiberTrace` | the walk of a signal along fibers and through ports; extends `PortUsage` |
| `CircuitPlan` | the first half of a sync: the planned circuits and the issues; extends `FiberTrace` |
| `NetboxPush` | the second half: the requests that change Netbox, one by one |
| `CircuitSync` | what a sync promises; `NetboxPush` implements it |
| `CircuitPlanProperties`, `NetboxPushProperties`, `MCCircuitPlan`, `MCNetboxPush` | properties, instances |
| `CircuitPlanProofs`, `NetboxPushProofs` | theorems; the second shows that the requests implement `CircuitSync` |
| `Page` | what every page of the frontend has: a component, its requests, the backend |
| `DuctPath`, `CableEditor` | the alignment of ducts; the page of a cable |
| `DuctLine`, `DuctEditor` | how a course is fitted to its manholes; the page of a duct |
| `PanelFibers`, `FiberEditor`, `LoopEditor` | what the two pages that attach fibers share (over `PortUsage`); the pages |
| `PortEditor`, `PanelTree`, `CabinetEditor` | the pages of a panel's ports, a manhole's panels, a manhole's properties |
| `Lkmap` | the delivery to the Leitungskataster: what is exported, the log, the triggers, the page |
| `UnsavedGuard` | the question before a page is left, with router and history |
| `...Properties` of each page | properties |
| `Pages`, `MCPages` | one module with an instance of each page, of which the user works on one; its values for TLC |
| `ObjectPageProofs` | theorems about the pages of a cable, a duct and a manhole |
| `PanelGuardProofs` | theorems about the pages that attach and loop fibers, and the question before a page is left |
| `PortLkmapProofs` | theorems about the page of a panel's ports, and the delivery to the Leitungskataster |

### PortUsage and PlanUsage

`port_usage[p][s]` is the row of plan `p` (0 is the baseline, the current state) for slot `s`, a
port and its side: `NoRow`, `Removed` (a row without a cable: the plan takes the fiber away) or a
fiber. `kabel[c]` is the structure and path of a cable. Manholes, ducts' ends and ports' manholes
are constants: the code lets the ends of a duct change only while no cable uses it, and no mutation
moves a panel to another manhole.

Each mutation is one action, because this module has requests one after the other (a request is a
transaction). A refused mutation is rolled back, so a refusal is a guard. `implementPlan` changes
the rows, removes the plan and hands the Netbox activity to the baseline in one action, as in the
code. `removeBrokenPortUsages` handles its keys in order: which are removed (`done`) is determined
position by position. The code skips a key that is not broken, so only requests of broken keys are
enumerated. `netbox_sync_anstoss` is here only whether any row is recorded, `SyncRun` stands for
a successful run. `unsynced` and `imported` are history variables for the properties.

`Init` is the database at the migration that introduces the checks: any plans, with rows no check
has seen, in the baseline and in plans (`ImportedUsage`), and any of them active.

The numbers of fibers are integers without a width; names, and the update of a name, are left out.

### NetboxAutoSync

What Netbox is to show consists of the active plan, content all plans share, and the plan's own
rows; a version number stands for each. A request either changes content (`Change`, then
`CommitChange` or `RollbackChange`: the triggers run at `Change`, so between both the active plan
may change), or is `SetNetboxActivePlan` or `SyncNetbox`. Each request has its own row in
`anstoss`, as in the code (one row per transaction); the migration inserts one too.

A worker's run is split where another process can come in between, that is at every query that
reads something others write, and around the steps in Netbox:

| Action | Code |
|---|---|
| `StartRun` | takes the advisory lock, reads `netbox_sync`, checks the wait |
| `ReadChanges` | reads the rows recording changes; ends the run if nothing is due |
| `ReadPlan`, `ReadShared`, `ReadOwn` | which plan is active; cables, ports, geometry; the usages |
| `StartPush`, `FinishPush` | the steps in Netbox: `Partial` in between; only without issues |
| `StoreResult` | issues, result and the deletion of the rows read: the commit |
| `FailRun` | any error: the transaction is rolled back |
| `DeleteIssues`, `StoreFailure` | the transaction that stores a failure, without the lock |
| `Crash` | the process ends, anywhere |

`StoreResult` waits for a `store_failure` that holds the row locks of deleted issues; a
`store_failure` that waits in turn finds its rows deleted and does not see the new ones (READ
COMMITTED). `Faulty` says for which content the sync finds issues. Waits and the interval are
booleans that end at any time, so the order of both is open, as it is in the code for all
settings. `late_old` and `late_new` remember what no row records: an edit in Netbox, and a change
of a plan that became active meanwhile.

### CircuitPlan, NetboxPush and CircuitSync

`sync_plan_to_netbox` is split where it changes from computing to writing. `CircuitPlan` takes the
connectors one by one in any order (`HashMap`), traces each from its back (`FiberTrace`, the
recursive query as a recursive function over the number of hops), pairs the rear ports the ends
are assigned to, collects issues and makes the circuits. A circuit's id is made of its two ports'
ids, here the pair of them.

`NetboxPush` has one action per request: list the circuits, delete, create or update a circuit,
create a termination, delete the cable at a rear port (its result is ignored, as in the code),
create the cable. Netbox is external; it is modelled as far as its answers decide what the code
does next: it refuses a second circuit of a cid and a second cable at a rear port, and deleting a
circuit takes its terminations and leaves their cables loose. A request may be refused (`Fail`)
or stay without an answer (`Interrupt`), which ends the run, and what was written stays; a person
may edit Netbox (`MaxEdits`), another plan may
become what is wanted (`MaxReplans`).

`CircuitSync` is the abstract specification: own circuits appear only if planned (or as a part of
one planned), disappear only if not, foreign ones never change, and a run that ends well leaves
exactly those planned. The refinement maps the objects of Netbox to circuits with the rear ports
that are really connected; `KeepsPromise` is the abstract specification as a property.

### The pages

`Page` holds what the components of the frontend have in common: `page` is the state of the
component, `calls` the requests under way or answered, `db` what the backend stores. The user
opens objects; as in the code the *same* component shows the next object, and answers for the one
before still come (the models let them arrive, in any order). The backend serves each request in
one step (a transaction); it may fail (`Refuse`), and then the answer is an error. A page that is
left drops its answers. `spent` counts what the bounds allow: opens, edits, failures.

In each module an action is a message of the component (`Msg::...`, named in comments and in
`PROJECT.json`) or a request served. `db` is the table behind the page as far as the page changes
it, with the checks of the mutation (e.g. `Accepted`: the ducts of a cable must align). Three
facts of history are kept for properties: the fields really typed (`CableEditor`), the preview a
course was confirmed with (`DuctEditor`), the changes discarded (`FiberEditor`).

- **`CableEditor`**: a path grows at both ends by dialogs that load ducts; only changed fields
  are sent, the counts of bundles and of fibers as one field. The backend writes any ducts; a
  request with ducts that do not join is refused only because the answer selects the path
  (`Accepted`). `DuctPath` is `AlignedDuctIterator` and `PathFromDucts` of the page.
- **`DuctEditor`**: each check of a course has a number, only the last answer counts
  (`check_request`). `DuctLine` turns a line to its manholes, cuts its ends and measures how far
  they were. Points lie on a straight, in steps of 0.5 m at least: what decides is which of two
  ends is nearer, and both limits.
- **`FiberEditor`, `LoopEditor`**: the pages keep what slots are to hold, and send what differs
  from what was loaded. The backend is `setPortUsage` without its data check (that is
  `PlanUsage`'s); what the panel holds in a plan is `EffectivePortUsage` of `PortUsage`.
- **`PortEditor`**: a list; all ports listed are sent in its order, and the ids of those removed.
- **`PanelTree`**: a forest; the panels that are new or differ are sent. New ones get ids from the
  order in which they are sent. A panel with ports (`WithPorts`) or panels below is not deleted.
- **`CabinetEditor`**: the position typed (with a delay before it is converted), clicked or
  dragged, in two systems of coordinates; `conversion` numbers the requests.
- **`Lkmap`**: `Files` selects the manholes and ducts that go into the files and what of them, a
  checksum is equality of those. Triggers date every row a change affects (`Dated`, `Verschoben`,
  `Touched`). Time goes on in days and quarters of fixed length.
- **`Pages`**: `World` is a record of the objects and bounds of each page, so a theorem about
  `Pages` is one about each page with any objects.
- **`UnsavedGuard`**: the history is a sequence of addresses and a place in it; the router shows a
  page for each; the guard sees clicks and steps through the history first, as its listeners are
  in the capture phase. A save that was answered shows what was stored or goes to another page, a
  deletion goes to the list (`navigate`), both without a question. Requests carry how many edits
  there were when they were sent, so that `LossIsChosen` can tell what a save stored from what its
  answer overwrites.

## The runs

| Run | Instance | What it shows |
|---|---|---|
| `plan_usage` | 2 plans, 3 ports with one side (2 in one manhole), 3 manholes, 2 ducts, 1 cable, 2 fibers; requests of up to 2 slots; up to 2 rows in plans, but 3 imported ones | 7 properties hold in 31 734 states |
| `plan_clean` | the same, nothing imported | **violation** of `EditAddsNoIssue` |
| `auto_sync` | 1 plan, 2 requests, 2 replicas, 2 faults, no symmetry | 6 properties, 2 of them liveness, hold in 533 309 states |
| `auto_sync_failure` | 2 requests, 2 replicas, 1 fault | **violation** of `FailureHasNoIssues` |
| `auto_sync_retry` | 1 request, 1 replica, 1 fault | **violation** of `FailedRunIsRetried` |
| `auto_sync_activation` | 2 requests, 1 replica, no fault | **violation** of `EveryChangeRecorded` |
| `circuit_plan` | 4 connectors, a splice, 3 fibers, 3 rear ports; every way to attach the fibers with each at two sides (fiber 1 also at three), 3 assignments of rear ports, every order | 5 invariants hold in 73 253 states |
| `netbox_push` | 2 own cids and a foreign one, 4 rear ports, 3 plans; 1 edit by hand, 2 failures, 1 change of plan | the refinement of `CircuitSync`, 2 invariants and a liveness property hold in 350 398 states |
| `pages` | 9 pages, each with the bounds in `MCPages` | 17 properties hold in 948 621 states |
| `splice_whole` | the page that attaches fibers | **violation** of `SpliceWhole` |
| `discarded` | the same | **violation** of `DiscardedIsLost` |
| `compared` | the page of the Leitungskataster, one more unit of time | **violation** of `ComparedWithTheLast` |

The bounds. *plan_usage*: a fiber can be at two ports of one manhole, at both of its ends, or out
of range; the cable can be rerouted so that an end moves, lose a fiber, be deleted and come back.
Two plans let one be implemented under the other. `MaxRows` limits the rows in plans, `MaxChanges`
the slots of a request; two of each are what a fiber needs to move from one port to another.
What is imported: a plan with one fiber at two ports of a manhole, and with another port in a
manhole the cable only passes, which the baseline uses too; so there are
both kinds of problems the triggers before the checks did not refuse (they refused a fiber out of
range, and one at more than two sides of a plan).
One side per port suffices because the code treats sides as different slots; the scope of the check,
which takes both sides of a port, is proved for any sides. *auto_sync*: two requests let a
change be opened and its plan be activated, or something be recorded during a run; two replicas
let one run while the other stores a failure; two faults let a run fail again, or fail after a
crash. Requests are used once, so they bound the version numbers. The system may stop in
`plan_usage` and `plan_clean` (all rows used up and nothing to sync), so deadlock is not checked
there; in the runs of the automatic sync it is.

*circuit_plan*: four connectors are what two circuits, or one rear port paired with two others
need; a connector used at its front lets a line pass through it, and two such connectors, in plans
without the splice, are where the outcome depends on the order; a fiber at three sides is data
imported before the checks. It stops when the circuits are planned. *netbox_push*: the plans swap
the far ends of two circuits, so each one's new rear port is blocked by the other's old cable, and
drop one circuit while another gets a new text; two failures interrupt a run and its repair. An
edit by hand may take away or add any object. `CircuitId` has an id more than cids: a circuit can
be created before the id of a deleted one is free.

*pages*: `MaxOpens` of 2 shows a second object while an answer for the first is under way;
`MaxCalls` of 2 lets two answers come in either order (1 where a page waits for its only request);
`MaxEdits` is what the page's longest interesting entry needs: 4 for the loops (choose two cables,
loop, unloop) and the ports (add, move, change, remove), 3 for fibers (take off, attach, reset) and
panels, 2 elsewhere; `MaxFailures` is 1 where the page keeps what was entered after a failed save.
`LkmapTime` is the last time: 6 units of which 3 are a day and 6 a quarter, so all four states of a
delivery come up; `compared` needs 7 for two more transactions. The pages stop when their bounds
are spent, so deadlock is not checked. Nothing is symmetric there.

Symmetry: plans are interchangeable in `MCPlanUsage`, requests and replicas in
`MCNetboxAutoSync`; `auto_sync`, which has liveness properties, uses no symmetry.

### Properties

- `NoNewCableIssue`, `BaselineFibersOnce`: the data checks, spread over three mutations with
  different scopes, give no port side of any plan a problem with its cable that it did not have
  when they were introduced, and keep every fiber end of the current state single unless it was
  imported otherwise. The *fiber* with the problem may change: the key of a problem
  (`IssueKey`) has none, so a planner can put another fiber that does not fit where one was.
- `OneActivePlan`, `ImplementMakesPlanCurrent`, `ChangeRecorded`, `RepairKeepsOneEnd`.
- `SynchronMeansShown`: what the interface says is true, in spite of torn reads, failed runs and
  crashes.
- `IssuesKeepNetbox`; `IssuesMatchResult`: no issues stored after a success, some after a run with
  issues, and after a failure only what another replica may have stored (`FailureHasNoIssues`, what
  the docs say of it, is refuted).
- `ChangesGetSynced`: recorded changes do not stay, and do not need the interval.
  `SettlesInTheEnd`: with the interval, everything else is repaired too.
- `CircuitsAreLinks`, `NoLinkLost`: the circuits are those of the graph of fibers and ports,
  independent of the order, or an issue says why not. They are claimed of plans in which a line
  through a connector ends at the backs of two others and passes no other such connector
  (`PassesWhole`): the last part was met while proving it (see below).
  `CircuitsDisjoint`: what the comparison with Netbox rests on, for any data; `SignalEndsAgree`:
  the trace against reachability in the graph.
- `KeepsPromise` (refinement), `NeverInItsOwnWay`: no request of a run blocks a later one;
  `Converges`: after the last failure and edit, runs end with Netbox as planned.
- `OnlyTypedIsSent`, `WhatIsBuiltAligns` (cable); `CourseIsThePreview`,
  `PreviewShowsTheFile` (duct); `NoFiberTwice`, `FibersStoredAsShown`, `LoopsStayWhole`,
  `LoopsStoredAsShown`, `PortsStoredAsShown` (panels): what is stored is what was shown, whatever
  was entered, answered late and refused before; `TreeIsWhole`, `ParentsFirst`;
  `FieldsShowThePosition`, `CheckingEnds` (manhole).
  `OnlyTypedIsSent` has an exception: of the counts of bundles and of fibers, one that was not typed
  is sent with the other as it was loaded, and overwrites what somebody else stored meanwhile.
  `LoopsStayWhole` is claimed of panels whose loops are all of one pair of cables.
  `NoFiberTwice` has an exception, met while proving it: two sides that both hold what was loaded.
  A port that is reset in a plan gets its fiber back from the current state, wherever the plan put
  it meanwhile (finding 1), and the page then loads the fiber at both.
- `ChangesAreDated`: whatever differs from the last delivery is dated after it, so the page tells
  since when a delivery is due.
- `ShownIsTheAddress`, `LossIsChosen`: the question before a page is left, against the history. The
  second has an exception: what is entered while a save is under way is overwritten by its answer,
  and the page counts as saved.

Each property has a mutant: a definition changed as a plausible fault would change it, under
which the property is violated (`PROJECT.json`; the changed definitions stand before the right
ones, marked as faults).

### What was found

1. **A reset can put a fiber at two ports of a plan** (`plan_clean`). `setPortUsage` checks the
   ports it changes. A plan moves a fiber from port 1 to port 2; then port 1 is reset, and the
   baseline's fiber is back at port 1 although port 2 has it. The problem is one of port 2, which
   was not checked. Nobody is told until `implementPlan` refuses the plan.
2. **After a failure there may be issues** (`auto_sync_failure`): a failure is stored without the
   lock, and the other replica's run may store its issues after they were deleted and before the
   result `fehler` is written.
3. **A failed run that only the interval had started is not tried again** after its wait
   (`auto_sync_retry`), because storing the failure counts as the last run.
4. **A change of a plan that is activated meanwhile is not recorded** (`auto_sync_activation`):
   the trigger sees the plan as inactive, and the change commits after the run. `SynchronMeansShown`
   names this exception; the interval repairs it (`SettlesInTheEnd`).
5. **Resetting a splice leaves its back** (`splice_whole`): the page checks that a splice is used
   on both sides or on none, but sends the reset of a port for its front only.
6. **Discarded changes come back** (`discarded`): the page that attaches fibers stays when another
   plan is chosen in its breadcrumb and loads nothing; the changes the user has just discarded are
   then stored, to the other plan.
7. **The delivery compared may not be the last one** (`compared`): deliveries are ordered by
   download, and a download of files delivered never but downloaded before reuses the old row.

While modelling, these were met that no doc of the program speaks about, so no run claims
anything: a late answer for another object fills a page (cable, duct, manhole); what is entered while
a save is under way is overwritten; both counts of a cable are sent if one was typed; two stored ports
or panels cannot swap places because the unique index is checked row by row; more loops than ports
are dropped; a path over two parallel ducts may be refused (`align_ducts` takes the first match);
the sync deletes a cable laid by hand at a rear port it needs; and a line of fibers that passes two
connectors (used at the front as well, which no check forbids) may be planned as two circuits, each
of one end and one connector in the middle, without an issue, or as one, or be an issue, as the
hash map orders the connectors (`PassesWhole` leaves such plans out, and `PassedReported` proves
that one connector in the middle is always an issue).

### Fairness

Weak fairness of each worker's `Step`: `run` loops forever and wakes after a committed request or
a minute; a step in Netbox or the database ends with a result or an error (HTTP and database
connections end). Weak fairness of `RetryElapses`: time passes. No fairness for requests, failures,
crashes, edits; an open transaction may stay open. The interval is fair only in `SettlesInTheEnd`,
as its premise. The number of faults is bounded, so after some time no run fails: without that,
nothing could be promised.

`NetboxPush` (`FairSpec`): weak fairness of starting a run and of its next request. The worker
repeats runs for ever (every minute it looks, the interval is over again and again), and each
request ends with an answer or an error. Failures, edits and changes of the plan have no fairness
and are bounded, so `Converges` speaks of the time after the last one. The pages have safety
properties only.

## The proofs

All theorems hold for any sets of plans, ports, cables, requests and replicas, under the named
assumptions in the modules: special values differ from others (`NullAssumption`,
`NamesAssumption`, `PlansAssumption`), constants have their types (`PlacesAssumption`,
`NumbersAssumption`, `PortAssumption`, `BoundsAssumption`, `Known` of each
page), a plan has finitely many ports, and imported rows name existing
cables, which a foreign key guarantees (`ImportAssumption`). `NetboxPushProofs` also assumes of the
circuits a plan may want what `CircuitPlanProofs` proves of those computed: ids and rear ports are
not shared (`WantedAssumption`); the ids of ports are natural numbers there, because a circuit's id
puts the smaller one first.

`PlanUsageProofs` proves `TypeOK`, `OneActivePlan`, `NoNewCableIssue`, `BaselineFibersOnce`,
`ChangeRecorded` and `ImplementMakesPlanCurrent`. `NoNewCableIssue` needs that every fiber named
by a row has its cable (the foreign key); its step for `updateCable` rests on the check of every
plan, that for `implementPlan` on rows of a plan always fitting. `BaselineFibersOnce` rests on
the fact that of two equal new usages at least one is among the ports checked. The lemmas say what a
check lets pass, what the applied baseline holds, and what is shown if neither the baseline nor
the active plan changed.

`NetboxAutoSyncProofs` proves `TypeOK`, `SynchronMeansShown`, `IssuesKeepNetbox` and
`IssuesMatchResult`. `SynchronMeansShown` alone is not inductive: when `StoreResult` makes the
result `ok`, it must be known that what the run has read, query by query, is still what is
committed. The invariant `SyncInv` says so: as long as every recorded row is one the run has
seen, and nothing unrecorded came, each part it has read is current (`ReadIsCurrent`). For that a
committed request's row must not be among those seen (`RowsFinished`: only finished requests have
rows), changes of shared content must be recorded (`SharedRecorded`), only one run may be under
way (`OneRun`, the lock), and a run that has pushed must still find its own content in Netbox
(`PushedIsTarget`). `SyncInv` was checked with TLC before it was proved.

`CircuitPlanProofs` proves `TypeOK` and `CircuitsDisjoint` for any network, usages and order of the
connectors. The inductive invariant adds that every connection noted names the rear ports its two
connectors are assigned to (`PairsAssigned`). A circuit is made of a rear port and its only
partner, and each names the other, so two circuits with a rear port in common are the same. The id
of a circuit is that of one of its connections, the one with the smallest connector; there is one
because port ids are well-founded (`FirstPair`), and `PairsAssigned` makes its rear ports the
circuit's.

It also proves `SignalEndsAgree`, `CircuitsAreLinks` and `NoLinkLost`, in three stages. *The walk*:
with each fiber at two sides at most a hop leads to one slot at most, and back (`HopOne`), so the
slots a walk passes are a chain; a longest one exists because it has no slot twice and the slots
are finitely many (`ChainExists`), and it goes on, if at all, to its start after an even number of
hops (`Closing`). The recursive functions `Walk` and `Reach` are then given in closed form
(`WalkOfChain`, `ReachIsLine`): the rows along the chain, and the slots of the two chains that leave
a slot either way. *The line*: if one of the two chains closes, its slots are a circle that
contains the other (`CircleBoth`); else the two have only their start in common (`ChainsApart`), and
the slots with one neighbour or none are their last ones (`LineEnds`), which is `SignalEndsAgree`.
*The order*: the invariant `LinkInv`, for any plan, says that a connection noted is of two
connectors taken, one of which was traced to the other, both ways, that a connector is in one
connection only, and that without an issue each connector taken is in one or leads nowhere. If a
plan is `Sound`, no connector can then be in the middle of a line (`NoneThrough`): its signal would
end at the back of another, q; the connector r at the other end of the line must be in a connection
too, but q is taken and there is no further one. So the connections are the linked connectors
(`NotedLinked`, `LinkedNoted`), and of links between the same rear ports the first port alone tells
which comes first (`SameId`).

`NetboxPushProofs` proves the refinement, `Spec => KeepsPromise`, and `NeverInItsOwnWay`. The
invariant has two parts. `AlwaysInv` holds also while Netbox is edited by hand: cables end at
terminations there are, a cid is taken once, the lists of a run are about what it planned, and
the circuit being created has only what is planned of it. `RunInv` holds while nobody interferes:
each own circuit in Netbox is to be deleted, is being created, or is a planned one (`NoneTooMany`);
each planned one is to be created, being created or there (`NoneMissing`); what is to be deleted
matches nothing planned (`ToGo`); the ends of the circuit being created are cabled in order
(`JobSoFar`). A finished run has nothing left to do, so both together give the plan. The step that
deletes a blocking cable rests on the disjoint rear ports: the cable belongs to no planned
circuit. `NeverInItsOwnWay` adds `ClearInv`: the terminations made and the cables seen so far.

The theorems about the pages are about `Pages`, whose assumptions are the `Known` of eight pages:
the objects stored at first have the fields of their table and values of the domains, a duct has two
manholes, a panel has each port once, the ports of a panel are numbered from 1 (only their page
stores them, always all), there is an id for a new one, values that stand for none (`NoPosition`,
`Checking`, ...) are no others, a day has a length, the tables are not dated in the future. `Spec`
of `Pages` keeps `kind`, so each proof is about one page, and its invariant holds of `kind`
(`CableKept`, `DuctKept`, ...).

`ObjectPageProofs` proves six properties. *Cable*: `OnlyTypedIsSent` needs that
what differs from the data shown was typed since they came (`TypedSince`), which data of another
cable that arrive late keep true, because they replace the form. `WhatIsBuiltAligns` needs that what
the page shows, what is sent and what comes back are paths and ducts of the network (`PathInv`), and
an induction over the length of a path: `Passed` is a recursive function, a walk along the ducts
exists for every length (`WalkExists`), and along the ducts of a path that passes no manhole twice
it passes the path's manholes (`WalkAlong`). The inductions look at the smallest number that is an
exception (`LeastNumber`). *Duct*: `CourseIsThePreview` needs
that at most the check that counts is of the line and manholes chosen, and that a check shown is
(`LastIsOfLine`, `CheckIsOfLine`): every change of either makes the check under way count no
longer (`Outdated`). `PreviewShowsTheFile` is about the fitting of a course: a line of any length,
turned to the nearer manhole, gives the reverse of the course of the reversed line and keeps its
inner points; no invariant is needed, but lemmas on what is cut from a line's ends (`FrontKeeps`,
`Reversed`, `TurnedIsLine`). *Manhole*: `CheckingEnds` and `FieldsShowThePosition` are proved
together: of the conversions under way at most one counts, it is of the text in the fields
(`LastFits`), a delay that runs is too (`DelayFits`), and a page that waits has one of both
(`WaitsForOne`).

`PanelGuardProofs` proves `NoFiberTwice` and `FibersStoredAsShown`. A fiber shown on a side is one
loaded there or one that was free when the panel was loaded (`HeldFits`): `used` has the fibers
taken off too, so a reset gives back one nobody got meanwhile. What was loaded is what the plan
holds until something was stored (`IsCurrent`), so what a request does not send is stored already
(`StoreFits`).

It also proves `LoopsStoredAsShown`. The page orders the looped numbers by bundle and fiber and
gives them to the ports in turn. A finite set in any linear order is listed with each element once
(`RanksAreNumbers`), so each looped number comes to one port, on both sides (`WantedShows`); what a
request leaves out is held already (`LoopStoreFits`), as on the other page. The property speaks of
requests for the plan shown that have no more loops than the panel has ports.

For the guard it proves `ShownIsTheAddress` and `LossIsChosen` (with the exception above) for a
history of any length: the guard knows the address of a page with changes (`Noted`), and moving back to a
remembered address is right only if it is the address shown.

`PortLkmapProofs` proves `PortsStoredAsShown`. The page lists what is stored, as the user changed
it: no id twice, each stored port still there (`ListFits`), and those not deleted are numbered from
1 in their places (`IsNumbered`), which each edit keeps by renumbering. The backend writes one
change after the other; `Made` says how far it is: the first changes are in different ports with
their numbers, and what else is stored is what the changes to come are about. So a change finds its
port untouched, and a new port gets an id nobody has (`FreeIdLeft` counts them). The recursive
function in `AfterChanges` is given by its steps (`AfterIs`), and the induction over the changes
looks at the first that is an exception. A swap is refused by the unique index (the request fails),
so it is no exception either.

It also proves `ChangesAreDated`. The invariant speaks of every delivery in the log, not
only of the last one (marking can make any the last), and of now: what differs from a delivery is
dated after its download (`DatedAfter`), and no row is dated later than now (`NetworkOK`), so a new
delivery, of what is exported now, is later than nothing. A step of the network either dates a row
now or leaves all that is exported of it as it was (`NetworkStep`): its own values, and those of its
owner, type and manholes that the triggers watch.

The invariants were checked with TLC on the instances of `pages` before they were proved; not so
those of loops and ports, which quantify over all lists: there TLC checked what they imply.

Only model-checked: `RepairKeepsOneEnd` (it compares a request with all its permutations), the
liveness properties, which are out of the prover's reach (fairness, ENABLED), `LoopsStayWhole` (it
needs that a panel does not mix loops of several pairs of cables, as in `pages`: the page shows one
pair, so what it sends differs on both sides of a port or on none), `TreeIsWhole` and `ParentsFirst`
(recursion over forests), and `TypeOK` of the pages.

## Not modelled, and the plan

Out of scope: the Helm chart, assets, the mock, rendering and wording of the frontend, the XML of
the transfer files and their limits, the arithmetic of geometry (lengths, the conversion of
coordinates), logging, the libraries' checks of tokens, and roles (a guard per mutation without
state).

Not modelled of what is in scope:

- **Concurrent transactions.** Every module has requests one after the other, except
  `NetboxAutoSync`, where that is the point. The mutations under READ COMMITTED (two
  `setPortUsage`, `implementPlan` and a change of its plan, the ends of a duct and a cable laid in
  it) would be a module `PlanTransactions` with row locks and unique indexes; the hazards name them.
- **Requests**: the pool, the shared connection and batched loads. Their hazards (a dropped
  handler, a resolver that waits for itself) depend on the runtime and the pool, which are
  libraries.
- **Owners and types** that are created, deleted or made the default; they are used by `Lkmap`
  as rows that stay.
- `updatePanels`, which no page sends; the names offered for new ports and the devices and ports
  Netbox offers; labels, the map, the recovery after a panic.
- **The work order** as a list; `FiberTrace` has the walk it is made from and the ports a plan
  changes.

Next: `PlanTransactions`.
