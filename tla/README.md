# Formal models of IaCCreator

IaCCreator is a diagram editor for AWS architectures (Next.js, one zustand
store) in front of a FastAPI backend that validates diagrams, derives
connections from containment, stores diagrams per session and generates
Terraform. The models have two halves. One is about the editor and its server:
many handlers over one store, answers that arrive late, undo, and records that
overlapping requests write. The other is about the generator: 229 kinds of
connections, each with a handler that contributes pieces to the Terraform modules
of both ends, and pieces that have to fit whatever else is connected.

## The system

| component | state it keeps | operations | hard behaviour | what makes it correct | modelled in |
|---|---|---|---|---|---|
| undo history (`history-slice.ts`) | two stacks of snapshots, two flags | `pushHistory`, `undo`, `redo`, `beginDragGesture`, resets by load and new | flags and limit kept by five handlers by hand, handlers that record twice or not at all | one timeline with a cursor; honest flags; bounded memory | `UndoHistory`, `UndoTimeline` |
| diagram structure (`canvas-`, `grouping-`, `clipboard-`, `anchoring-slice.ts`) | canvas objects, groups, selection, clipboard | add, remove, select, group, ungroup, copy, cut, paste, duplicate, anchor | references by identifier in four fields, stale selections after undo, three handlers that dissolve groups | every reference leads to something, groups and members name each other, copies stand alone | `DiagramGraph`, `DiagramEditor` |
| connectors (`connector-slice.ts`, `PullToConnectOverlay.tsx`) | connectors, the promise chain of checks, the pull gesture | pull and drop, `addConnector`, `removeConnector` | answers later than removals, undo, loads; a rejected promise in the chain | no connector without its blocks, one per pair, every check ends | `DiagramEditor` |
| containment in the editor (`semantic-containment-slice.ts`) | parent pointers, presentation, the guard `pendingContainmentObjectId` | assign, move out, show as container or node, delete with reparenting or as a subtree | the whole diagram travels, and the answer lands on another one | hierarchy without cycles or dangling parents; managed connectors follow it; the guard is let go of | `DiagramEditor` |
| containment in the backend (`diagram_models.py`, `containment_*.py`) | none | validate, apply an operation, derive connectors, normalise | rules the editor does not know | the answer is a whole diagram | `DiagramGraph` |
| loading (`serialization-slice.ts`, `NewDiagramDialog.tsx`) | replaces the above | load, new | requests of the old diagram answered on the new one | history and selection forgotten; nothing of the old diagram comes back broken | `DiagramEditor` |
| persistence (`persistence-slice.ts`, `routers/diagrams.py`, `app/persistence`) | `currentDiagramId`, records | save, update, load, list, delete | identifier and content change separately, requests overlap, a record disappears between check and write | content is saved under its own identifier; what is reported saved was stored | `DiagramLibrary`, `DiagramPersistence` |
| sessions (`session_middleware.py`, `session_manager.py`) | users, cookie | resolve, create, touch | concurrent first requests, a lost first answer | a saved diagram stays reachable, and only its owner reaches it | `DiagramPersistence` |
| naming of new resources (`canvas-slice.ts`, `resource_initializer.py`) | promise chain | ask for a free name, apply | a rejected promise ends the chain; edits, copies, undo and loads in between | a default name was free when it was asked for; edits survive | `ResourceInit` |
| connection previews (`connection-preview-store.ts`) | previews by connector, a timer | debounced refresh | answers out of order, removed connectors | the panel shows the diagram; loading ends | `ConnectionPreview` |
| linked entries (`connector-slice.ts`, `connection_operation_service.py`, `apigw-config-store.ts`) | routes of an API block, the copy of its panel, connector configuration | create, update, remove, edit in either panel | whole lists overwritten by late answers and by the panel | no lost update; connectors name existing entries | `LinkedEntries` |
| connection handlers (`services/connection_handlers`, the registry) | none | one handler per kind of connection | two handlers write one name, one module and one address; some let the first connection speak for all | nothing contributed is lost; references resolve; permissions reach a role | `Contributions`, `*Handlers`, `Registry` |
| IR and file tree (`ir_builder.py`, `connection_processor.py`, `file_tree_assembler.py`) | the project while it is built | resolve each connection, merge, attach IAM statements, assemble | order of the connections, cross-module references | order does not matter, no circle between modules | `Wiring` |
| service generators (`app/generators`) | none | the module of a service | outputs and variables that only other modules use | offers what handlers refer to | `ComputeModules`, `ServiceModules` |
| z-order, project settings, viewport, tours, routing, layout, React components, catalog, input schemas, import | display state or none | setters, pure functions | geometry and text | none between components | not modelled |

How they meet: every slice writes the same store, and JavaScript runs one
handler at a time. A handler that awaits the backend is cut in two at the
`await`; everything else is atomic. The backend keeps nothing between two
requests of an editing operation: the whole diagram is in the request. The
generator is one sequential pass over a diagram; what is hard about it is not its
schedule but the number of combinations, so its model starts in any of many
projects instead of interleaving. `PROJECT.json` lists the hazards of this code
at the line where each bites.

## Modules of the editor

`UndoHistory` — `history-slice.ts`. `Recorded` is the cut of `pushHistory`;
`RecordedEdit`, `RecordedTwice` and `SilentEdit` are the three ways the other
slices use it: once (most edits), twice (a drawn line that also connects), not
at all (`updateCanvasObject`, answers to a check). `structuredClone` makes a
snapshot a value.

`UndoTimeline` — what undo promises, without stacks: a list of diagrams and a
cursor.

`DiagramGraph` — a diagram is three maps. `Blocks`, `Containers`, `Shapes` and
`Lines` are the identifiers by kind; a VPC or Subnet block is in both of the
first two and `presentation` says how it is shown. `None` is a missing key or a
missing reference. The operators are the bodies of the store's `set` calls
(`RemoveObjects`, `LeaveGroups`, `GroupObjects`, `CloneObjects`,
`CanonicalState`) and of the backend (`ValidReferences` is
`DiagramStateInput.validate_references`, `Normalized` is
`ContainmentResolver.normalize` with the derivation in `resolve`). `Placements`,
`Connections` and `Contains` are the tables of `containment_catalog.py` and of
the registry of connection handlers: constants, because nothing here depends on
which services there are. `Ancestors` is a least fixed point rather than a
recursion, so that the module can be used in proofs.

`DiagramEditor` — the store. Its variables bear the names of the store's fields;
`connectionQueue` and `sentConnection` are the promise chain
`connectionOperationQueue` and the body of the request on the wire,
`containmentRequest` is the awaited `applyContainmentOperation`. `UndoHistory`
is instantiated for the stacks. `DropPull` is `handleMouseUp` with both
recordings; `NextCheck` serialises the next request in the step that ends the
first, as the chain does. The answer to a containment request is computed when
it is sent (`asked`, `valid`), because the backend is a function of the request.
A valid request may still be refused: regions, availability zones and inherited
values are not modelled. Every request may fail or be rejected.

`ResourceInit` — `addCanvasObject` without a name: a temporary name now, and a
link of the promise chain that asks for the real one (`Ask`, which reads the
names of the canvas when its turn comes). A name is the pair of its service and
its number, a configuration is unset, default or the user's. The user meanwhile
types any name (`Rename`; the name field and `updateCanvasObject` look at no other
block), copies blocks (`Copy`, `Paste`, `Duplicate` keep the name, and no
initialisation is chained for a copy, so that one of a block with a temporary name
keeps that), removes, goes back and forth in the history, and loads (`Load`, also
an empty diagram). Typed names are those a default name could be: others clash with
none. Names are therefore not unique in this editor, and no property says so; what
the chain gives is `DefaultsAreNew`. `Reject` is a request whose promise rejects;
nothing catches it, and `stopped` is the rejected chain.

`ConnectionPreview` — `useConnectionPreviews`: the timer, `refresh`, any number
of requests on the wire and their answers in any order. A preview is represented
by the configuration it was computed from, so that "stale" can be said.

`LinkedEntries` — the routes of one API Gateway block. `Queue`, `Taken` and
`NextTurn` are `queueConnectionOperation`: an operation takes the diagram when
its turn comes, after the answer before it was applied. `Refused`, `Updated`,
`Without`, `Cleared` are `ConnectionOperationService.apply`; `AnswerOperation` is
what the three handlers do with what comes back, which replaces the whole list. `panel` is
the copy that `apigw-config-store` keeps and `SyncToCanvas` its write-back. The
checks of new connectors share the queue and are modelled with it.

`DiagramPersistence` — one browser, the middleware, the endpoints and the
repository. A request is a record that goes from `sent` over `open` (session
known) and `owned` (`verify_ownership` passed) to `done`; it may be lost on the
way in or out. Nothing in the editor waits for an earlier answer, so requests
overlap. With `Interleaved` false, handlers run to their end one at a time (the
shipped container: one uvicorn process, TinyDB); with it true, several processes
share the tables (the DynamoDB repository), and a record can disappear between
the ownership check and the write. A document is a number, and `version` what
the user made of it. `DiagramLibrary` is the abstract specification: records
that belong for ever to the session that created them, identifiers never given
out twice.

### History variables

Some races are known and real. Each is recorded in a variable no action reads, so
that everything else can be checked in its absence:

- `overtaken` (`DiagramEditor`): a containment answer found an object of its
  diagram gone or an unknown one inside a container, or a pull was dropped whose
  source is gone;
- `late` (`ResourceInit`): the blocks that came to their name while a request was
  on the wire;
- `raced`: a second session was created, or the answer with a cookie got lost;
- `disturbed`, `loose` (`LinkedEntries`): the user edited the routes between a
  request and its answer; a reason why a connector may name no route;
- `lost` (`Wiring`, in `merged`): what a contribution of the same name displaced.

Their conditions are as narrow as the code allows. The run `resurrected` shows the
first of them, `wiring_names` the last. What they excuse is modelled and not
caught: a pull dropped after its source is gone, two first requests that make two
sessions, a preview request that rejects and leaves the panel loading
(`LoadingEnds` excepts it), a panel whose stale copy parts a connector from its
route. Persistence has no such variable: `CanvasIsCurrent` names the two steps
that part the canvas from the current record, a new diagram (which keeps
`currentDiagramId`) and the answer to a first save when another document is shown
by then, and says that nothing else does and that a load brings them together.

## Modules of the generator

`Contributions` — `ConnectionContribution` as a record of sets: inputs and
outputs of modules, files, IAM statements, and `marks` (what a handler writes
into the configuration of the other instance for its generator to read). `In`,
`Out`, `File`, `Grant`, `Mark` are the constructors of `ir_models.py` and
`base.py`. A connection is `[n, source, target, kind, slot, fit, remote, other,
refs]`, explained in the module.

Sixteen modules hold the handlers, grouped by what they wire: `ApiHandlers`,
`BucketHandlers`, `CertificateHandlers`, `ClientHandlers`, `CodeHandlers`,
`CollectionHandlers`, `DataHandlers`, `EventHandlers`, `FaultHandlers`,
`GrafanaHandlers`, `KeyHandlers`, `MigrationHandlers`, `MountHandlers`,
`PlacementHandlers`, `TransferHandlers`, `WorkflowHandlers`. One operator per handler
class bears its name and takes the connection and, where the handler looks at
it, the whole project; `Unless` is a handler that raises, `Speaks` is
"connection is not peers[0]". `Handlers` dispatches; `Registry` has the table of
`registry.py` in its order, `ResolveSpec` (`resolve_spec`) and the kinds that
may cross regions.

`ComputeModules`, `ServiceModules` — the module each service generator writes,
as far as connections refer to it: addresses, outputs, variables, and the variants
that marks and inputs switch on.

`Wiring` — the pipeline. `Build` and `RefuseConnection` are
`_build_connections`, one connection at a time; `HandleConnection` and
`RefuseToHandle` are `process_all`; `Merge` is `ConnectionContribution.merge`
(the first input of a name stays, a later file of a name wins); `AttachIam` is
`_attach_iam` with the cross-module references; `Assemble` folds the rest into
the modules.

What is abstracted:

- a name is the tuple of its parts, so that two names are equal exactly when
  their parts are, except for `Safe`, which stands for `safe_identifier` and can
  be given a collision (`wiring_names`);
- a file is known by the addresses it declares and those and the variables it
  uses, an input by the outputs it reads; the text is left out;
- `slot` is what a connection claims of its ends (a route, a field, a port, a
  key of an environment), `refs` what its settings name of other connections;
- every check that reads only the configurations of the connection and its ends is
  the bit `fit`; a handler that refuses an unfit connection refuses it here;
- a configuration is the default one, with what connections switch on; only
  settings connections read or write are told apart;
- where the code takes the first of several certificates or roles in the order of
  their names, the model takes any of them;
- warnings of `validate()` are left out.

`MCWiring` builds the projects: every kind alone in each way of naming it
(by type, by role, by an unknown role), fit or not, in one region or two; every
two kinds that share a source, a target, a middle or both ends in either
direction, with equal and different slots; and larger projects whose connections
need a third, drawn in every order (a login behind a certificate, an API with an
authorizer, tasks of one replication instance, keys behind a topic and a
pipeline), or in four orders (tasks of two replication instances that read one
database server), or with one connection drawn twice.

Each fault that a mutant uses is defined beside what it replaces, with a comment
that says "Fault"; no specification uses one.

## Runs

| run | question | bounds |
|---|---|---|
| `undo_history` | do the stacks implement one timeline, with honest flags and bounded memory? | 3 diagrams, limit 3: an edit recorded twice overflows from one below the limit |
| `editing` | groups, anchors, selection, history | a block, a text, a line, 2 groups, limit 2: a third member and a second group are what dissolving needs |
| `clip` | are copies of their own? | 2 blocks, 2 containers, 1 group: a grouped block in its container, once copied |
| `connect` | connections drawn while others are checked, with removal, undo and load; does every check end? | 2 blocks, 1 line, 2 connectors, limit 1 |
| `contain` | two containers that may hold each other, the instance either may hold, managed connectors, late answers | 3 objects, limit 1 |
| `requests` | naming: new default names, surviving edits, every initialisation asked for; previews: in step; routes: no lost update, no dangling route | 3 blocks of one service, one of them in a saved diagram, 5 moves of the user; 2 connectors with 2 kinds and 2 configurations, 2 refreshes; 2 connectors, 2 paths, 2 route ids, 1 operation waiting behind the one on the wire, 5 edits |
| `library` | do the endpoints implement the library, with several processes and lost requests? | 2 ids, 2 sessions, 2 documents, 2 versions, 3 requests |
| `wiring` | do the contributions of any two connections and the generated modules fit together? | 12,707 projects of up to 4 resources and 6 connections |
| `resurrected`, `pending`, `route_removal`, `wiring_names` | what the repository says and does not hold | as `contain`, `requests`, `wiring` |

The editor's runs restrict `Next` to one facet (`EditingNext`, `ClipNext`,
`ConnectNext`, `ContainNext`): the whole relation on objects enough for every
facet is out of reach. A facet has all actions that touch the state it asks
about, and the histories, loads and removals that cut across facets are in all
of them. A limit of 1 or 2 for `MaxHistory` (50 in the code) is enough because
nothing in the editor looks at how deep a stack is except the cut, which
`undo_history` checks and the proofs settle for every limit. Identifiers are a
bounded supply of UUIDs: one that nothing mentions any more may be drawn again;
those of records are never, because a record leaves `Deleted` behind.

`MCRequests` puts three modules side by side that share no state; in one
behaviour one of them moves and the others rest, so the state spaces add up
instead of multiplying. Two blocks of one service are what a clash of names
needs, a third one names something by copy or by a loaded diagram meanwhile, and
five moves of the user reach a block placed, copied, pasted, removed and undone; two refreshes are what answers out of order need; two operations, one
waiting, are what a lost update needs; five edits reach a route that was drawn,
created, opened, renamed and removed. That `LinksLead` holds for more edits than
that is proved.
Three requests for two documents are what a save overtaken by a load needs, with
a deletion between the check and the write.

Two connections that share a resource are what a clash of contributions needs;
the larger projects are for handlers that look further than their peers.

Deadlock is checked only in `undo_history`: elsewhere a user who has used up the
identifiers, the requests or the edits may have nothing left to do, and a
generated project is finished.

What holds in the editor: groups and members name each other in every diagram
shown or restorable; the canvas and all snapshots are free of dangling
references and containment cycles unless overtaken; managed connectors follow the
hierarchy; removal never takes anything out of a container that stays; no object
is ever inside itself; copies refer to nothing outside; two blocks have one
drawn connector unless they were loaded with two; the flags and the limit hold with all handlers in place; every
check ends. A default name is one that was free when it was asked for, and what the user
typed is kept; previews
are those of the diagram unless an older answer came last, never of a removed
connector; an operation on routes keeps what the one before it did. What the
user is told is saved was stored, and can
be listed with the cookie unless the first requests raced.

What holds in the generator: nothing is displaced except settings that hold one
value (`vpc_id`, `subnet_id`, `certificate_arn`, `web_acl_id`) and the name of a
log group that two handlers render differently, where the first connection wins
silently; drawing the connections the other way round changes nothing otherwise; every variable, address and
output that is used exists; no address is declared twice; every permission ends
in a policy of a resource that has a role; modules never wait on each other in a
circle; a replication slot feeds one task.

What does not hold is in four runs that expect a violation:

- `resurrected`: a block is removed while a containment request is on the wire;
  the answer brings its managed connectors back without it.
- `pending`: a rejected request leaves `pendingContainmentObjectId` set.
- `route_removal`: a route added in the panel of the block and linked to no
  connector is removed there; the backend finds no connector for it, refuses with
  "Unknown connector: None", and the block keeps the route.
- `wiring_names`: a target group is attached to two EC2 instances whose names
  differ only in a dash; both inputs get one name, the second is dropped, and one
  instance is never attached. The same happens to other kinds of connections that
  name an input after a peer.

Known disagreements that were met while modelling and have no run of their own:
deleting a Subnet hands its instances to the VPC, where the catalog does not
allow them; a line pulled from an object that is deleted meanwhile is anchored
to nothing; an update of a record that disappeared raises in the DynamoDB
repository, where `docs/database.md` promises `False`; a new diagram keeps
`currentDiagramId`, so that the next save overwrites the old record; the answer to
a first save sets `currentDiagramId` although another document was loaded
meanwhile; two blocks may have one name (typed, copied, or given by an answer that
does not know a name typed meanwhile), where `docs/backend-api.md` says that
initialisation "derives unique names"; a preview
may be older than the diagram when answers arrive out of order; the removal of a
route clears the one connector the backend found, where a comment speaks of
several; a copy in the open panel of a block drops entries an answer added;
paths that differ only in a dash and an underscore get one Terraform name in
`_sanitize_path`.

## Fairness

`FairConnectSpec` and `FairContainSpec` are weakly fair to answers only: the
browser settles every `fetch`, if only with an error, and the promise chain runs
its continuations. `MCRequests` is fair to the chain running its next link
(`Ask`), to every naming and preview request ending, and to the timer firing
(`Refresh`). The outcomes of a request share one fairness condition, so that
fairness never chooses success. No action of the user is ever due. Naming ends
for good once a request has rejected, and `ChainDrains` excepts that case.

## Proofs

The proofs hold for every value of the constants that the named assumptions
allow; the runs evaluate all assumptions.

`UndoHistory_proofs`: `TypeCorrect`, `FlagsCorrect` and `MemoryBounded`
(`MaxHistoryAssumption`: the limit is not zero). `TypeOK` is inductive; the other
two are inductive relative to it. `RecordedFacts` (a cut stack is never empty and
never longer than the limit) and `PoppedFacts` carry the arguments;
`HistoryBounded` needs no strengthening, because undo and redo move one snapshot
from one stack to the other.

The same module proves `HistoryImplementsTimeline`, the refinement the run
`undo_history` checks. The mapping puts the undo stack, the canvas and the
reversed redo stack behind one another; there is one lemma per kind of step.
`EditLine` is the one that matters: recording cuts the stack where the timeline
is cut. A handler that records twice is that lemma twice and `KeptTwice`.

`DiagramGraph_proofs`: what each operation on diagrams preserves: their type,
`GroupsConsistent`, `Acyclic` (`GraphAssumption`: the kinds of identifiers are
disjoint, except that a block may contain; `NoneAssumption`: `None` is no object
and no connector). Removal needs most: a cycle among the objects that stay would
have been a cycle before, through removed ones (`RemoveObjectsAcyclic`), and since
there is only one way up, the container a child is handed to is the only one it
could be (`OneWayOut`), so nothing else changes what anything is inside of
(`RemoveObjectsAncestors`). The answer of the backend (`CanonicalStateAcyclic`)
is merged into a canvas that has moved on: a cycle would lie within the objects
of the answer, which has none, or within the others, which had none. The last part
is about `Tied`: no anchor, connector or parent leads nowhere, and what managed
connectors say of the hierarchy is so. Most operations only add to what there is
(`TiedGrows`: who keeps its containers keeps its ancestors); removal needs
`RemoveObjectsAncestors`, because a managed connector whose ends both stay may
reach through a container that goes; and an answer that is not overtaken speaks
of every object that is in a container (`AnswerTied`).

`DiagramEditor_proofs`: the invariant `EditorInv` of the whole next-state
relation, in three parts (`SavedDiagramsAssumption`: a loaded diagram is whole
and its managed connectors are true, because the backend validates what it stores
and normalises what it hands out, `routers/diagrams.py:67` and
`architecture_importer.py:179`). `Canvas`: the shown diagram and
every snapshot are in `Sound`, the diagrams with consistent groups and no cycle;
the snapshots have to be in it because undo shows them. `Hand`: the clipboard has
no cycle, because paste and duplicate bring its hierarchy back. `Wire`: what a
valid containment request asks for has no cycle, because its answer imposes it
on the canvas; and a check is sent only for a queue that is not empty. From it
follow `EditorTypeCorrect` (`TypeOK`), `GroupsCorrect`
(`GroupsAlwaysConsistent`), `HierarchyAcyclic` (`NeverInsideItself`, without the
exception for `overtaken`: the `visited` guard of `removeMultipleCanvasObjects`
against cycles never acts), `RemovalCorrect` (`RemovalKeepsHierarchy`) and
`ImplementsUndoHistory`: every step of the editor is a step of `UndoHistory`,
hence `HistoryCorrect` (`HistoryHonest`) and `EditorTimeline`.

A second invariant, `WholeInv`, is inductive relative to the first. `Unbroken`:
unless overtaken, the canvas and all snapshots are `Tied`, and a container among
the copied objects is shown as one, or its pasted children would be in something
that cannot contain. `Request`: what a containment request asks for has the
objects and connectors it was sent with, so that comparing the canvas with what
was sent (`Overtakes`) is enough. `Agreement`: the verdict on a connector turns
it to the direction of what was *sent*, so that one per pair can only last if all
diagrams, requests and verdicts agree on which blocks a queued connector joins.
They do, because its identifier was new when it was drawn: there is a function
`ends`, extended by each drop, that all of them follow. Hence `ReferencesWhole`
(`WholeUnlessOvertaken`), `ManagedConnectorsTrue` (`ManagedFollowHierarchy`),
`PairsJoinedOnce` (`OneConnectorPerPair`, overtaken or not) and the action
`CopiesCorrect` (`CopiesStandAlone`). Proving them narrowed two of these: an
import may hold several connections of a pair, so that `OneConnectorPerPair`
excepts pairs that were loaded so; and on an overtaken canvas a stale identifier
can be selected that an object still refers to, so that its duplicate is not a
copy of its own: `duplicateSelectedObjects` renames every selected identifier, where
`pasteObjects` renames only what was copied.

`DiagramPersistence_proofs`: the invariant `PersistenceInv` (`NoneAssumption`,
`InterleavedAssumption`, `DocumentsAssumption`). `Server`: records belong to
known sessions and what is held was written. `Browser`: types, and the current
identifier is not unused. `Wire`: each request is `Staged` (its stage and its
fields agree), `Entitled` (past the ownership check, the record is its session's
or deleted) and `Truthful` (a successful answer speaks of what was stored). The
point is that a step of one request must not take from another what it relies
on: `Grows` says that sessions, written contents, owners and the mark of a
deletion never shrink, and every action satisfies it, so that each lemma only
accounts for the request its action changes. `Cookies` is a second invariant, for
the browser whose first answer is still on its way. From them follow
`TypeCorrect`, `ToldIsStored`, the action `CurrentIsShown` (with both exceptions
that `CanvasIsCurrent` names), `OwnersOnly`, `SavedIsListed`, and
`EndpointsImplementLibrary`, the refinement the run `library` checks.

`ConnectionPreview_proofs`: the invariant `PreviewInv`, without assumptions.
While the timer is not armed nothing was drawn since the last refresh, so the
request with the last number carries what is drawn (`Latest`); what is shown from
it is then expected (`Shown`), and what is shown from any other is at least cut
down to what is drawn (`Known`). Hence `PreviewTypeCorrect`, `PanelInStep` and
`NoGhosts`, for any number of requests answered in any order.

`LinkedEntries_proofs` (`LinkedAssumption`: one connector leads to each block, as
`OneConnectorPerPair` says of what is drawn; no
path is empty): `LinkedTypeCorrect`, then two invariants on top of it. `UpToDate`:
the operation on the wire carries the routes the block still has and what its
connectors name, unless it is marked as overtaken; an operation takes the diagram
only when the answer before it was applied, so every step keeps this, and
`EditsSurvive` (`LinkedEditsSurvive`) follows. `SoundThroughout`: unless a link was
broken on purpose (`loose`), a path names one route and every connector names a
route to its own end, in the block and in every snapshot, because undo brings them
back. The removal of a route is the hard case: the backend clears one connector,
and it is the only one that named the route, because a path names one route, the
route leads to one block and one connector leads to it (`OnlyLinkNamed`). Hence
`ConnectorsLead` (`LinksLead`). The proof attempt corrected `loose`: the copy in the
block's panel may be older than the block, and renaming a route in it to a path
whose own route is not in the copy hands a connector's path to a route that leads
elsewhere; when that route is removed, nothing clears the connector. It takes three
paths and eight edits, more than the run makes.

`ResourceInit_proofs`: the invariant `InitInv` (`ServiceAssumption`,
`NamesAssumption`: ids are no services; `MaxIndexAssumption`: at least one number
per block; `MaxHistoryAssumption`; `DocumentsAssumption`: what is loaded consists
of named blocks). `Shown` and `Chained` are types and the chain without
repetition; `Known` is the argument: the request on the wire knows the name of
every other block, except of those in `late`. `NumbersSuffice` is a pigeonhole (one
number per block leaves one free) and `DefaultNameIsNew` takes the least free
number. Hence `ResourceTypeCorrect` and the actions `DefaultsNew` and `EditsKept`.

`Wiring_proofs` (`ProjectsAssumption`: resources of a project are instances, its
connections a sequence; a fit connection to a job queue names a job definition of
the project, since `prepare_batch_target` raises otherwise) has six results:

- `WiringTypeCorrect`: whatever type or role a connection names, the IR has it with
  a kind the registry knows, so that it has a handler, and no handler sees a
  connection before all are built;
- `PermissionsFollowed`: once statements are attached, every resource of another
  module they name is offered by that module and given to the role's, whatever the
  handlers contribute (`Merge` keeps a name once it is there, and
  `CrossModuleInputs` adds both ends of each reference);
- `SlotsApart` (`SlotsFeedOneTask`), with the invariant `HandledInv`: nothing is
  generated before every handler has accepted its connection, given all of them.
  `MigrationSpecs` goes through the registry and finds which handler has the tasks
  and the endpoints, `Dispatched` that it is called. `validate_cdc_source` compares
  tasks through the first endpoint of a name, whatever its type, so the argument
  needs `OneEndpoint`: what another handler checked (`validate_endpoint_identity`)
  makes it the endpoint whose slot is meant, or the same one drawn twice. Tasks
  that are the same connection drawn twice (`Twin`) are one task;
- `ContributionsStay`: the modules that contributions are for, and those whose
  outputs their inputs read, are generated, and permissions are held by functions
  and tasks. `assemble` skips a file whose module it does not find, and
  `_module_arguments` picks the inputs of each module it does, so a contribution for
  any other would vanish silently;
- `PermissionsLand` (`GrantsLand`): every permission a handler asks for is in the
  policy that a role of the generated project writes;
- `PermissionsWired`: with the two before, a permission on another module's
  resource has both its ends in the generated tree, the output there and the
  variable here.

The last three rest on one invariant, `InsideInv`. `GrantsLand` is about the end of
a run and says nothing of the steps before, so it is not inductive: that a grant
reaches a policy needs that its owner is generated, that the owner's service is one
whose generator writes the statements (`_attach_iam` leaves them on any instance,
and most generators never look), and that no handler's file has the name of a policy, because a
contributed file takes the place of the generator's (`PolicyKept`). `Confined` says
this of a contribution, `Connected` of a connection of the IR, and `InsideInv` of
everything merged so far. `AllOf`, `Both` and `Maybe` say that the constructors of
`Contributions` keep it (`Each` sums with `Total`, a set of records, so that this can
be stated once), and one lemma per group of handlers uses them; `HandleConfined`
puts them together along the registry, whose kinds settle for each permission
whether its owner is the source or the target, and that this is a function or a
task. Only the batch targets refer to a resource of their configuration that no connection
leads to, which is why the assumption has to speak of it.

Only model-checked: the properties of `wiring` about what the handlers of all 229
kinds contribute to *one another*, and all liveness (the prover has no `ENABLED`).

- `NothingLost` and `AddressesUnique` hold for names that stay apart when they are
  made Terraform identifiers, which the run `wiring_names` shows they need not; they
  compare each handler with every other, a table of 229 by 229 kinds.
- `EveryReferenceResolves`: that the module a reference names is generated is
  `ContributionsStay`; that it has this very output is a fact about each pair of a
  handler and a generator, under the condition that decides whether the output
  exists.
- `OrderFree` compares the drawing order with its reversal, and only where the merge
  lost nothing, case by case likewise.
- `Acyclic` speaks of paths, and needs an induction over their length.

## Not modelled

The reasons are per component in `PROJECT.json`. Of what is modelled, left out
are:

- in the editor: geometry, z-order, collapse; which objects a move takes along;
  the length of a drag (`beginContainmentDrag` to drop is one action, as from the
  menu); types of connections (a pair has one);
- in the backend's containment: effective scopes, inherited values and conflicts
  of regions, which are a refusal that is always possible;
- in persistence: the expiry of the cookie and `touch_session`, timestamps;
- in linked entries: the removal of the API block itself, redo, and the
  panel's stages, authorizers and keys, which are written back with the same copy;
- in the generator: attributes, tfvars, environments, layers and the archive;
  services no connection reaches; the parsing of the input models and of OpenAPI
  documents.

What could come next: `MoveSelection` (what a drag takes along) and the
resolver's scopes in place of the answer that may always be a refusal.
