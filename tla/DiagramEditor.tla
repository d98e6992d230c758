--------------------------- MODULE DiagramEditor ---------------------------
(***************************************************************************)
(* The editor: the slices of the diagram store that change the structure   *)
(* of a diagram, composed as diagram-store.ts composes them, and the two   *)
(* kinds of request whose answers change it later.                         *)
(*                                                                         *)
(* JavaScript runs one handler at a time, so a handler without await is    *)
(* one action.  A handler that awaits the backend is two: what it does     *)
(* before, and what it does with the answer, on the canvas it finds then.  *)
(* The user goes on editing in between.                                    *)
(*                                                                         *)
(*   - A new connector is checked by a queue of requests, one on the wire  *)
(*     at a time, each serialised when its turn comes.                     *)
(*   - A change of container or of presentation is sent with the whole     *)
(*     diagram; pendingContainmentObjectId admits one at a time.           *)
(*                                                                         *)
(* Edits of names, configuration, geometry, locks and labels leave the     *)
(* structure alone; those that record history are RecordDataEdit.          *)
(***************************************************************************)
EXTENDS DiagramGraph, Sequences, Integers

CONSTANTS
    MaxHistory,       \* MAX_HISTORY
    SavedDiagrams     \* what the server or an import can hand to the editor

VARIABLES
    diagram,
    undoStack, redoStack, canUndo, canRedo,
    selectedObjectIds,
    clipboard,                    \* copied objects by identifier
    pullConnectState,             \* the object a line is being pulled from
    connectionQueue,              \* connectors awaiting their check, in order
    sentConnection,               \* what the request of the first one carries
    pendingContainmentObjectId,   \* the guard of the containment operations
    containmentRequest,           \* the containment request on the wire
    overtaken                     \* history variable: an answer or a gesture
                                  \* came too late for the canvas it found

History == INSTANCE UndoHistory

ASSUME MaxHistoryAssumption == MaxHistory \in Nat \ {0}

(* The backend validates and normalises what it hands out, an import too.   *)
ASSUME SavedDiagramsAssumption ==
    \A d \in SavedDiagrams : d \in Diagrams /\ Whole(d) /\ ManagedFollow(d)

historyVars == <<undoStack, redoStack, canUndo, canRedo>>
wireVars == <<connectionQueue, sentConnection, pendingContainmentObjectId,
              containmentRequest, overtaken>>
vars == <<diagram, historyVars, selectedObjectIds, clipboard, pullConnectState, wireVars>>

Init ==
    /\ diagram = EmptyDiagram
    /\ undoStack = <<>> /\ redoStack = <<>>
    /\ canUndo = FALSE /\ canRedo = FALSE
    /\ selectedObjectIds = {}
    /\ clipboard = NoObjects
    /\ pullConnectState = None
    /\ connectionQueue = <<>> /\ sentConnection = None
    /\ pendingContainmentObjectId = None /\ containmentRequest = None
    /\ overtaken = FALSE

-----------------------------------------------------------------------------
(* uuidv4: an identifier that nothing in the editor mentions. *)

Snapshots == Range(undoStack) \cup Range(redoStack)

Known ==
    {diagram} \cup Snapshots \cup SavedDiagrams
    \cup (IF containmentRequest = None THEN {} ELSE {containmentRequest.sent})

FreshObjectIds ==
    ObjectIds \ ((UNION {Mentioned(d) : d \in Known})
                    \cup selectedObjectIds \cup Present(clipboard) \cup {pullConnectState})

FreshConnectorIds ==
    ConnectorIds \ ((UNION {Drawn(d) : d \in Known}) \cup Range(connectionQueue))

FreshGroupIds == GroupIds \ UNION {Groups(d) : d \in Known}

(* New identifiers for ids, of the same kinds. *)
Renamings(ids) ==
    {m \in Injection(ids, FreshObjectIds) :
        \A o \in ids : \A kind \in {Blocks, Containers, Shapes, Lines} : o \in kind <=> m[o] \in kind}

(* While a line is being pulled the pointer is busy: only the keyboard and  *)
(* the answers of the backend act.                                          *)
PointerFree == pullConnectState = None

(* An edit that records history and touches nothing but the diagram. *)
Edit(changed) ==
    /\ History!PushHistory
    /\ diagram' = changed

-----------------------------------------------------------------------------
(* canvas-slice, grouping-slice, anchoring-slice, history-slice. *)

AddCanvasObject(o) ==
    /\ PointerFree
    /\ o \in FreshObjectIds
    /\ Edit(WithObject(diagram, o, NewObject(o)))
    /\ UNCHANGED <<selectedObjectIds, clipboard, pullConnectState, wireVars>>

RecordDataEdit ==
    /\ Edit(diagram)
    /\ UNCHANGED <<selectedObjectIds, clipboard, pullConnectState, wireVars>>

RemoveMultiple(ids) ==
    /\ ids \cap Live(diagram) # {}
    /\ Edit(RemoveObjects(diagram, ids))
    /\ selectedObjectIds' = selectedObjectIds \ (ids \cap Live(diagram))
    /\ UNCHANGED <<pullConnectState, wireVars>>

Inside(o) == {i \in Live(diagram) : o \in Ancestors(diagram.canvasObjects, i)}

(* The context menu of a container with contents, selected on its own. *)
ContainerMenu(o) ==
    /\ PointerFree
    /\ selectedObjectIds = {o}
    /\ o \in Live(diagram) \cap Containers
    /\ diagram.canvasObjects[o].presentation = "container"
    /\ Inside(o) # {}

(* A text that is emptied, or "Delete and Reparent Contents" in that menu. *)
RemoveCanvasObject(o) ==
    /\ (PointerFree /\ o \in Shapes) \/ ContainerMenu(o)
    /\ RemoveMultiple({o})
    /\ UNCHANGED clipboard

RemoveSelected ==
    /\ RemoveMultiple(selectedObjectIds)
    /\ UNCHANGED clipboard

(* "Delete Subtree". *)
RemoveSubtree(o) ==
    /\ ContainerMenu(o)
    /\ RemoveMultiple({o} \cup Inside(o))
    /\ UNCHANGED clipboard

SelectionOf(d, o) ==
    LET g == d.canvasObjects[o].groupId
    IN  IF g \in Groups(d) THEN d.objectGroups[g] ELSE {o}

Select(ids) ==
    /\ selectedObjectIds' = ids
    /\ UNCHANGED <<diagram, historyVars, clipboard, pullConnectState, wireVars>>

SelectObject(o) ==
    /\ PointerFree
    /\ o \in Live(diagram)
    /\ Select(SelectionOf(diagram, o))

ToggleObjectSelection(o) ==
    /\ PointerFree
    /\ o \in Live(diagram)
    /\ Select(IF o \in selectedObjectIds THEN selectedObjectIds \ {o}
                                         ELSE selectedObjectIds \cup {o})

SelectObjectsByRect ==
    /\ PointerFree
    /\ \E ids \in SUBSET Live(diagram) : Select(ids)

SelectAllObjects == Live(diagram) # {} /\ Select(Live(diagram))

ClearSelection == Select({})

GroupSelectedObjects(g) ==
    /\ \E o, p \in selectedObjectIds : o # p
    /\ selectedObjectIds \subseteq Live(diagram)
    /\ g \in FreshGroupIds
    /\ Edit(GroupObjects(diagram, selectedObjectIds, g))
    /\ UNCHANGED <<selectedObjectIds, clipboard, pullConnectState, wireVars>>

Ungroup(g) ==
    /\ g \in Groups(diagram)
    /\ \E o \in selectedObjectIds \cap Live(diagram) : diagram.canvasObjects[o].groupId = g
    /\ Edit(UngroupObjects(diagram, g))
    /\ UNCHANGED <<selectedObjectIds, clipboard, pullConnectState, wireVars>>

UpdateLineAnchors(l, end, target) ==
    /\ PointerFree
    /\ l \in Live(diagram) \cap Lines
    /\ target \in (Live(diagram) \ Lines) \cup {None}
    /\ Edit([diagram EXCEPT !.canvasObjects[l] = [@ EXCEPT ![end] = target]])
    /\ UNCHANGED <<selectedObjectIds, clipboard, pullConnectState, wireVars>>

Undo ==
    /\ History!Undo
    /\ UNCHANGED <<selectedObjectIds, clipboard, pullConnectState, wireVars>>

Redo ==
    /\ History!Redo
    /\ UNCHANGED <<selectedObjectIds, clipboard, pullConnectState, wireVars>>

-----------------------------------------------------------------------------
(* clipboard-slice.  Stale identifiers may be selected: undo brings back    *)
(* diagrams, not selections.                                                *)

SelectedObjects ==
    [o \in ObjectIds |-> IF o \in selectedObjectIds THEN diagram.canvasObjects[o] ELSE None]

CopySelectedObjects ==
    /\ selectedObjectIds # {}
    /\ clipboard' = SelectedObjects
    /\ UNCHANGED <<diagram, historyVars, selectedObjectIds, pullConnectState, wireVars>>

Cut ==
    /\ clipboard' = SelectedObjects
    /\ RemoveMultiple(selectedObjectIds)

PasteObjects ==
    /\ Present(clipboard) # {}
    /\ \E idMap \in Renamings(Present(clipboard)) :
        /\ Edit(CloneObjects(diagram, clipboard, idMap))
        /\ selectedObjectIds' = Range(idMap)
    /\ UNCHANGED <<clipboard, pullConnectState, wireVars>>

DuplicateSelectedObjects ==
    /\ selectedObjectIds # {}
    /\ \E idMap \in Renamings(selectedObjectIds) :
        /\ Edit(CloneObjects(diagram, SelectedObjects, idMap))
        /\ selectedObjectIds' = {idMap[o] : o \in Present(SelectedObjects)}
    /\ UNCHANGED <<clipboard, pullConnectState, wireVars>>

-----------------------------------------------------------------------------
(* Pull-to-connect, connector-slice and the queue of connection checks. *)

BeginPull(o) ==
    /\ PointerFree
    /\ o \in Live(diagram) \ Lines
    /\ pullConnectState' = o
    /\ UNCHANGED <<diagram, historyVars, selectedObjectIds, clipboard, wireVars>>

(* Fault: only connectors in the same direction count. *)
JoinedForward(d, a, b) ==
    \E c \in Drawn(d) : d.connectors[c].sourceId = a /\ d.connectors[c].targetId = b

Joined(d, a, b) ==
    \E c \in Drawn(d) : Ends(d.connectors[c]) = {a, b}

(* What normalizeDiagram sends for connector c. *)
Serialized(d, c) ==
    [connector |-> d.connectors[c],
     valid     |-> ValidReferences(d)]

(* The line is drawn from wherever the pull began, still there or not. *)
DropPull(line, target) ==
    LET source == pullConnectState
        drawn == WithObject(diagram, line,
            [NewObject(line) EXCEPT !.sourceAnchor = source, !.targetAnchor = target])
    IN  /\ ~PointerFree
        /\ line \in FreshObjectIds \cap Lines
        /\ target \in (Live(diagram) \ (Lines \cup {source})) \cup {None}
        /\ selectedObjectIds' = {line}
        /\ pullConnectState' = None
        /\ overtaken' = (overtaken \/ source \notin Live(diagram))
        /\ IF {source, target} \subseteq LiveBlocks(diagram) /\ ~Joined(diagram, source, target)
           THEN \E c \in FreshConnectorIds :
                LET joined == WithConnector(drawn, c, ExplicitConnector(source, target)) IN
                /\ diagram' = joined
                /\ undoStack' = History!Recorded(History!Recorded(undoStack, diagram), drawn)
                /\ redoStack' = <<>> /\ canUndo' = TRUE /\ canRedo' = FALSE
                /\ connectionQueue' = Append(connectionQueue, c)
                /\ sentConnection' = IF connectionQueue = <<>> THEN Serialized(joined, c)
                                                               ELSE sentConnection
           ELSE /\ Edit(drawn)
                /\ UNCHANGED <<connectionQueue, sentConnection>>
        /\ UNCHANGED <<clipboard, pendingContainmentObjectId, containmentRequest>>

(* Fault: one check breaks the chain, and nobody sends the next. *)
NextCheckNeverSent(d) ==
    /\ connectionQueue' = Tail(connectionQueue)
    /\ sentConnection' = None

(* The first check is over: the next one is serialised from the canvas.     *)
NextCheck(d) ==
    /\ connectionQueue' = Tail(connectionQueue)
    /\ sentConnection' = IF Len(connectionQueue) = 1 THEN None
                         ELSE Serialized(d, connectionQueue[2])

Verdict(d) ==
    /\ sentConnection # None
    /\ diagram' = d
    /\ NextCheck(d)
    /\ UNCHANGED <<historyVars, selectedObjectIds, clipboard, pullConnectState,
                   pendingContainmentObjectId, containmentRequest, overtaken>>

(* An error of any kind takes the connector off the canvas, unrecorded. *)
ConnectionRefused ==
    /\ sentConnection # None
    /\ Verdict(WithoutConnector(diagram, Head(connectionQueue)))

(* The canonical direction, if the connector is on the canvas and was when  *)
(* the request was serialised.                                              *)
Canonical(d, c, sent) ==
    IF sent.connector = None \/ c \notin Drawn(d) THEN d
    ELSE LET answer == Directed(sent.connector)
         IN  WithConnector(d, c, [d.connectors[c] EXCEPT
                !.sourceId = answer.sourceId, !.targetId = answer.targetId])

ConnectionAccepted ==
    /\ sentConnection # None
    /\ sentConnection.valid
    /\ Verdict(Canonical(diagram, Head(connectionQueue), sentConnection))

(* The client rejects the promise (a body it cannot parse): nobody looks at *)
(* the result, and the queue goes on.                                       *)
ConnectionThrew == Verdict(diagram)

RemoveConnector(c) ==
    /\ PointerFree
    /\ c \in Drawn(diagram)
    /\ Edit(WithoutConnector(diagram, c))
    /\ UNCHANGED <<selectedObjectIds, clipboard, pullConnectState, wireVars>>

-----------------------------------------------------------------------------
(* semantic-containment-slice. *)

(* What the operation asks for is sent along with the whole diagram. *)
SendContainment(o, object) ==
    /\ PointerFree
    /\ pendingContainmentObjectId = None
    /\ pendingContainmentObjectId' = o
    /\ LET asked == WithObject(diagram, o, object)
       IN  containmentRequest' =
            [sent |-> diagram, asked |-> asked,
             valid |-> ValidReferences(diagram) /\ ValidReferences(asked)]
    /\ UNCHANGED <<diagram, historyVars, selectedObjectIds, clipboard, pullConnectState,
                   connectionQueue, sentConnection, overtaken>>

(* The menu and the drag offer containers the catalog allows, and none that *)
(* is inside the object.                                                    *)
AssignSemanticParent(o, p) ==
    /\ o \in Live(diagram) \ Lines
    /\ p # diagram.canvasObjects[o].parentContainerId
    /\ \/ p = None
       \/ /\ p \in Live(diagram)
          /\ diagram.canvasObjects[p].presentation = "container"
          /\ <<o, p>> \in Placements
          /\ o \notin Ancestors(diagram.canvasObjects, p) \cup {p}
    /\ SendContainment(o, [diagram.canvasObjects[o] EXCEPT !.parentContainerId = p])

(* The menu of a VPC or Subnet block selected on its own: it is shown as a  *)
(* container, or as a node again.                                           *)
SetResourcePresentation(o, presentation) ==
    /\ selectedObjectIds = {o}
    /\ o \in LiveBlocks(diagram) \cap Containers
    /\ presentation # diagram.canvasObjects[o].presentation
    /\ SendContainment(o, [diagram.canvasObjects[o] EXCEPT !.presentation = presentation])

(* The canvas has lost an object the answer speaks of, or has put one the   *)
(* server has not seen into a container.                                    *)
Overtakes(d, sent) ==
    \/ ~ (Live(sent) \subseteq Live(d))
    \/ \E o \in Live(d) \ Live(sent) : d.canvasObjects[o].parentContainerId # None

ContainmentApplied ==
    /\ containmentRequest # None
    /\ containmentRequest.valid
    /\ Edit(CanonicalState(diagram, Normalized(containmentRequest.asked)))
    /\ pendingContainmentObjectId' = None
    /\ containmentRequest' = None
    /\ overtaken' = (overtaken \/ Overtakes(diagram, containmentRequest.sent))
    /\ UNCHANGED <<selectedObjectIds, clipboard, pullConnectState,
                   connectionQueue, sentConnection>>

(* A failed request, or an answer with an error among its issues. *)
ContainmentRefused ==
    /\ containmentRequest # None
    /\ pendingContainmentObjectId' = None
    /\ containmentRequest' = None
    /\ UNCHANGED <<diagram, historyVars, selectedObjectIds, clipboard, pullConnectState,
                   connectionQueue, sentConnection, overtaken>>

(* The client rejects the promise: the code after the await never runs. *)
ContainmentThrew ==
    /\ containmentRequest # None
    /\ containmentRequest' = None
    /\ UNCHANGED <<diagram, historyVars, selectedObjectIds, clipboard, pullConnectState,
                   connectionQueue, sentConnection, pendingContainmentObjectId, overtaken>>

-----------------------------------------------------------------------------
(* serialization-slice and NewDiagramDialog: requests stay on the wire.     *)

ShowDiagram(d) ==
    /\ PointerFree
    /\ diagram' = d
    /\ History!ClearHistory
    /\ selectedObjectIds' = {}
    /\ UNCHANGED <<clipboard, pullConnectState, wireVars>>

LoadDiagramState == \E d \in SavedDiagrams : ShowDiagram(d)

NewDiagram == ShowDiagram(EmptyDiagram)

-----------------------------------------------------------------------------

Create == \E o \in ObjectIds : AddCanvasObject(o)

Remove ==
    \/ \E o \in ObjectIds : RemoveCanvasObject(o)
    \/ RemoveSelected
    \/ \E o \in ObjectIds : RemoveSubtree(o)

SelectSome ==
    \/ \E o \in ObjectIds : SelectObject(o)
    \/ \E o \in ObjectIds : ToggleObjectSelection(o)
    \/ SelectObjectsByRect
    \/ SelectAllObjects
    \/ ClearSelection

Grouping ==
    \/ \E g \in GroupIds : GroupSelectedObjects(g)
    \/ \E g \in GroupIds : Ungroup(g)

Anchor ==
    \E l \in Lines, end \in {"sourceAnchor", "targetAnchor"}, target \in ObjectIds \cup {None} :
        UpdateLineAnchors(l, end, target)

TimeTravel == Undo \/ Redo

Clip == CopySelectedObjects \/ Cut \/ PasteObjects \/ DuplicateSelectedObjects

Connect ==
    \/ \E o \in ObjectIds : BeginPull(o)
    \/ \E l \in Lines, t \in ObjectIds \cup {None} : DropPull(l, t)
    \/ \E c \in AllConnectorIds : RemoveConnector(c)

ConnectionAnswer == ConnectionRefused \/ ConnectionAccepted \/ ConnectionThrew

Contain ==
    \/ \E o \in ObjectIds, p \in Containers \cup {None} : AssignSemanticParent(o, p)
    \/ \E o \in Blocks, presentation \in {"node", "container"} :
        SetResourcePresentation(o, presentation)

ContainmentAnswer == ContainmentApplied \/ ContainmentRefused \/ ContainmentThrew

Switch == LoadDiagramState \/ NewDiagram

Next ==
    \/ Create
    \/ RecordDataEdit
    \/ Remove
    \/ SelectSome
    \/ Grouping
    \/ Anchor
    \/ TimeTravel
    \/ Clip
    \/ Connect
    \/ ConnectionAnswer
    \/ Contain
    \/ ContainmentAnswer
    \/ Switch

Spec == Init /\ [][Next]_vars

(* Nothing the user does is ever due.  An answer is: the browser settles    *)
(* every request, if only with an error.                                    *)
FairSpec == Spec /\ WF_vars(ConnectionAnswer) /\ WF_vars(ContainmentAnswer)

-----------------------------------------------------------------------------

SentConnections ==
    [connector : Connector \cup {None}, valid : BOOLEAN]

ContainmentRequests ==
    [sent : Diagrams, asked : Diagrams, valid : BOOLEAN]

TypeOK ==
    /\ diagram \in Diagrams
    /\ undoStack \in Seq(Diagrams) /\ redoStack \in Seq(Diagrams)
    /\ canUndo \in BOOLEAN /\ canRedo \in BOOLEAN
    /\ selectedObjectIds \subseteq ObjectIds
    /\ clipboard \in [ObjectIds -> CanvasObject \cup {None}]
    /\ pullConnectState \in ObjectIds \cup {None}
    /\ connectionQueue \in Seq(ConnectorIds)
    /\ sentConnection \in SentConnections \cup {None}
    /\ pendingContainmentObjectId \in ObjectIds \cup {None}
    /\ containmentRequest \in ContainmentRequests \cup {None}
    /\ overtaken \in BOOLEAN

(* Visual groups survive everything, late answers included: on the canvas   *)
(* and in every snapshot, groups and members name each other and no group   *)
(* has fewer than two members (grouping, removal, undo, paste, load).       *)
GroupsAlwaysConsistent ==
    \A d \in {diagram} \cup Snapshots : GroupsConsistent(d)

(* The diagram on the canvas and every snapshot undo could restore hold no  *)
(* dangling reference and no containment cycle, unless the canvas was       *)
(* overtaken: a containment answer landed on a canvas that had lost one of  *)
(* its objects or gained one inside a container, or a pull was dropped      *)
(* whose source had been removed.  No other race, and no sequence of edits, *)
(* pastes, undo and loads, breaks a reference.                              *)
WholeUnlessOvertaken ==
    ~overtaken => \A d \in {diagram} \cup Snapshots : Whole(d)

(* No object is inside itself, overtaken or not: an answer rearranges the   *)
(* objects it speaks of all at once, whatever undo, redo and paste have     *)
(* made of the canvas since it was asked for.                               *)
NeverInsideItself ==
    \A d \in {diagram} \cup Snapshots : Acyclic(d.canvasObjects)

(* The two stacks of UndoHistory, with every handler that writes them by    *)
(* hand in place: the flags are honest and no more than MaxHistory deep     *)
(* copies are held.                                                         *)
HistoryHonest == History!FlagsMatchStacks /\ History!HistoryBounded

(* Two blocks are never joined by two drawn connectors, whatever is undone, *)
(* redone or turned around by the backend after it was drawn, unless a      *)
(* diagram was loaded that joins them so: an import may.                    *)
OneConnectorPerPair ==
    \A d \in {diagram} \cup Snapshots : \A c, e \in Drawn(d) :
        JoinTwice(d, c, e) => c = e \/ \E s \in SavedDiagrams : JoinTwice(s, c, e)

(* What is pasted or duplicated is a copy of its own: it refers to nothing  *)
(* but what was copied along, keeps every parent and anchor among that, is  *)
(* in no group, and everything else on the canvas stays as it was.  (On an  *)
(* overtaken canvas a stale identifier may be selected that an object still *)
(* refers to: the duplicate then refers to an identifier nothing has.)      *)
IsCopy(originals, d, new) ==
    \E name \in Bijection(Present(originals), new) :
        \A o \in Present(originals) :
            LET renamed(i) == IF i \in Present(originals) THEN name[i] ELSE None
            IN  d.canvasObjects[name[o]] =
                    [originals[o] EXCEPT
                        !.groupId = None,
                        !.parentContainerId = renamed(@),
                        !.sourceAnchor = renamed(@),
                        !.targetAnchor = renamed(@)]

CopiesStandAlone ==
    [][LET new == Live(diagram') \ Live(diagram)
       IN  new # {} =>
            /\ PasteObjects => IsCopy(clipboard, diagram', new)
            /\ ~overtaken /\ DuplicateSelectedObjects => IsCopy(SelectedObjects, diagram', new)
            /\ PasteObjects \/ DuplicateSelectedObjects =>
                \A o \in Live(diagram) : diagram'.canvasObjects[o] = diagram.canvasObjects[o]]_vars

(* Removing any of the objects, containers in the middle of the hierarchy   *)
(* among them, takes nothing else out of any container: whatever stays is   *)
(* still inside the containers it was inside of, less the removed ones.     *)
RemovalKeepsHierarchy ==
    Whole(diagram) => \A ids \in SUBSET Live(diagram) :
        LET objects == RemoveObjects(diagram, ids).canvasObjects
        IN  \A o \in Present(objects) :
                Ancestors(objects, o) = Ancestors(diagram.canvasObjects, o) \ ids

(* A managed connector says that its target is inside its source.  The     *)
(* backend derives it; the canvas keeps it true through removals, undo and  *)
(* answers to operations sent before they happened (unless overtaken).      *)
ManagedFollowHierarchy ==
    ~overtaken => \A d \in {diagram} \cup Snapshots : ManagedFollow(d)

(* Every connector that is drawn is checked in the end: a refused or a      *)
(* broken check never stops the queue behind it.                            *)
ChecksFinish ==
    \A c \in ConnectorIds :
        c \in Range(connectionQueue) ~> c \notin Range(connectionQueue)

-----------------------------------------------------------------------------
(* What the repository says of the canvas, and does not hold. *)

(* "Detach anchors on lines referencing the deleted object". *)
AnchorsAlwaysAttached == AnchorsAttached(diagram)

(* "Deleting a child removes its [...] derived connectors". *)
ConnectorsAlwaysAttached == ConnectorsAttached(diagram)

(* "The backend is the source of truth for allowed placement". *)
PlacementsAlwaysAllowed == PlacementsAllowed(diagram)

(* "Every method returns an ApiResult" and callers need no try/catch: the   *)
(* guard of the containment operations is let go of in the end.             *)
PendingSettles ==
    pendingContainmentObjectId # None ~> pendingContainmentObjectId = None

=============================================================================
