------------------------ MODULE DiagramEditor_proofs ------------------------
(***************************************************************************)
(* Proofs about the whole next-state relation of DiagramEditor, for every  *)
(* set of identifiers, every limit and all diagrams a server may hold.     *)
(***************************************************************************)
EXTENDS DiagramEditor, DiagramGraph_proofs

(* The undo history on its own, and what is proved about it. *)
Past == INSTANCE UndoHistory_proofs

(* Diagrams with consistent groups and without cycles. *)
Sound == {d \in Diagrams : GroupsConsistent(d) /\ Acyclic(d.canvasObjects)}

(* Sound diagrams whose references all lead somewhere. *)
Intact == {d \in Sound : Tied(d)}

(* A sound diagram is shown, and nothing else can be restored. *)
Canvas ==
    /\ diagram \in Sound
    /\ undoStack \in Seq(Sound) /\ redoStack \in Seq(Sound)
    /\ canUndo \in BOOLEAN /\ canRedo \in BOOLEAN

(* What the user holds: the hierarchy of the copied objects has no cycle. *)
Hand ==
    /\ selectedObjectIds \subseteq ObjectIds
    /\ clipboard \in [ObjectIds -> CanvasObject \cup {None}] /\ Acyclic(clipboard)
    /\ pullConnectState \in ObjectIds \cup {None}

(* What is under way: a request is sent for the first connector of a queue  *)
(* that is not empty, and what a valid containment request asks for is a    *)
(* hierarchy of containers.                                                 *)
Wire ==
    /\ connectionQueue \in Seq(ConnectorIds)
    /\ sentConnection \in SentConnections \cup {None}
    /\ sentConnection # None => connectionQueue # <<>>
    /\ pendingContainmentObjectId \in ObjectIds \cup {None}
    /\ containmentRequest \in ContainmentRequests \cup {None}
    /\ containmentRequest # None /\ containmentRequest.valid =>
        /\ Acyclic(containmentRequest.asked.canvasObjects)
        /\ ParentsHold(containmentRequest.asked)
    /\ overtaken \in BOOLEAN

EditorInv == Canvas /\ Hand /\ Wire

-----------------------------------------------------------------------------
(* Every operation on diagrams makes a sound diagram of a sound one. *)

(* A new diagram is sound. *)
LEMMA SoundEmpty == EmptyDiagram \in Sound
BY EmptyDiagramType, EmptyGroups, EmptyAcyclic DEF Sound, EmptyDiagram

(* Creating an object keeps a diagram sound. *)
LEMMA SoundFresh ==
    ASSUME NEW d \in Sound, NEW o \in ObjectIds \ Live(d), NEW object \in CanvasObject,
           object.groupId = None, object.parentContainerId = None
    PROVE  WithObject(d, o, object) \in Sound
BY WithObjectType, FreshObjectGroups, FreshObjectAcyclic DEF Sound

(* A diagram stays sound whatever its connectors become. *)
LEMMA SoundConnectors ==
    ASSUME NEW d \in Sound, NEW e \in Diagrams,
           e.canvasObjects = d.canvasObjects, e.objectGroups = d.objectGroups
    PROVE  e \in Sound
BY ConnectorGroups DEF Sound

(* Drawing a connector keeps a diagram sound. *)
LEMMA SoundWithConnector ==
    ASSUME NEW d \in Sound, NEW c \in AllConnectorIds, NEW connector \in Connector
    PROVE  WithConnector(d, c, connector) \in Sound
<1>1. d \in Diagrams
    BY DEF Sound
<1>2. /\ WithConnector(d, c, connector).canvasObjects = d.canvasObjects
      /\ WithConnector(d, c, connector).objectGroups = d.objectGroups
    BY <1>1 DEF WithConnector, Diagrams
<1>. QED  BY <1>1, <1>2, WithConnectorType, SoundConnectors

(* Taking a connector away keeps a diagram sound. *)
LEMMA SoundWithoutConnector ==
    ASSUME NEW d \in Sound, NEW c
    PROVE  WithoutConnector(d, c) \in Sound
<1>1. d \in Diagrams
    BY DEF Sound
<1>2. /\ WithoutConnector(d, c).canvasObjects = d.canvasObjects
      /\ WithoutConnector(d, c).objectGroups = d.objectGroups
    BY <1>1 DEF WithoutConnector, Diagrams
<1>. QED  BY <1>1, <1>2, WithoutConnectorType, SoundConnectors

(* Removal keeps a diagram sound. *)
LEMMA SoundRemove ==
    ASSUME NEW d \in Sound, NEW ids
    PROVE  RemoveObjects(d, ids) \in Sound
BY RemoveObjectsType, RemoveObjectsGroups, RemoveObjectsAcyclic DEF Sound

(* Grouping keeps a diagram sound. *)
LEMMA SoundGroup ==
    ASSUME NEW d \in Sound, NEW ids \in SUBSET Live(d), NEW g \in GroupIds \ Groups(d),
           \E o, p \in ids : o # p
    PROVE  GroupObjects(d, ids, g) \in Sound
<1>1. d \in Diagrams /\ ids \in SUBSET ObjectIds
    BY DiagramParts DEF Sound
<1>. QED  BY <1>1, GroupObjectsType, GroupObjectsGroups, GroupObjectsAcyclic DEF Sound

(* Ungrouping keeps a diagram sound. *)
LEMMA SoundUngroup ==
    ASSUME NEW d \in Sound, NEW g \in Groups(d)
    PROVE  UngroupObjects(d, g) \in Sound
<1>1. g \in GroupIds
    BY DEF Groups
<1>. QED  BY <1>1, UngroupObjectsType, UngroupObjectsGroups, UngroupObjectsAcyclic DEF Sound

(* Attaching or detaching a line keeps a diagram sound. *)
LEMMA SoundAnchor ==
    ASSUME NEW d \in Sound, NEW l \in Live(d), NEW end \in {"sourceAnchor", "targetAnchor"},
           NEW target \in ObjectIds \cup {None}
    PROVE  [d EXCEPT !.canvasObjects[l] = [@ EXCEPT ![end] = target]] \in Sound
<1> DEFINE e == [d EXCEPT !.canvasObjects[l] = [@ EXCEPT ![end] = target]]
           object == d.canvasObjects[l]
           anchored == [object EXCEPT ![end] = target]
<1>1. d \in Diagrams /\ l \in ObjectIds /\ object \in CanvasObject
    BY DiagramParts DEF Sound
<1>2. /\ anchored \in CanvasObject
      /\ anchored.groupId = object.groupId
      /\ anchored.parentContainerId = object.parentContainerId
    <2>1. CASE end = "sourceAnchor"
        <3> HIDE DEF object
        <3>. QED  BY <1>1, <2>1 DEF CanvasObject
    <2>2. CASE end = "targetAnchor"
        <3> HIDE DEF object
        <3>. QED  BY <1>1, <2>2 DEF CanvasObject
    <2>. QED  BY <2>1, <2>2
<1>3. e = WithObject(d, l, anchored)
    BY <1>1 DEF WithObject, Diagrams
<1>4. e \in Diagrams
    <2> HIDE DEF e, anchored
    <2>. QED  BY <1>1, <1>2, <1>3, WithObjectType
<1>5. e.objectGroups = d.objectGroups /\ e.canvasObjects = [d.canvasObjects EXCEPT ![l] = anchored]
    <2> HIDE DEF e, anchored
    <2>. QED  BY <1>1, <1>3 DEF WithObject, Diagrams
<1>6. /\ Live(e) = Live(d)
      /\ \A o \in Live(d) :
            /\ e.canvasObjects[o].groupId = d.canvasObjects[o].groupId
            /\ e.canvasObjects[o].parentContainerId = d.canvasObjects[o].parentContainerId
    <2> HIDE DEF e, anchored
    <2>. QED  BY <1>1, <1>2, <1>5, DiagramParts, NoneAssumption DEF Live, Present
<1>7. GroupsConsistent(e)
    <2> HIDE DEF e
    <2>. QED  BY <1>1, <1>4, <1>5, <1>6, GroupsUntouched DEF Sound
<1>8. Acyclic(e.canvasObjects)
    <2> HIDE DEF e
    <2>. QED  BY <1>4, <1>6, DiagramParts, ParentsUntouched DEF Sound, Live
<1>. QED  BY <1>4, <1>7, <1>8 DEF Sound

(* Pasting a sound clipboard keeps a diagram sound. *)
LEMMA SoundClone ==
    ASSUME NEW d \in Sound, NEW originals \in [ObjectIds -> CanvasObject \cup {None}],
           Acyclic(originals), NEW ids \in SUBSET ObjectIds, Present(originals) \subseteq ids,
           NEW idMap \in Injection(ids, ObjectIds \ Mentioned(d))
    PROVE  CloneObjects(d, originals, idMap) \in Sound
<1>1. /\ DOMAIN idMap = ids
      /\ \A o \in DOMAIN idMap : idMap[o] \in ObjectIds \ Mentioned(d)
      /\ \A o, p \in DOMAIN idMap : idMap[o] = idMap[p] => o = p
    BY DEF Injection, IsInjective
<1>2. Live(d) \subseteq Mentioned(d)
    BY DEF Mentioned
<1>3. d \in Diagrams /\ GroupsConsistent(d) /\ Acyclic(d.canvasObjects)
    BY DEF Sound
<1>4. \A o \in DOMAIN idMap : idMap[o] \in ObjectIds \ Live(d)
    BY <1>1, <1>2
<1>5. CloneObjects(d, originals, idMap) \in Diagrams
    BY <1>3, <1>4, CloneObjectsFacts
<1>6. GroupsConsistent(CloneObjects(d, originals, idMap))
    BY <1>3, <1>4, CloneObjectsGroups
<1>7. Acyclic(CloneObjects(d, originals, idMap).canvasObjects)
    BY <1>1, <1>3, CloneObjectsAcyclic
<1>. QED  BY <1>5, <1>6, <1>7 DEF Sound

(* A containment answer keeps a diagram sound, however old it is. *)
LEMMA SoundAnswer ==
    ASSUME NEW d \in Sound, NEW asked \in Diagrams,
           Acyclic(asked.canvasObjects), ParentsHold(asked)
    PROVE  CanonicalState(d, Normalized(asked)) \in Sound
<1> DEFINE answer == Normalized(asked)
<1>1. answer \in Diagrams
    BY NormalizedType
<1>2. answer.canvasObjects = asked.canvasObjects
    BY DEF Normalized, Diagrams
<1>3. Acyclic(answer.canvasObjects) /\ ParentsHold(answer)
    BY <1>2 DEF ParentsHold, Live
<1> HIDE DEF answer
<1>4. CanonicalState(d, answer) \in Sound
    BY <1>1, <1>3, CanonicalStateFacts, CanonicalStateGroups, CanonicalStateAcyclic DEF Sound
<1>. QED  BY <1>4 DEF answer

-----------------------------------------------------------------------------
(* The stacks of the history, whatever they hold. *)

(* A part of a stack of sound diagrams is one. *)
LEMMA PartOfStack ==
    ASSUME NEW S, NEW stack \in Seq(S),
           NEW m \in Nat \ {0}, NEW n \in Nat, n <= Len(stack), m <= n + 1
    PROVE  SubSeq(stack, m, n) \in Seq(S)
OBVIOUS

(* pushHistory puts sound diagrams on the undo stack and nothing else. *)
LEMMA RecordedType ==
    ASSUME NEW S, NEW stack \in Seq(S), NEW snapshot \in S
    PROVE  History!Recorded(stack, snapshot) \in Seq(S)
<1> USE MaxHistoryAssumption
<1> DEFINE longer == Append(stack, snapshot)
           first == Len(longer) - MaxHistory + 1
<1>1. longer \in Seq(S) /\ Len(longer) \in Nat
    OBVIOUS
<1>2. CASE Len(longer) > MaxHistory
    <2>1. first \in Nat \ {0} /\ first <= Len(longer) + 1
        BY <1>1, <1>2
    <2>2. SubSeq(longer, first, Len(longer)) \in Seq(S)
        <3> HIDE DEF longer, first
        <3>. QED  BY <1>1, <2>1, PartOfStack
    <2>3. History!Recorded(stack, snapshot) = SubSeq(longer, first, Len(longer))
        BY <1>2 DEF History!Recorded
    <2> HIDE DEF longer, first
    <2>. QED  BY <2>2, <2>3
<1>3. CASE ~(Len(longer) > MaxHistory)
    <2>1. History!Recorded(stack, snapshot) = longer
        BY <1>3 DEF History!Recorded
    <2>. QED  BY <1>1, <2>1
<1>. QED  BY <1>2, <1>3

(* undo and redo take from a stack only what was on it. *)
LEMMA PoppedType ==
    ASSUME NEW S, NEW stack \in Seq(S), stack # <<>>
    PROVE  History!Popped(stack) \in Seq(S) /\ History!Top(stack) \in S
<1> DEFINE last == Len(stack) - 1
<1>1. Len(stack) \in Nat \ {0}
    OBVIOUS
<1>2. History!Top(stack) \in S
    BY <1>1 DEF History!Top
<1>3. last \in Nat /\ last <= Len(stack) /\ 1 <= last + 1
    BY <1>1
<1>4. History!Popped(stack) \in Seq(S)
    <2>1. History!Popped(stack) = SubSeq(stack, 1, last)
        BY DEF History!Popped
    <2> HIDE DEF last
    <2>. QED  BY <1>3, <2>1, PartOfStack
<1>. QED  BY <1>2, <1>4

(* All that is shown or can be restored is in S. *)
Held(S) == diagram \in S /\ undoStack \in Seq(S) /\ redoStack \in Seq(S)

(* An edit that makes a member of S keeps all that is held in S. *)
LEMMA HeldEdit ==
    ASSUME NEW S, Held(S), NEW changed \in S, Edit(changed)
    PROVE  Held(S)'
<1>1. diagram' = changed /\ History!PushHistory
    BY DEF Edit
<1>. QED  BY <1>1, RecordedType DEF Held, History!PushHistory

(* undo and redo show what was held, and hold what was shown. *)
LEMMA HeldUndo ==
    ASSUME NEW S, Held(S), History!Undo \/ History!Redo
    PROVE  Held(S)'
<1>1. CASE History!Undo
    <2>1. History!Popped(undoStack) \in Seq(S) /\ History!Top(undoStack) \in S
        BY <1>1, PoppedType DEF Held, History!Undo
    <2>. QED  BY <1>1, <2>1 DEF Held, History!Undo
<1>2. CASE History!Redo
    <2>1. History!Popped(redoStack) \in Seq(S) /\ History!Top(redoStack) \in S
        BY <1>2, PoppedType DEF Held, History!Redo
    <2>. QED  BY <1>2, <2>1 DEF Held, History!Redo
<1>. QED  BY <1>1, <1>2

(* The shown diagram may change without the history. *)
LEMMA HeldSilent ==
    ASSUME NEW S, Held(S), diagram' \in S, UNCHANGED historyVars
    PROVE  Held(S)'
BY DEF Held, historyVars

(* A switch to another diagram holds nothing else. *)
LEMMA HeldClear ==
    ASSUME NEW S, diagram' \in S, History!ClearHistory
    PROVE  Held(S)'
BY DEF Held, History!ClearHistory

(* A drop that connects records what was shown and the line alone. *)
LEMMA HeldTwice ==
    ASSUME NEW S, Held(S), NEW drawn \in S, diagram' \in S,
           undoStack' = History!Recorded(History!Recorded(undoStack, diagram), drawn),
           redoStack' = <<>>
    PROVE  Held(S)'
<1>1. History!Recorded(undoStack, diagram) \in Seq(S)
    BY RecordedType DEF Held
<1>2. undoStack' \in Seq(S)
    BY <1>1, RecordedType
<1>. QED  BY <1>2 DEF Held

(* An edit that makes a sound diagram keeps the canvas sound. *)
LEMMA EditCanvas ==
    ASSUME Canvas, NEW changed \in Sound, Edit(changed)
    PROVE  Canvas'
<1>1. Held(Sound)
    BY DEF Canvas, Held
<1>2. Held(Sound)'
    BY <1>1, HeldEdit
<1>3. canUndo' \in BOOLEAN /\ canRedo' \in BOOLEAN
    BY Zenon DEF Edit, History!PushHistory
<1>. QED  BY <1>2, <1>3 DEF Canvas, Held

(* undo and redo show a sound diagram and keep the stacks sound. *)
LEMMA UndoCanvas ==
    ASSUME Canvas, History!Undo \/ History!Redo
    PROVE  Canvas'
<1>1. Held(Sound)
    BY DEF Canvas, Held
<1>2. Held(Sound)'
    BY <1>1, HeldUndo
<1>3. canUndo' \in BOOLEAN /\ canRedo' \in BOOLEAN
    <2>1. (Len(undoStack') > 0) \in BOOLEAN /\ (Len(redoStack') > 0) \in BOOLEAN
        OBVIOUS
    <2>. QED  BY <2>1, Zenon DEF History!Undo, History!Redo
<1>. QED  BY <1>2, <1>3 DEF Canvas, Held

(* A diagram changed behind the history's back, as by a connection check. *)
LEMMA SilentCanvas ==
    ASSUME Canvas, diagram' \in Sound, UNCHANGED historyVars
    PROVE  Canvas'
<1>1. Held(Sound)
    BY DEF Canvas, Held
<1>2. Held(Sound)'
    BY <1>1, HeldSilent
<1>3. canUndo' \in BOOLEAN /\ canRedo' \in BOOLEAN
    BY Zenon DEF Canvas, historyVars
<1>. QED  BY <1>2, <1>3 DEF Canvas, Held

(* Loading or starting a sound diagram forgets both stacks. *)
LEMMA ClearCanvas ==
    ASSUME diagram' \in Sound, History!ClearHistory
    PROVE  Canvas'
<1>1. Held(Sound)'
    BY HeldClear
<1>2. canUndo' \in BOOLEAN /\ canRedo' \in BOOLEAN
    BY Zenon DEF History!ClearHistory
<1>. QED  BY <1>1, <1>2 DEF Canvas, Held

(* Identifiers that are drawn anew are not on the canvas. *)
LEMMA FreshIds ==
    /\ FreshObjectIds \subseteq ObjectIds \ Mentioned(diagram)
    /\ FreshObjectIds \subseteq ObjectIds \ Live(diagram)
    /\ FreshGroupIds \subseteq GroupIds \ Groups(diagram)
    /\ FreshConnectorIds \subseteq ConnectorIds
<1>1. diagram \in Known
    BY DEF Known
<1>2. Live(diagram) \subseteq Mentioned(diagram)
    BY DEF Mentioned
<1>. QED  BY <1>1, <1>2 DEF FreshObjectIds, FreshGroupIds, FreshConnectorIds

-----------------------------------------------------------------------------
(* One lemma per kind of action: the canvas, the hand and the wire after it. *)

(* A step that sends and answers nothing keeps what is on the wire. *)
LEMMA WireUnchanged ==
    ASSUME Wire, UNCHANGED wireVars
    PROVE  Wire'
BY Zenon DEF Wire, wireVars

(* A step that leaves selection, clipboard and gesture alone keeps them. *)
LEMMA HandUnchanged ==
    ASSUME Hand, UNCHANGED <<selectedObjectIds, clipboard, pullConnectState>>
    PROVE  Hand'
BY DEF Hand

(* addCanvasObject preserves the invariant. *)
LEMMA CreateStep ==
    ASSUME EditorInv, Create
    PROVE  EditorInv'
<1>1. PICK o \in ObjectIds : AddCanvasObject(o)
    BY DEF Create
<1>2. WithObject(diagram, o, NewObject(o)) \in Sound
    <2>1. o \in ObjectIds \ Live(diagram)
        BY <1>1, FreshIds DEF AddCanvasObject
    <2>2. NewObject(o).groupId = None /\ NewObject(o).parentContainerId = None
        BY DEF NewObject
    <2>. QED  BY <2>1, <2>2, NewObjectType, SoundFresh DEF EditorInv, Canvas
<1>3. Canvas'
    BY <1>1, <1>2, EditCanvas DEF AddCanvasObject, EditorInv
<1>. QED  BY <1>1, <1>3, HandUnchanged, WireUnchanged DEF AddCanvasObject, EditorInv

(* An edit of an object's data preserves the invariant. *)
LEMMA RecordDataEditStep ==
    ASSUME EditorInv, RecordDataEdit
    PROVE  EditorInv'
<1>1. Canvas'
    BY EditCanvas DEF RecordDataEdit, EditorInv, Canvas
<1>. QED  BY <1>1, HandUnchanged, WireUnchanged DEF RecordDataEdit, EditorInv

(* Removal, wherever it comes from, leaves the clipboard to its caller. *)
LEMMA RemoveMultipleStep ==
    ASSUME EditorInv, NEW ids, RemoveMultiple(ids),
           clipboard' \in [ObjectIds -> CanvasObject \cup {None}], Acyclic(clipboard')
    PROVE  EditorInv'
<1>1. Canvas'
    BY SoundRemove, EditCanvas DEF RemoveMultiple, EditorInv, Canvas
<1>2. Hand'
    BY DEF RemoveMultiple, EditorInv, Hand
<1>3. Wire'
    BY WireUnchanged DEF RemoveMultiple, EditorInv
<1>. QED  BY <1>1, <1>2, <1>3 DEF EditorInv

(* Removal, from the keyboard or the menu, preserves the invariant. *)
LEMMA RemoveStep ==
    ASSUME EditorInv, Remove
    PROVE  EditorInv'
<1>1. PICK ids : RemoveMultiple(ids) /\ UNCHANGED clipboard
    BY DEF Remove, RemoveCanvasObject, RemoveSelected, RemoveSubtree
<1>. QED  BY <1>1, RemoveMultipleStep DEF EditorInv, Hand

(* Selecting preserves the invariant. *)
LEMMA SelectSomeStep ==
    ASSUME EditorInv, SelectSome
    PROVE  EditorInv'
<1>1. diagram \in Diagrams /\ Live(diagram) \subseteq ObjectIds
    BY DiagramParts DEF EditorInv, Canvas, Sound
<1>2. PICK ids \in SUBSET ObjectIds : Select(ids)
    <2>1. CASE \E o \in ObjectIds : SelectObject(o)
        BY <1>1, <2>1, DiagramParts DEF SelectObject, SelectionOf
    <2>2. CASE \E o \in ObjectIds : ToggleObjectSelection(o)
        BY <2>2 DEF ToggleObjectSelection, EditorInv, Hand
    <2>3. CASE SelectObjectsByRect
        BY <1>1, <2>3 DEF SelectObjectsByRect
    <2>4. CASE SelectAllObjects
        BY <1>1, <2>4 DEF SelectAllObjects
    <2>5. CASE ClearSelection
        BY <2>5 DEF ClearSelection
    <2>. QED  BY <2>1, <2>2, <2>3, <2>4, <2>5 DEF SelectSome
<1>3. Canvas'
    BY <1>2, SilentCanvas DEF Select, EditorInv, Canvas
<1>4. Hand'
    BY <1>2 DEF Select, EditorInv, Hand
<1>5. Wire'
    BY <1>2, WireUnchanged DEF Select, EditorInv
<1>. QED  BY <1>3, <1>4, <1>5 DEF EditorInv

(* Grouping and ungrouping preserve the invariant. *)
LEMMA GroupingStep ==
    ASSUME EditorInv, Grouping
    PROVE  EditorInv'
<1>1. PICK changed \in Sound :
        Edit(changed) /\ UNCHANGED <<selectedObjectIds, clipboard, pullConnectState, wireVars>>
    <2>1. CASE \E g \in GroupIds : GroupSelectedObjects(g)
        <3>1. PICK g \in GroupIds : GroupSelectedObjects(g)
            BY <2>1
        <3>2. g \in GroupIds \ Groups(diagram) /\ selectedObjectIds \in SUBSET Live(diagram)
              /\ \E o, p \in selectedObjectIds : o # p
            BY <3>1, FreshIds DEF GroupSelectedObjects
        <3>3. GroupObjects(diagram, selectedObjectIds, g) \in Sound
            BY <3>2, SoundGroup DEF EditorInv, Canvas
        <3>. QED  BY <3>1, <3>3 DEF GroupSelectedObjects
    <2>2. CASE \E g \in GroupIds : Ungroup(g)
        BY <2>2, SoundUngroup DEF Ungroup, EditorInv, Canvas
    <2>. QED  BY <2>1, <2>2 DEF Grouping
<1>2. Canvas'
    BY <1>1, EditCanvas DEF EditorInv
<1>. QED  BY <1>1, <1>2, HandUnchanged, WireUnchanged DEF EditorInv

(* updateLineAnchors preserves the invariant. *)
LEMMA AnchorStep ==
    ASSUME EditorInv, Anchor
    PROVE  EditorInv'
<1>1. PICK l \in Lines, end \in {"sourceAnchor", "targetAnchor"}, target \in ObjectIds \cup {None} :
        UpdateLineAnchors(l, end, target)
    BY DEF Anchor
<1>2. [diagram EXCEPT !.canvasObjects[l] = [@ EXCEPT ![end] = target]] \in Sound
    BY <1>1, SoundAnchor DEF UpdateLineAnchors, EditorInv, Canvas
<1>3. Canvas'
    BY <1>1, <1>2, EditCanvas DEF UpdateLineAnchors, EditorInv
<1>. QED  BY <1>1, <1>3, HandUnchanged, WireUnchanged DEF UpdateLineAnchors, EditorInv

(* undo and redo preserve the invariant. *)
LEMMA TimeTravelStep ==
    ASSUME EditorInv, TimeTravel
    PROVE  EditorInv'
<1>1. (History!Undo \/ History!Redo)
      /\ UNCHANGED <<selectedObjectIds, clipboard, pullConnectState, wireVars>>
    BY DEF TimeTravel, Undo, Redo
<1>2. Canvas'
    BY <1>1, UndoCanvas DEF EditorInv
<1>. QED  BY <1>1, <1>2, HandUnchanged, WireUnchanged DEF EditorInv

(* The copied objects are a part of the canvas. *)
LEMMA SelectedObjectsFacts ==
    ASSUME EditorInv
    PROVE  /\ SelectedObjects \in [ObjectIds -> CanvasObject \cup {None}]
           /\ Acyclic(SelectedObjects)
           /\ Present(SelectedObjects) \subseteq selectedObjectIds
<1>1. diagram.canvasObjects \in [ObjectIds -> CanvasObject \cup {None}] /\ Acyclic(diagram.canvasObjects)
    BY DiagramParts DEF EditorInv, Canvas, Sound
<1>2. Acyclic(SelectedObjects)
    BY <1>1, PartAcyclic DEF SelectedObjects
<1>3. Present(SelectedObjects) \subseteq selectedObjectIds
    BY DEF SelectedObjects, Present
<1>4. SelectedObjects \in [ObjectIds -> CanvasObject \cup {None}]
    BY <1>1 DEF SelectedObjects
<1>. QED  BY <1>2, <1>3, <1>4

(* Copying, cutting, pasting and duplicating preserve the invariant. *)
LEMMA ClipStep ==
    ASSUME EditorInv, Clip
    PROVE  EditorInv'
<1>1. CASE CopySelectedObjects
    <2>1. Canvas'
        BY <1>1, SilentCanvas DEF CopySelectedObjects, EditorInv, Canvas
    <2>2. Hand'
        BY <1>1, SelectedObjectsFacts DEF CopySelectedObjects, EditorInv, Hand
    <2>. QED  BY <1>1, <2>1, <2>2, WireUnchanged DEF CopySelectedObjects, EditorInv
<1>2. CASE Cut
    BY <1>2, SelectedObjectsFacts, RemoveMultipleStep DEF Cut
<1>3. CASE PasteObjects
    <2>1. PICK idMap \in Renamings(Present(clipboard)) :
            /\ Edit(CloneObjects(diagram, clipboard, idMap))
            /\ selectedObjectIds' = Range(idMap)
        BY <1>3 DEF PasteObjects
    <2>2. Present(clipboard) \in SUBSET ObjectIds
        BY DEF EditorInv, Hand, Present
    <2>3. idMap \in Injection(Present(clipboard), ObjectIds \ Mentioned(diagram))
        BY FreshIds DEF Renamings, Injection
    <2>4. Canvas'
        BY <2>1, <2>2, <2>3, SoundClone, EditCanvas DEF EditorInv, Hand, Canvas
    <2>5. Range(idMap) \subseteq ObjectIds
        BY <2>3 DEF Injection, Range
    <2>6. Hand'
        BY <1>3, <2>1, <2>5 DEF PasteObjects, EditorInv, Hand
    <2>. QED  BY <1>3, <2>4, <2>6, WireUnchanged DEF PasteObjects, EditorInv
<1>4. CASE DuplicateSelectedObjects
    <2>1. PICK idMap \in Renamings(selectedObjectIds) :
            /\ Edit(CloneObjects(diagram, SelectedObjects, idMap))
            /\ selectedObjectIds' = {idMap[o] : o \in Present(SelectedObjects)}
        BY <1>4 DEF DuplicateSelectedObjects
    <2>2. idMap \in Injection(selectedObjectIds, ObjectIds \ Mentioned(diagram))
        BY FreshIds DEF Renamings, Injection
    <2>3. Canvas'
        BY <2>1, <2>2, SelectedObjectsFacts, SoundClone, EditCanvas DEF EditorInv, Hand, Canvas
    <2>4. {idMap[o] : o \in Present(SelectedObjects)} \subseteq ObjectIds
        BY <2>2, SelectedObjectsFacts DEF Injection
    <2>5. Hand'
        BY <1>4, <2>1, <2>4 DEF DuplicateSelectedObjects, EditorInv, Hand
    <2>. QED  BY <1>4, <2>3, <2>5, WireUnchanged DEF DuplicateSelectedObjects, EditorInv
<1>. QED  BY <1>1, <1>2, <1>3, <1>4 DEF Clip

(* What is sent for a connector, here or no more. *)
LEMMA SerializedType ==
    ASSUME NEW d \in Diagrams, NEW c \in ConnectorIds
    PROVE  Serialized(d, c) \in SentConnections
<1>1. d.connectors[c] \in Connector \cup {None}
    BY DiagramParts DEF AllConnectorIds
<1>2. ValidReferences(d) \in BOOLEAN
    BY Zenon DEF ValidReferences
<1>. QED  BY <1>1, <1>2 DEF Serialized, SentConnections

(* What waits behind the first check is a queue of checks. *)
LEMMA RestOfQueue ==
    ASSUME NEW S, NEW queue \in Seq(S), queue # <<>>, Len(queue) # 1
    PROVE  queue[2] \in S /\ Tail(queue) # <<>>
<1>1. Len(queue) \in Nat \ {0}
    OBVIOUS
<1>2. Len(queue) \in Nat /\ Len(queue) >= 2
    <2> DEFINE n == Len(queue)
    <2>1. n \in Nat /\ n # 0 /\ n # 1
        BY <1>1
    <2> HIDE DEF n
    <2>2. n >= 2
        BY <2>1
    <2>. QED  BY <2>1, <2>2 DEF n
<1>3. queue[2] \in S
    BY <1>2
<1>4. Len(Tail(queue)) = Len(queue) - 1
    OBVIOUS
<1>5. Len(<<>>) = 0
    OBVIOUS
<1>. QED  BY <1>2, <1>3, <1>4, <1>5

(* The queue goes on to its next connector, if there is one. *)
LEMMA NextCheckWire ==
    ASSUME Wire, sentConnection # None, NEW d \in Diagrams, NextCheck(d)
    PROVE  /\ connectionQueue' \in Seq(ConnectorIds)
           /\ sentConnection' \in SentConnections \cup {None}
           /\ sentConnection' # None => connectionQueue' # <<>>
<1>1. connectionQueue \in Seq(ConnectorIds) /\ connectionQueue # <<>>
    BY DEF Wire
<1>2. connectionQueue' = Tail(connectionQueue) /\ connectionQueue' \in Seq(ConnectorIds)
    BY <1>1 DEF NextCheck
<1>3. CASE Len(connectionQueue) = 1
    BY <1>2, <1>3 DEF NextCheck
<1>4. CASE Len(connectionQueue) # 1
    <2>1. connectionQueue[2] \in ConnectorIds /\ connectionQueue' # <<>>
        BY <1>1, <1>2, <1>4, RestOfQueue
    <2>2. sentConnection' = Serialized(d, connectionQueue[2])
        BY <1>4 DEF NextCheck
    <2>3. sentConnection' \in SentConnections
        BY <2>1, <2>2, SerializedType
    <2>. QED  BY <1>2, <2>1, <2>3
<1>. QED  BY <1>3, <1>4

(* The line drawn by a pull keeps the diagram sound. *)
LEMMA DrawnLine ==
    ASSUME EditorInv, NEW line \in Lines, NEW target \in ObjectIds \cup {None},
           DropPull(line, target)
    PROVE  WithObject(diagram, line,
            [NewObject(line) EXCEPT !.sourceAnchor = pullConnectState, !.targetAnchor = target])
                \in Sound
<1> DEFINE object == [NewObject(line) EXCEPT !.sourceAnchor = pullConnectState,
                                             !.targetAnchor = target]
<1>1. line \in ObjectIds \ Live(diagram)
    BY FreshIds DEF DropPull
<1>2. /\ object \in CanvasObject
      /\ object.groupId = None /\ object.parentContainerId = None
    BY DEF NewObject, CanvasObject, EditorInv, Hand
<1> HIDE DEF object
<1>3. WithObject(diagram, line, object) \in Sound
    BY <1>1, <1>2, SoundFresh DEF EditorInv, Canvas
<1>. QED  BY <1>3 DEF object

(* handleMouseUp, with its two recordings, preserves the invariant. *)
LEMMA DropPullStep ==
    ASSUME EditorInv, NEW line \in Lines, NEW target \in ObjectIds \cup {None},
           DropPull(line, target)
    PROVE  EditorInv'
<1> DEFINE source == pullConnectState
           object == [NewObject(line) EXCEPT !.sourceAnchor = source, !.targetAnchor = target]
           drawn == WithObject(diagram, line, object)
           joins == {source, target} \subseteq LiveBlocks(diagram) /\ ~Joined(diagram, source, target)
<1>1. diagram \in Sound
    BY DEF EditorInv, Canvas
<1>2. drawn \in Sound
    BY DrawnLine
<1>3. Hand'
    <2>1. line \in ObjectIds
        BY DEF ObjectIds
    <2>. QED  BY <2>1 DEF DropPull, EditorInv, Hand
<1>4. overtaken' \in BOOLEAN
    <2>1. overtaken' = (overtaken \/ source \notin Live(diagram))
        BY Zenon DEF DropPull
    <2>2. (overtaken \/ source \notin Live(diagram)) \in BOOLEAN
        OBVIOUS
    <2>. QED  BY <2>1, <2>2, Zenon
<1>5. UNCHANGED <<pendingContainmentObjectId, containmentRequest>>
    BY DEF DropPull
<1>6. CASE joins
    <2> DEFINE joined(c) == WithConnector(drawn, c, ExplicitConnector(source, target))
    <2>1. PICK c \in FreshConnectorIds :
            /\ diagram' = joined(c)
            /\ undoStack' = History!Recorded(History!Recorded(undoStack, diagram), drawn)
            /\ redoStack' = <<>> /\ canUndo' = TRUE /\ canRedo' = FALSE
            /\ connectionQueue' = Append(connectionQueue, c)
            /\ sentConnection' = IF connectionQueue = <<>> THEN Serialized(joined(c), c)
                                                           ELSE sentConnection
        BY <1>6, Zenon DEF DropPull
    <2>2. c \in ConnectorIds /\ c \in AllConnectorIds
        BY FreshIds DEF AllConnectorIds
    <2>3. ExplicitConnector(source, target) \in Connector
        BY <1>6 DEF ExplicitConnector, Connector, LiveBlocks
    <2>4. joined(c) \in Sound
        <3> HIDE DEF drawn
        <3>. QED  BY <1>2, <2>2, <2>3, SoundWithConnector
    <2>5. Canvas'
        <3>1. Held(Sound)
            BY DEF EditorInv, Canvas, Held
        <3>2. diagram' \in Sound
            <4> HIDE DEF joined
            <4>. QED  BY <2>1, <2>4
        <3>3. Held(Sound)'
            <4> HIDE DEF drawn
            <4>. QED  BY <1>2, <2>1, <3>1, <3>2, HeldTwice
        <3>4. canUndo' \in BOOLEAN /\ canRedo' \in BOOLEAN
            BY <2>1, Zenon
        <3>. QED  BY <3>3, <3>4 DEF Canvas, Held
    <2>6. /\ connectionQueue' \in Seq(ConnectorIds) /\ connectionQueue' # <<>>
          /\ sentConnection' \in SentConnections \cup {None}
        <3>1. connectionQueue \in Seq(ConnectorIds) /\ sentConnection \in SentConnections \cup {None}
            BY DEF EditorInv, Wire
        <3>2. Serialized(joined(c), c) \in SentConnections
            BY <2>2, <2>4, SerializedType DEF Sound
        <3> HIDE DEF joined
        <3>. QED  BY <2>1, <2>2, <3>1, <3>2
    <2>7. Wire'
        BY <1>4, <1>5, <2>6 DEF EditorInv, Wire
    <2>. QED  BY <1>3, <2>5, <2>7 DEF EditorInv
<1>7. CASE ~joins
    <2>1. Edit(drawn) /\ UNCHANGED <<connectionQueue, sentConnection>>
        BY <1>7, Zenon DEF DropPull
    <2>2. Canvas'
        <3> HIDE DEF drawn
        <3>. QED  BY <1>2, <2>1, EditCanvas DEF EditorInv
    <2>3. Wire'
        BY <1>4, <1>5, <2>1 DEF EditorInv, Wire
    <2>. QED  BY <1>3, <2>2, <2>3 DEF EditorInv
<1>. QED  BY <1>6, <1>7

(* Pulling and removing connectors preserve the invariant. *)
LEMMA ConnectStep ==
    ASSUME EditorInv, Connect
    PROVE  EditorInv'
<1>1. CASE \E o \in ObjectIds : BeginPull(o)
    <2>1. Canvas'
        BY <1>1, SilentCanvas DEF BeginPull, EditorInv, Canvas
    <2>2. Hand'
        BY <1>1 DEF BeginPull, EditorInv, Hand
    <2>. QED  BY <1>1, <2>1, <2>2, WireUnchanged DEF BeginPull, EditorInv
<1>2. CASE \E l \in Lines, t \in ObjectIds \cup {None} : DropPull(l, t)
    BY <1>2, DropPullStep
<1>3. CASE \E c \in AllConnectorIds : RemoveConnector(c)
    <2>1. Canvas'
        BY <1>3, SoundWithoutConnector, EditCanvas DEF RemoveConnector, EditorInv, Canvas
    <2>. QED  BY <1>3, <2>1, HandUnchanged, WireUnchanged DEF RemoveConnector, EditorInv
<1>. QED  BY <1>1, <1>2, <1>3 DEF Connect

(* Every outcome of a connection check preserves the invariant. *)
LEMMA ConnectionAnswerStep ==
    ASSUME EditorInv, ConnectionAnswer
    PROVE  EditorInv'
<1>1. diagram \in Sound /\ sentConnection # None
    BY DEF EditorInv, Canvas, ConnectionAnswer, ConnectionRefused, ConnectionAccepted,
           ConnectionThrew, Verdict
<1>2. PICK d \in Sound : Verdict(d)
    <2>1. CASE ConnectionRefused
        BY <1>1, <2>1, SoundWithoutConnector DEF ConnectionRefused
    <2>2. CASE ConnectionAccepted
        <3> DEFINE c == Head(connectionQueue)
        <3>1. Verdict(Canonical(diagram, c, sentConnection))
            BY <2>2 DEF ConnectionAccepted
        <3>2. CASE sentConnection.connector = None \/ c \notin Drawn(diagram)
            BY <1>1, <3>1, <3>2 DEF Canonical
        <3>3. CASE ~(sentConnection.connector = None \/ c \notin Drawn(diagram))
            <4> DEFINE answer == Directed(sentConnection.connector)
                       turned == [diagram.connectors[c] EXCEPT
                                    !.sourceId = answer.sourceId, !.targetId = answer.targetId]
            <4>1. sentConnection.connector \in Connector
                BY <1>1, <3>3 DEF EditorInv, Wire, SentConnections
            <4>2. answer \in Connector
                BY <4>1, DirectedType
            <4>3. diagram.connectors[c] \in Connector /\ c \in AllConnectorIds
                BY <1>1, <3>3, DiagramParts DEF Sound, Drawn, Present
            <4>4. turned \in Connector
                <5> HIDE DEF answer, c
                <5>. QED  BY <4>2, <4>3 DEF Connector
            <4>5. Canonical(diagram, c, sentConnection) = WithConnector(diagram, c, turned)
                BY <3>3 DEF Canonical
            <4> HIDE DEF turned, c
            <4>. QED  BY <1>1, <3>1, <4>3, <4>4, <4>5, SoundWithConnector
        <3>. QED  BY <3>2, <3>3
    <2>3. CASE ConnectionThrew
        BY <1>1, <2>3 DEF ConnectionThrew
    <2>. QED  BY <2>1, <2>2, <2>3 DEF ConnectionAnswer
<1>3. Canvas'
    BY <1>2, SilentCanvas DEF Verdict, EditorInv
<1>4. Hand'
    BY <1>2, HandUnchanged DEF Verdict, EditorInv
<1>5. Wire'
    <2>1. /\ connectionQueue' \in Seq(ConnectorIds)
          /\ sentConnection' \in SentConnections \cup {None}
          /\ sentConnection' # None => connectionQueue' # <<>>
        BY <1>1, <1>2, NextCheckWire DEF Verdict, EditorInv, Sound
    <2>2. UNCHANGED <<pendingContainmentObjectId, containmentRequest, overtaken>>
        BY <1>2 DEF Verdict
    <2>3. overtaken' \in BOOLEAN
        BY <2>2, Zenon DEF EditorInv, Wire
    <2>. QED  BY <2>1, <2>2, <2>3 DEF EditorInv, Wire
<1>. QED  BY <1>3, <1>4, <1>5 DEF EditorInv

(* Sending a containment operation preserves the invariant. *)
LEMMA ContainStep ==
    ASSUME EditorInv, Contain
    PROVE  EditorInv'
<1>1. diagram \in Sound /\ diagram \in Diagrams /\ Live(diagram) \subseteq ObjectIds
      /\ \A o \in Live(diagram) : diagram.canvasObjects[o] \in CanvasObject
    BY DiagramParts DEF EditorInv, Canvas, Sound
<1>2. PICK o \in ObjectIds, object \in CanvasObject : SendContainment(o, object)
    <2>1. CASE \E o \in ObjectIds, p \in Containers \cup {None} : AssignSemanticParent(o, p)
        <3>1. PICK o \in ObjectIds, p \in Containers \cup {None} : AssignSemanticParent(o, p)
            BY <2>1
        <3> DEFINE object == [diagram.canvasObjects[o] EXCEPT !.parentContainerId = p]
        <3>2. diagram.canvasObjects[o] \in CanvasObject /\ p \in ObjectIds \cup {None}
            BY <1>1, <3>1 DEF AssignSemanticParent, ObjectIds
        <3>3. object \in CanvasObject
            BY <3>2 DEF CanvasObject
        <3>. QED  BY <3>1, <3>3 DEF AssignSemanticParent
    <2>2. CASE \E o \in Blocks, presentation \in {"node", "container"} :
                    SetResourcePresentation(o, presentation)
        <3>1. PICK o \in Blocks, presentation \in {"node", "container"} :
                    SetResourcePresentation(o, presentation)
            BY <2>2
        <3> DEFINE object == [diagram.canvasObjects[o] EXCEPT !.presentation = presentation]
        <3>2. diagram.canvasObjects[o] \in CanvasObject /\ o \in ObjectIds
            BY <1>1, <3>1 DEF SetResourcePresentation, LiveBlocks
        <3>3. object \in CanvasObject
            BY <3>2 DEF CanvasObject
        <3>. QED  BY <3>1, <3>2, <3>3 DEF SetResourcePresentation
    <2>. QED  BY <2>1, <2>2 DEF Contain
<1> DEFINE asked == WithObject(diagram, o, object)
<1>3. asked \in Diagrams
    BY <1>1, WithObjectType
<1>4. containmentRequest' =
        [sent |-> diagram, asked |-> asked,
         valid |-> ValidReferences(diagram) /\ ValidReferences(asked)]
    BY <1>2 DEF SendContainment
<1>5. containmentRequest' \in ContainmentRequests
    <2>1. (ValidReferences(diagram) /\ ValidReferences(asked)) \in BOOLEAN
        OBVIOUS
    <2> HIDE DEF asked
    <2>. QED  BY <1>1, <1>3, <1>4, <2>1 DEF ContainmentRequests
<1>6. containmentRequest'.valid =>
        /\ Acyclic(containmentRequest'.asked.canvasObjects)
        /\ ParentsHold(containmentRequest'.asked)
    <2> HIDE DEF asked
    <2>. QED  BY <1>4 DEF ValidReferences
<1>7. Wire'
    <2>1. pendingContainmentObjectId' \in ObjectIds \cup {None}
        BY <1>2 DEF SendContainment
    <2>2. UNCHANGED <<connectionQueue, sentConnection, overtaken>>
        BY <1>2 DEF SendContainment
    <2>3. overtaken' \in BOOLEAN
        BY <2>2, Zenon DEF EditorInv, Wire
    <2>. QED  BY <1>5, <1>6, <2>1, <2>2, <2>3 DEF EditorInv, Wire
<1>8. Canvas'
    BY <1>2, SilentCanvas DEF SendContainment, EditorInv, Canvas
<1>9. Hand'
    BY <1>2, HandUnchanged DEF SendContainment, EditorInv
<1>. QED  BY <1>7, <1>8, <1>9 DEF EditorInv

(* Every outcome of a containment operation preserves the invariant. *)
LEMMA ContainmentAnswerStep ==
    ASSUME EditorInv, ContainmentAnswer
    PROVE  EditorInv'
<1>1. Hand'
    BY HandUnchanged DEF ContainmentAnswer, ContainmentApplied, ContainmentRefused,
                         ContainmentThrew, EditorInv
<1>2. Canvas'
    <2>1. CASE ContainmentApplied
        <3> DEFINE asked == containmentRequest.asked
        <3>1. asked \in Diagrams /\ Acyclic(asked.canvasObjects) /\ ParentsHold(asked)
            BY <2>1 DEF ContainmentApplied, EditorInv, Wire, ContainmentRequests
        <3>2. CanonicalState(diagram, Normalized(asked)) \in Sound
            BY <3>1, SoundAnswer DEF EditorInv, Canvas
        <3>. QED  BY <2>1, <3>2, EditCanvas DEF ContainmentApplied, EditorInv
    <2>2. CASE ContainmentRefused
        BY <2>2, SilentCanvas DEF ContainmentRefused, EditorInv, Canvas
    <2>3. CASE ContainmentThrew
        BY <2>3, SilentCanvas DEF ContainmentThrew, EditorInv, Canvas
    <2>. QED  BY <2>1, <2>2, <2>3 DEF ContainmentAnswer
<1>3. Wire'
    <2>1. /\ containmentRequest' = None
          /\ pendingContainmentObjectId' \in {None, pendingContainmentObjectId}
          /\ UNCHANGED <<connectionQueue, sentConnection>>
        BY DEF ContainmentAnswer, ContainmentApplied, ContainmentRefused, ContainmentThrew
    <2>2. overtaken' \in BOOLEAN
        <3>1. CASE ContainmentApplied
            <4>1. (overtaken \/ Overtakes(diagram, containmentRequest.sent)) \in BOOLEAN
                OBVIOUS
            <4>. QED  BY <3>1, <4>1, Zenon DEF ContainmentApplied
        <3>2. CASE ~ContainmentApplied
            BY <3>2, Zenon DEF ContainmentAnswer, ContainmentRefused, ContainmentThrew,
                               EditorInv, Wire
        <3>. QED  BY <3>1, <3>2
    <2>. QED  BY <2>1, <2>2 DEF EditorInv, Wire
<1>. QED  BY <1>1, <1>2, <1>3 DEF EditorInv

(* Loading and starting a diagram preserve the invariant. *)
LEMMA SwitchStep ==
    ASSUME EditorInv, Switch
    PROVE  EditorInv'
<1>1. PICK d \in Sound : ShowDiagram(d)
    <2>1. CASE LoadDiagramState
        BY <2>1, SavedDiagramsAssumption DEF LoadDiagramState, Sound, Whole
    <2>2. CASE NewDiagram
        BY <2>2, SoundEmpty DEF NewDiagram
    <2>. QED  BY <2>1, <2>2 DEF Switch
<1>2. Canvas'
    BY <1>1, ClearCanvas DEF ShowDiagram
<1>3. Hand'
    BY <1>1 DEF ShowDiagram, EditorInv, Hand
<1>4. Wire'
    BY <1>1, WireUnchanged DEF ShowDiagram, EditorInv
<1>. QED  BY <1>2, <1>3, <1>4 DEF EditorInv

-----------------------------------------------------------------------------

(* The invariant the theorems rest on. *)
LEMMA EditorInvariant == Spec => []EditorInv
<1>1. Init => EditorInv
    <2> SUFFICES ASSUME Init  PROVE EditorInv
        OBVIOUS
    <2>1. canUndo \in BOOLEAN /\ canRedo \in BOOLEAN /\ overtaken \in BOOLEAN
        BY Zenon DEF Init
    <2>2. Canvas
        BY <2>1, SoundEmpty DEF Init, Canvas
    <2>3. Hand
        BY EmptyAcyclic DEF Init, Hand, NoObjects
    <2>4. Wire
        BY <2>1 DEF Init, Wire
    <2>. QED  BY <2>2, <2>3, <2>4 DEF EditorInv
<1>2. EditorInv /\ [Next]_vars => EditorInv'
    <2> SUFFICES ASSUME EditorInv, [Next]_vars  PROVE EditorInv'
        OBVIOUS
    <2>1. CASE Create
        BY <2>1, CreateStep
    <2>2. CASE RecordDataEdit
        BY <2>2, RecordDataEditStep
    <2>3. CASE Remove
        BY <2>3, RemoveStep
    <2>4. CASE SelectSome
        BY <2>4, SelectSomeStep
    <2>5. CASE Grouping
        BY <2>5, GroupingStep
    <2>6. CASE Anchor
        BY <2>6, AnchorStep
    <2>7. CASE TimeTravel
        BY <2>7, TimeTravelStep
    <2>8. CASE Clip
        BY <2>8, ClipStep
    <2>9. CASE Connect
        BY <2>9, ConnectStep
    <2>10. CASE ConnectionAnswer
        BY <2>10, ConnectionAnswerStep
    <2>11. CASE Contain
        BY <2>11, ContainStep
    <2>12. CASE ContainmentAnswer
        BY <2>12, ContainmentAnswerStep
    <2>13. CASE Switch
        BY <2>13, SwitchStep
    <2>14. CASE UNCHANGED vars
        <3>1. Canvas'
            BY <2>14, SilentCanvas DEF vars, EditorInv, Canvas
        <3>2. Hand'
            BY <2>14, HandUnchanged DEF vars, EditorInv
        <3>3. Wire'
            BY <2>14, WireUnchanged DEF vars, EditorInv
        <3>. QED  BY <3>1, <3>2, <3>3 DEF EditorInv
    <2>. QED  BY <2>1, <2>2, <2>3, <2>4, <2>5, <2>6, <2>7, <2>8, <2>9, <2>10, <2>11, <2>12,
                 <2>13, <2>14, Zenon DEF Next
<1>. QED  BY <1>1, <1>2, PTL DEF Spec

(* What the editor holds is always what its types say: every diagram and    *)
(* snapshot, the clipboard, the queue of checks and both requests, after    *)
(* any action of the user and any answer.                                   *)
THEOREM EditorTypeCorrect == Spec => []TypeOK
<1>1. EditorInv => TypeOK
    <2> SUFFICES ASSUME EditorInv  PROVE TypeOK
        OBVIOUS
    <2>1. diagram \in Diagrams /\ undoStack \in Seq(Diagrams) /\ redoStack \in Seq(Diagrams)
        BY DEF EditorInv, Canvas, Sound
    <2>2. canUndo \in BOOLEAN /\ canRedo \in BOOLEAN /\ overtaken \in BOOLEAN
        BY Zenon DEF EditorInv, Canvas, Wire
    <2>. QED  BY <2>1, <2>2 DEF EditorInv, Hand, Wire, TypeOK
<1>. QED  BY <1>1, EditorInvariant, PTL

(* The canvas and every snapshot are sound. *)
LEMMA AllSound ==
    ASSUME EditorInv
    PROVE  \A d \in {diagram} \cup Snapshots :
                d \in Diagrams /\ GroupsConsistent(d) /\ Acyclic(d.canvasObjects)
<1>1. \A d \in Range(undoStack) \cup Range(redoStack) : d \in Sound
    BY DEF EditorInv, Canvas, Range
<1>. QED  BY <1>1 DEF EditorInv, Canvas, Snapshots, Sound

(* Groups and members name each other and no group has fewer than two       *)
(* members, on the canvas and in every snapshot, whatever is grouped,       *)
(* removed, undone, pasted or answered late.                                *)
THEOREM GroupsCorrect == Spec => []GroupsAlwaysConsistent
<1>1. EditorInv => GroupsAlwaysConsistent
    BY AllSound DEF GroupsAlwaysConsistent
<1>. QED  BY <1>1, EditorInvariant, PTL

(* No object is ever inside itself, on the canvas or in a snapshot, however *)
(* many answers overtake the canvas.                                        *)
THEOREM HierarchyAcyclic == Spec => []NeverInsideItself
<1>1. EditorInv => NeverInsideItself
    BY AllSound DEF NeverInsideItself
<1>. QED  BY <1>1, EditorInvariant, PTL

(* Removing any of the objects, nested containers among them, leaves every  *)
(* other object inside of what it was inside of, less the removed ones.     *)
THEOREM RemovalCorrect == Spec => []RemovalKeepsHierarchy
<1>1. EditorInv => RemovalKeepsHierarchy
    <2> SUFFICES ASSUME EditorInv, Whole(diagram), NEW ids \in SUBSET Live(diagram),
                        NEW o \in Present(RemoveObjects(diagram, ids).canvasObjects)
                 PROVE  Ancestors(RemoveObjects(diagram, ids).canvasObjects, o) =
                            Ancestors(diagram.canvasObjects, o) \ ids
        BY DEF RemovalKeepsHierarchy
    <2>1. diagram \in Diagrams /\ Acyclic(diagram.canvasObjects) /\ ParentsHold(diagram)
        BY DEF EditorInv, Canvas, Sound, Whole
    <2>2. o \in Live(diagram) \ ids
        BY DEF RemoveObjects, Present
    <2>. QED  BY <2>1, <2>2, RemoveObjectsAncestors
<1>. QED  BY <1>1, EditorInvariant, PTL

-----------------------------------------------------------------------------
(* References: what the connectors of all diagrams agree on.                *)

(* Diagrams that agree with the ends the queued connectors were drawn with, *)
(* and join no pair of blocks twice that was not loaded so.                 *)
Agreed(ends) ==
    {d \in Diagrams :
        /\ \A c \in Drawn(d) \cap DOMAIN ends :
            d.connectors[c].origin = "explicit" /\ Ends(d.connectors[c]) = ends[c]
        /\ \A c, e \in Drawn(d) :
            JoinTwice(d, c, e) => c = e \/ \E s \in SavedDiagrams : JoinTwice(s, c, e)}

(* A diagram agrees if its explicit connectors join what they joined in one *)
(* that does.                                                               *)
LEMMA AgreedKept ==
    ASSUME NEW ends, NEW d \in Agreed(ends), NEW e \in Diagrams,
           \A c \in Drawn(e) :
                \/ /\ c \in Drawn(d) /\ Ends(e.connectors[c]) = Ends(d.connectors[c])
                   /\ e.connectors[c].origin = d.connectors[c].origin
                \/ c \notin DOMAIN ends /\ e.connectors[c].origin = "containment"
    PROVE  e \in Agreed(ends)
<1>1. \A c \in Drawn(e) \cap DOMAIN ends :
        e.connectors[c].origin = "explicit" /\ Ends(e.connectors[c]) = ends[c]
    BY DEF Agreed
<1>2. \A c, k \in Drawn(e) : JoinTwice(e, c, k) => JoinTwice(d, c, k)
    BY DEF JoinTwice
<1>3. \A c, k \in Drawn(e) : JoinTwice(e, c, k) => {c, k} \subseteq Drawn(d)
    BY <1>2 DEF JoinTwice
<1>. QED  BY <1>1, <1>2, <1>3 DEF Agreed

(* Connectors that are left out or taken over as they are. *)
LEMMA AgreedPart ==
    ASSUME NEW ends, NEW d \in Agreed(ends), NEW e \in Diagrams,
           \A c \in Drawn(e) : c \in Drawn(d) /\ e.connectors[c] = d.connectors[c]
    PROVE  e \in Agreed(ends)
BY AgreedKept

(* A diagram without connectors, or a loaded one, agrees with the ends of   *)
(* connectors it does not have.                                             *)
LEMMA AgreedLoaded ==
    ASSUME NEW ends, \A s \in SavedDiagrams : Drawn(s) \cap DOMAIN ends = {}
    PROVE  /\ EmptyDiagram \in Agreed(ends)
           /\ SavedDiagrams \subseteq Agreed(ends)
<1>1. Drawn(EmptyDiagram) = {}
    BY DEF EmptyDiagram, Drawn, Present
<1>2. EmptyDiagram \in Agreed(ends)
    BY <1>1, EmptyDiagramType DEF Agreed
<1>3. SavedDiagrams \subseteq Agreed(ends)
    BY SavedDiagramsAssumption DEF Agreed
<1>. QED  BY <1>2, <1>3

(* An answer turns explicit connectors round and adds managed ones. *)
LEMMA AgreedAnswer ==
    ASSUME NEW ends, DOMAIN ends \subseteq ConnectorIds, NEW asked \in Agreed(ends),
           NEW d \in Diagrams
    PROVE  CanonicalState(d, Normalized(asked)) \in Agreed(ends)
<1> DEFINE answer == Normalized(asked)
           e == CanonicalState(d, answer)
<1>1. asked \in Diagrams /\ answer \in Diagrams
    BY NormalizedType DEF Agreed
<1>2. \A c \in Drawn(answer) :
        \/ /\ c \in Drawn(asked) /\ Ends(answer.connectors[c]) = Ends(asked.connectors[c])
           /\ answer.connectors[c].origin = asked.connectors[c].origin
        \/ c \notin DOMAIN ends /\ answer.connectors[c].origin = "containment"
    BY <1>1, NormalizedFacts, GraphAssumption
<1> HIDE DEF answer
<1>3. e \in Diagrams /\ e.connectors = answer.connectors
    BY <1>1, CanonicalStateFacts
<1>4. \A c \in Drawn(e) :
        \/ /\ c \in Drawn(asked) /\ Ends(e.connectors[c]) = Ends(asked.connectors[c])
           /\ e.connectors[c].origin = asked.connectors[c].origin
        \/ c \notin DOMAIN ends /\ e.connectors[c].origin = "containment"
    BY <1>2, <1>3 DEF Drawn
<1>5. e \in Agreed(ends)
    <2> HIDE DEF e
    <2>. QED  BY <1>3, <1>4, AgreedKept
<1>. QED  BY <1>5 DEF answer

(* The ends of one more connector. *)
Further(ends, c, pair) ==
    [k \in DOMAIN ends \cup {c} |-> IF k = c THEN pair ELSE ends[k]]

(* A diagram that does not draw a connector agrees with any ends of it. *)
LEMMA AgreedFurther ==
    ASSUME NEW ends, NEW d \in Agreed(ends), NEW c, c \notin Drawn(d), NEW pair
    PROVE  d \in Agreed(Further(ends, c, pair))
BY DEF Agreed, Further

(* A connector drawn between two blocks that nothing joins yet. *)
LEMMA AgreedDrawn ==
    ASSUME NEW ends, NEW d \in Agreed(ends), NEW c \in AllConnectorIds, c \notin Drawn(d),
           NEW source \in Blocks, NEW target \in Blocks, ~Joined(d, source, target)
    PROVE  WithConnector(d, c, ExplicitConnector(source, target))
                \in Agreed(Further(ends, c, {source, target}))
<1> DEFINE further == Further(ends, c, {source, target})
           new == ExplicitConnector(source, target)
           e == WithConnector(d, c, new)
<1>1. d \in Diagrams /\ d \in Agreed(further)
    BY AgreedFurther DEF Agreed
<1>2. new \in Connector /\ new.origin = "explicit" /\ Ends(new) = {source, target}
    BY DEF ExplicitConnector, Connector, Ends
<1> HIDE DEF new
<1>3. /\ e \in Diagrams /\ e.connectors[c] = new
      /\ \A k \in Drawn(e) \ {c} : k \in Drawn(d) /\ e.connectors[k] = d.connectors[k]
    BY <1>1, <1>2, WithConnectorType, WithConnectorFacts
<1> HIDE DEF e
<1>4. \A k \in Drawn(e) \cap DOMAIN further :
        e.connectors[k].origin = "explicit" /\ Ends(e.connectors[k]) = further[k]
    <2>1. c \in DOMAIN further => further[c] = {source, target}
        BY DEF Further
    <2> HIDE DEF further
    <2>. QED  BY <1>1, <1>2, <1>3, <2>1 DEF Agreed
<1>5. ASSUME NEW k \in Drawn(e), NEW l \in Drawn(e), JoinTwice(e, k, l), k # l
      PROVE  \E s \in SavedDiagrams : JoinTwice(s, k, l)
    <2>1. \A i \in Drawn(d) : Ends(d.connectors[i]) # {source, target}
        BY DEF Joined
    <2>2. k # c /\ l # c
        BY <1>2, <1>3, <1>5, <2>1 DEF JoinTwice
    <2>3. k \in Drawn(d) /\ l \in Drawn(d) /\ JoinTwice(d, k, l)
        BY <1>3, <1>5, <2>2 DEF JoinTwice
    <2>. QED  BY <1>5, <2>3 DEF Agreed
<1>6. e \in Agreed(further)
    <2> HIDE DEF further
    <2>. QED  BY <1>3, <1>4, <1>5 DEF Agreed
<1>. QED  BY <1>6 DEF e, new

-----------------------------------------------------------------------------
(* The second invariant, relative to the first: references lead somewhere.  *)

(* Some ends can be given to the connectors whose checks are under way such *)
(* that every diagram and every request agrees with them.                   *)
Agreement(ends) ==
    /\ DOMAIN ends \subseteq ConnectorIds /\ Range(connectionQueue) \subseteq DOMAIN ends
    /\ \A s \in SavedDiagrams : Drawn(s) \cap DOMAIN ends = {}
    /\ Held(Agreed(ends))
    /\ containmentRequest # None => containmentRequest.asked \in Agreed(ends)
    /\ sentConnection # None /\ sentConnection.connector # None =>
        Ends(sentConnection.connector) = ends[Head(connectionQueue)]

(* A containment request asks for the objects and connectors it was sent    *)
(* with, and no valid one for connectors that dangle.                       *)
Request ==
    containmentRequest # None =>
        /\ containmentRequest.asked.connectors = containmentRequest.sent.connectors
        /\ Live(containmentRequest.asked) = Live(containmentRequest.sent)
        /\ containmentRequest.valid => ConnectorsAttached(containmentRequest.asked)

(* Unless the canvas was overtaken, nothing that is shown, can be restored  *)
(* or can be pasted has a reference that leads nowhere.                     *)
Unbroken == ~overtaken => Held(Intact) /\ ContainersAlong(clipboard)

WholeInv == (\E ends : Agreement(ends)) /\ Request /\ Unbroken

(* The ends stay what they are in a step that answers no check. *)
LEMMA AgreementKept ==
    ASSUME NEW ends, Agreement(ends), Held(Agreed(ends))',
           UNCHANGED <<connectionQueue, sentConnection>>,
           containmentRequest' \in {None, containmentRequest}
    PROVE  Agreement(ends)'
<1>1. Held(Agreed(ends))'
    OBVIOUS
<1>2. connectionQueue' = connectionQueue /\ sentConnection' = sentConnection
    OBVIOUS
<1>. QED  BY <1>1, <1>2 DEF Agreement

(* What is asked stays as it is. *)
LEMMA RequestKept ==
    ASSUME Request, containmentRequest' \in {None, containmentRequest}
    PROVE  Request'
BY DEF Request

(* A recorded edit that draws no connector preserves the second invariant  *)
(* if it leaves whole what was whole.                                       *)
LEMMA EditWhole ==
    ASSUME EditorInv, WholeInv, NEW changed \in Sound, Edit(changed), UNCHANGED wireVars,
           \A c \in Drawn(changed) :
                c \in Drawn(diagram) /\ changed.connectors[c] = diagram.connectors[c],
           ~overtaken => Tied(changed) /\ ContainersAlong(clipboard')
    PROVE  WholeInv'
<1>1. UNCHANGED <<connectionQueue, sentConnection, containmentRequest, overtaken>>
    BY DEF wireVars
<1>2. PICK ends : Agreement(ends)
    BY DEF WholeInv
<1>3. Agreement(ends)'
    <2>1. Held(Agreed(ends)) /\ diagram \in Agreed(ends)
        BY <1>2 DEF Agreement, Held
    <2>2. changed \in Agreed(ends)
        BY <2>1, AgreedPart DEF Sound
    <2>3. Held(Agreed(ends))'
        BY <2>1, <2>2, HeldEdit
    <2>. QED  BY <1>1, <1>2, <2>3, AgreementKept
<1>4. Request'
    BY <1>1, RequestKept DEF WholeInv
<1>5. Unbroken'
    <2> SUFFICES ASSUME ~overtaken'  PROVE Held(Intact)' /\ ContainersAlong(clipboard)'
        BY DEF Unbroken
    <2>1. ~overtaken
        BY <1>1
    <2>2. changed \in Intact /\ Held(Intact)
        BY <2>1 DEF Intact, WholeInv, Unbroken
    <2>3. Held(Intact)'
        BY <2>2, HeldEdit
    <2>4. ContainersAlong(clipboard)'
        BY <2>1
    <2>. QED  BY <2>3, <2>4
<1>. QED  BY <1>3, <1>4, <1>5 DEF WholeInv

(* So does a step that changes neither diagrams nor requests. *)
LEMMA QuietWhole ==
    ASSUME WholeInv, UNCHANGED <<diagram, historyVars, wireVars>>,
           ~overtaken => ContainersAlong(clipboard')
    PROVE  WholeInv'
<1>1. UNCHANGED <<connectionQueue, sentConnection, containmentRequest, overtaken>>
    BY DEF wireVars
<1>2. ASSUME NEW S, Held(S)  PROVE Held(S)'
    BY <1>2, HeldSilent DEF Held
<1>3. PICK ends : Agreement(ends)
    BY DEF WholeInv
<1>4. Agreement(ends)'
    <2>1. Held(Agreed(ends))'
        BY <1>2, <1>3 DEF Agreement
    <2>. QED  BY <1>1, <1>3, <2>1, AgreementKept
<1>5. Request'
    BY <1>1, RequestKept DEF WholeInv
<1>6. Unbroken'
    <2> SUFFICES ASSUME ~overtaken'  PROVE Held(Intact)' /\ ContainersAlong(clipboard)'
        BY DEF Unbroken
    <2>1. ~overtaken
        BY <1>1
    <2>2. Held(Intact)'
        BY <1>2, <2>1 DEF WholeInv, Unbroken
    <2>. QED  BY <2>1, <2>2
<1>. QED  BY <1>4, <1>5, <1>6 DEF WholeInv

(* What is known of a canvas that was not overtaken. *)
LEMMA CanvasIntact ==
    ASSUME WholeInv, ~overtaken
    PROVE  Tied(diagram) /\ ContainersAlong(clipboard)
BY DEF WholeInv, Unbroken, Held, Intact

(* addCanvasObject preserves the second invariant. *)
LEMMA CreateWhole ==
    ASSUME EditorInv, WholeInv, Create
    PROVE  WholeInv'
<1>1. PICK o \in ObjectIds : AddCanvasObject(o)
    BY DEF Create
<1> DEFINE changed == WithObject(diagram, o, NewObject(o))
<1>2. diagram \in Sound /\ diagram \in Diagrams
    BY DEF EditorInv, Canvas, Sound
<1>3. /\ o \in ObjectIds \ Live(diagram) /\ NewObject(o) \in CanvasObject
      /\ NewObject(o).groupId = None /\ NewObject(o).parentContainerId = None
      /\ NewObject(o).sourceAnchor = None /\ NewObject(o).targetAnchor = None
    BY <1>1, FreshIds, NewObjectType DEF AddCanvasObject, NewObject
<1>4. changed \in Sound
    BY <1>2, <1>3, SoundFresh
<1>5. changed.connectors = diagram.connectors
    BY <1>2 DEF WithObject, Diagrams
<1>6. ~overtaken => Tied(changed)
    BY <1>2, <1>3, CanvasIntact, WithObjectTied
<1>7. Edit(changed) /\ UNCHANGED <<clipboard, wireVars>>
    BY <1>1 DEF AddCanvasObject
<1>8. \A c \in Drawn(changed) : c \in Drawn(diagram) /\ changed.connectors[c] = diagram.connectors[c]
    BY <1>5 DEF Drawn
<1>9. ~overtaken => ContainersAlong(clipboard')
    BY <1>7, CanvasIntact
<1> HIDE DEF changed
<1>. QED  BY <1>4, <1>6, <1>7, <1>8, <1>9, EditWhole

(* An edit of an object's data preserves the second invariant. *)
LEMMA RecordDataEditWhole ==
    ASSUME EditorInv, WholeInv, RecordDataEdit
    PROVE  WholeInv'
<1>1. Edit(diagram) /\ UNCHANGED <<clipboard, wireVars>>
    BY DEF RecordDataEdit
<1>2. ~overtaken => Tied(diagram) /\ ContainersAlong(clipboard')
    BY <1>1, CanvasIntact
<1>. QED  BY <1>1, <1>2, EditWhole DEF EditorInv, Canvas

(* Removal preserves it, whatever is copied before. *)
LEMMA RemoveMultipleWhole ==
    ASSUME EditorInv, WholeInv, NEW ids, RemoveMultiple(ids),
           ~overtaken => ContainersAlong(clipboard')
    PROVE  WholeInv'
<1> DEFINE changed == RemoveObjects(diagram, ids)
<1>1. diagram \in Sound /\ diagram \in Diagrams /\ Acyclic(diagram.canvasObjects)
    BY DEF EditorInv, Canvas, Sound
<1>2. changed \in Sound
    BY <1>1, SoundRemove
<1>3. \A c \in Drawn(changed) : c \in Drawn(diagram) /\ changed.connectors[c] = diagram.connectors[c]
    BY <1>1, RemoveObjectsLeaves
<1>4. ~overtaken => Tied(changed)
    BY <1>1, CanvasIntact, RemoveObjectsTied
<1>5. Edit(changed) /\ UNCHANGED wireVars
    BY DEF RemoveMultiple
<1> HIDE DEF changed
<1>. QED  BY <1>2, <1>3, <1>4, <1>5, EditWhole

(* Removal, from the keyboard or the menu, preserves the second invariant. *)
LEMMA RemoveWhole ==
    ASSUME EditorInv, WholeInv, Remove
    PROVE  WholeInv'
<1>1. PICK ids : RemoveMultiple(ids) /\ UNCHANGED clipboard
    BY DEF Remove, RemoveCanvasObject, RemoveSelected, RemoveSubtree
<1>2. ~overtaken => ContainersAlong(clipboard')
    BY <1>1, CanvasIntact
<1>. QED  BY <1>1, <1>2, RemoveMultipleWhole

(* Selecting preserves the second invariant. *)
LEMMA SelectSomeWhole ==
    ASSUME WholeInv, SelectSome
    PROVE  WholeInv'
<1>1. UNCHANGED <<diagram, historyVars, clipboard, wireVars>>
    BY Zenon DEF SelectSome, SelectObject, ToggleObjectSelection, SelectObjectsByRect,
        SelectAllObjects, ClearSelection, Select
<1>2. ~overtaken => ContainersAlong(clipboard')
    BY <1>1, CanvasIntact
<1>. QED  BY <1>1, <1>2, QuietWhole

(* Grouping and ungrouping preserve the second invariant. *)
LEMMA GroupingWhole ==
    ASSUME EditorInv, WholeInv, Grouping
    PROVE  WholeInv'
<1>1. diagram \in Sound /\ diagram \in Diagrams /\ Live(diagram) \subseteq ObjectIds
    BY DiagramParts DEF EditorInv, Canvas, Sound
<1>2. PICK changed \in Sound :
        /\ Edit(changed) /\ UNCHANGED <<clipboard, wireVars>>
        /\ changed.connectors = diagram.connectors
        /\ ~overtaken => Tied(changed)
    <2>1. CASE \E g \in GroupIds : GroupSelectedObjects(g)
        <3>1. PICK g \in GroupIds : GroupSelectedObjects(g)
            BY <2>1
        <3> DEFINE changed == GroupObjects(diagram, selectedObjectIds, g)
        <3>2. g \in GroupIds \ Groups(diagram) /\ selectedObjectIds \in SUBSET Live(diagram)
              /\ \E o, p \in selectedObjectIds : o # p
            BY <3>1, FreshIds DEF GroupSelectedObjects
        <3>3. changed \in Sound
            BY <1>1, <3>2, SoundGroup
        <3>4. changed.connectors = diagram.connectors
            BY <1>1, <3>2 DEF GroupObjects, LeaveGroups, Diagrams
        <3>5. ~overtaken => Tied(changed)
            BY <1>1, <3>2, CanvasIntact, GroupObjectsTied
        <3>. QED  BY <3>1, <3>3, <3>4, <3>5 DEF GroupSelectedObjects
    <2>2. CASE \E g \in GroupIds : Ungroup(g)
        <3>1. PICK g \in GroupIds : Ungroup(g)
            BY <2>2
        <3> DEFINE changed == UngroupObjects(diagram, g)
        <3>2. changed \in Sound
            BY <1>1, <3>1, SoundUngroup DEF Ungroup
        <3>3. changed.connectors = diagram.connectors
            BY <1>1 DEF UngroupObjects, Diagrams
        <3>4. ~overtaken => Tied(changed)
            BY <1>1, CanvasIntact, UngroupObjectsTied
        <3>. QED  BY <3>1, <3>2, <3>3, <3>4 DEF Ungroup
    <2>. QED  BY <2>1, <2>2 DEF Grouping
<1>3. ~overtaken => Tied(changed) /\ ContainersAlong(clipboard')
    BY <1>2, CanvasIntact
<1>4. \A c \in Drawn(changed) : c \in Drawn(diagram) /\ changed.connectors[c] = diagram.connectors[c]
    BY <1>2 DEF Drawn
<1>. QED  BY <1>2, <1>3, <1>4, EditWhole

(* updateLineAnchors preserves the second invariant. *)
LEMMA AnchorWhole ==
    ASSUME EditorInv, WholeInv, Anchor
    PROVE  WholeInv'
<1>1. PICK l \in Lines, end \in {"sourceAnchor", "targetAnchor"}, target \in ObjectIds \cup {None} :
        UpdateLineAnchors(l, end, target)
    BY DEF Anchor
<1> DEFINE object == diagram.canvasObjects[l]
           anchored == [object EXCEPT ![end] = target]
           changed == [diagram EXCEPT !.canvasObjects[l] = [@ EXCEPT ![end] = target]]
<1>2. /\ diagram \in Sound /\ diagram \in Diagrams
      /\ l \in Live(diagram) /\ l \in ObjectIds /\ object \in CanvasObject
      /\ target \in Live(diagram) \cup {None}
    BY <1>1, DiagramParts DEF UpdateLineAnchors, EditorInv, Canvas, Sound
<1>3. changed \in Sound
    BY <1>1, <1>2, SoundAnchor
<1>4. changed = WithObject(diagram, l, anchored)
    BY <1>2 DEF WithObject, Diagrams
<1>5. changed.connectors = diagram.connectors
    BY <1>2 DEF Diagrams
<1>6. Edit(changed) /\ UNCHANGED <<clipboard, wireVars>>
    BY <1>1 DEF UpdateLineAnchors
<1>7. ASSUME ~overtaken  PROVE Tied(changed)
    <2>1. Tied(diagram) /\ {object.sourceAnchor, object.targetAnchor} \subseteq Live(diagram) \cup {None}
        BY <1>2, <1>7, CanvasIntact DEF Tied, AnchorsAttached
    <2>2. /\ anchored \in CanvasObject
          /\ anchored.parentContainerId = object.parentContainerId
          /\ anchored.presentation = object.presentation
          /\ {anchored.sourceAnchor, anchored.targetAnchor} \subseteq Live(diagram) \cup {None}
        <3>1. CASE end = "sourceAnchor"
            <4> HIDE DEF object
            <4>. QED  BY <1>2, <2>1, <3>1 DEF CanvasObject
        <3>2. CASE end = "targetAnchor"
            <4> HIDE DEF object
            <4>. QED  BY <1>2, <2>1, <3>2 DEF CanvasObject
        <3>. QED  BY <3>1, <3>2
    <2> HIDE DEF anchored, changed
    <2>. QED  BY <1>2, <1>4, <2>1, <2>2, WithObjectTied
<1>8. ~overtaken => Tied(changed) /\ ContainersAlong(clipboard')
    BY <1>6, <1>7, CanvasIntact
<1>9. \A c \in Drawn(changed) : c \in Drawn(diagram) /\ changed.connectors[c] = diagram.connectors[c]
    BY <1>5 DEF Drawn
<1> HIDE DEF changed
<1>. QED  BY <1>3, <1>6, <1>8, <1>9, EditWhole

(* undo and redo preserve the second invariant. *)
LEMMA TimeTravelWhole ==
    ASSUME WholeInv, TimeTravel
    PROVE  WholeInv'
<1>1. (History!Undo \/ History!Redo) /\ UNCHANGED <<clipboard, wireVars>>
    BY DEF TimeTravel, Undo, Redo
<1>2. UNCHANGED <<clipboard, connectionQueue, sentConnection, containmentRequest, overtaken>>
    BY <1>1 DEF wireVars
<1>3. PICK ends : Agreement(ends)
    BY DEF WholeInv
<1>4. Agreement(ends)'
    <2>1. Held(Agreed(ends))'
        BY <1>1, <1>3, HeldUndo DEF Agreement
    <2>. QED  BY <1>2, <1>3, <2>1, AgreementKept
<1>5. Request'
    BY <1>2, RequestKept DEF WholeInv
<1>6. Unbroken'
    <2> SUFFICES ASSUME ~overtaken'  PROVE Held(Intact)' /\ ContainersAlong(clipboard)'
        BY DEF Unbroken
    <2>1. ~overtaken /\ Held(Intact) /\ ContainersAlong(clipboard)
        BY <1>2 DEF WholeInv, Unbroken
    <2>2. Held(Intact)'
        BY <1>1, <2>1, HeldUndo
    <2>. QED  BY <1>2, <2>1, <2>2
<1>. QED  BY <1>4, <1>5, <1>6 DEF WholeInv

(* Of a canvas whose references are whole, a part is copied whose           *)
(* containers are containers, and whose references lead to live objects.    *)
LEMMA SelectedAlong ==
    ASSUME EditorInv, Tied(diagram)
    PROVE  /\ ContainersAlong(SelectedObjects)
           /\ \A o \in Present(SelectedObjects) :
                {SelectedObjects[o].parentContainerId, SelectedObjects[o].sourceAnchor,
                 SelectedObjects[o].targetAnchor} \cap selectedObjectIds
                    \subseteq Present(SelectedObjects)
<1>1. selectedObjectIds \subseteq ObjectIds /\ Live(diagram) \subseteq ObjectIds
      /\ None \notin ObjectIds
    BY DiagramParts, GraphAssumption DEF EditorInv, Canvas, Sound, Hand
<1>2. Present(SelectedObjects) = selectedObjectIds \cap Live(diagram)
    BY <1>1, DiagramParts DEF SelectedObjects, Present, Live, EditorInv, Canvas, Sound
<1>3. \A o \in Present(SelectedObjects) : SelectedObjects[o] = diagram.canvasObjects[o]
    BY <1>1, <1>2 DEF SelectedObjects
<1>4. \A o \in Live(diagram) :
        /\ diagram.canvasObjects[o].parentContainerId \in Shown(diagram) \cup {None}
        /\ {diagram.canvasObjects[o].sourceAnchor, diagram.canvasObjects[o].targetAnchor}
                \subseteq Live(diagram) \cup {None}
    BY DEF Tied, ParentsHold, AnchorsAttached, Shown
<1>5. ContainersAlong(SelectedObjects)
    BY <1>1, <1>2, <1>3, <1>4 DEF ContainersAlong, Shown
<1>6. Shown(diagram) \subseteq Live(diagram)
    BY DEF Shown
<1>. QED  BY <1>1, <1>2, <1>3, <1>4, <1>5, <1>6

(* What is known of the renaming of copies. *)
LEMMA RenamingFacts ==
    ASSUME EditorInv, NEW ids, NEW idMap \in Renamings(ids)
    PROVE  /\ DOMAIN idMap = ids
           /\ \A o \in DOMAIN idMap : idMap[o] \in ObjectIds \ Live(diagram)
           /\ \A o, p \in DOMAIN idMap : idMap[o] = idMap[p] => o = p
           /\ idMap \in Injection(ids, ObjectIds \ Mentioned(diagram))
<1>1. idMap \in Injection(ids, FreshObjectIds)
    BY DEF Renamings
<1>. QED  BY <1>1, FreshIds DEF Injection, IsInjective

(* Putting copies on the canvas preserves the second invariant. *)
LEMMA CloneWhole ==
    ASSUME EditorInv, WholeInv,
           NEW originals \in [ObjectIds -> CanvasObject \cup {None}], Acyclic(originals),
           NEW ids \in SUBSET ObjectIds, Present(originals) \subseteq ids,
           NEW idMap \in Renamings(ids),
           ~overtaken =>
                /\ ContainersAlong(originals)
                /\ \A o \in Present(originals) :
                    {originals[o].parentContainerId, originals[o].sourceAnchor,
                     originals[o].targetAnchor} \cap ids \subseteq Present(originals),
           Edit(CloneObjects(diagram, originals, idMap)), UNCHANGED <<clipboard, wireVars>>
    PROVE  WholeInv'
<1> DEFINE changed == CloneObjects(diagram, originals, idMap)
<1>1. diagram \in Sound /\ diagram \in Diagrams
    BY DEF EditorInv, Canvas, Sound
<1>2. /\ DOMAIN idMap = ids
      /\ \A o \in DOMAIN idMap : idMap[o] \in ObjectIds \ Live(diagram)
      /\ \A o, p \in DOMAIN idMap : idMap[o] = idMap[p] => o = p
      /\ idMap \in Injection(ids, ObjectIds \ Mentioned(diagram))
    BY RenamingFacts
<1>3. changed \in Sound
    BY <1>1, <1>2, SoundClone
<1>4. changed.connectors = diagram.connectors
    BY <1>1, <1>2, CloneObjectsCopies
<1>5. ASSUME ~overtaken  PROVE Tied(changed)
    BY <1>1, <1>2, <1>5, CanvasIntact, CloneObjectsTied
<1>6. ~overtaken => Tied(changed) /\ ContainersAlong(clipboard')
    BY <1>5, CanvasIntact
<1>7. \A c \in Drawn(changed) : c \in Drawn(diagram) /\ changed.connectors[c] = diagram.connectors[c]
    BY <1>4 DEF Drawn
<1>8. Edit(changed) /\ UNCHANGED wireVars
    OBVIOUS
<1> HIDE DEF changed
<1>. QED  BY <1>3, <1>6, <1>7, <1>8, EditWhole

(* Copying, cutting, pasting and duplicating preserve the second invariant. *)
LEMMA ClipWhole ==
    ASSUME EditorInv, WholeInv, Clip
    PROVE  WholeInv'
<1>1. ~overtaken => ContainersAlong(SelectedObjects)
    BY CanvasIntact, SelectedAlong
<1>2. CASE CopySelectedObjects
    <2>1. UNCHANGED <<diagram, historyVars, wireVars>> /\ clipboard' = SelectedObjects
        BY <1>2 DEF CopySelectedObjects
    <2>. QED  BY <1>1, <2>1, QuietWhole
<1>3. CASE Cut
    <2>1. RemoveMultiple(selectedObjectIds) /\ clipboard' = SelectedObjects
        BY <1>3 DEF Cut
    <2>. QED  BY <1>1, <2>1, RemoveMultipleWhole
<1>4. CASE PasteObjects
    <2>1. PICK idMap \in Renamings(Present(clipboard)) :
            Edit(CloneObjects(diagram, clipboard, idMap))
        BY <1>4 DEF PasteObjects
    <2>2. UNCHANGED <<clipboard, wireVars>>
        BY <1>4 DEF PasteObjects
    <2>3. clipboard \in [ObjectIds -> CanvasObject \cup {None}] /\ Acyclic(clipboard)
          /\ Present(clipboard) \in SUBSET ObjectIds
        BY DEF EditorInv, Hand, Present
    <2>4. ~overtaken => ContainersAlong(clipboard)
        BY CanvasIntact
    <2>. QED  BY <2>1, <2>2, <2>3, <2>4, CloneWhole
<1>5. CASE DuplicateSelectedObjects
    <2>1. PICK idMap \in Renamings(selectedObjectIds) :
            Edit(CloneObjects(diagram, SelectedObjects, idMap))
        BY <1>5 DEF DuplicateSelectedObjects
    <2>2. UNCHANGED <<clipboard, wireVars>>
        BY <1>5 DEF DuplicateSelectedObjects
    <2>3. /\ SelectedObjects \in [ObjectIds -> CanvasObject \cup {None}]
          /\ Acyclic(SelectedObjects) /\ Present(SelectedObjects) \subseteq selectedObjectIds
          /\ selectedObjectIds \in SUBSET ObjectIds
        BY SelectedObjectsFacts DEF EditorInv, Hand
    <2>4. ~overtaken =>
            \A o \in Present(SelectedObjects) :
                {SelectedObjects[o].parentContainerId, SelectedObjects[o].sourceAnchor,
                 SelectedObjects[o].targetAnchor} \cap selectedObjectIds
                    \subseteq Present(SelectedObjects)
        BY CanvasIntact, SelectedAlong
    <2>. QED  BY <1>1, <2>1, <2>2, <2>3, <2>4, CloneWhole
<1>. QED  BY <1>2, <1>3, <1>4, <1>5 DEF Clip

(* An identifier that is drawn anew for a connector is on no diagram and    *)
(* awaits no check.                                                         *)
LEMMA FreshConnector ==
    ASSUME NEW c \in FreshConnectorIds
    PROVE  /\ c \in ConnectorIds /\ c \notin Range(connectionQueue)
           /\ \A d \in {diagram} \cup Snapshots \cup SavedDiagrams : c \notin Drawn(d)
           /\ containmentRequest # None => c \notin Drawn(containmentRequest.sent)
BY DEF FreshConnectorIds, Known

(* All that is held agrees with any ends of a connector that is drawn anew. *)
LEMMA HeldFurther ==
    ASSUME NEW ends, Held(Agreed(ends)), NEW c \in FreshConnectorIds, NEW pair
    PROVE  Held(Agreed(Further(ends, c, pair)))
<1> DEFINE further == Further(ends, c, pair)
<1>1. \A d \in {diagram} \cup Snapshots : d \in Agreed(ends) => d \in Agreed(further)
    BY FreshConnector, AgreedFurther
<1>2. /\ diagram \in Agreed(ends)
      /\ undoStack \in Seq(Agreed(ends)) /\ redoStack \in Seq(Agreed(ends))
    BY DEF Held
<1> HIDE DEF further
<1>3. \A i \in 1..Len(undoStack) : undoStack[i] \in Agreed(further)
    <2>1. \A i \in 1..Len(undoStack) : undoStack[i] \in Range(undoStack)
        BY <1>2 DEF Range
    <2>. QED  BY <1>1, <1>2, <2>1 DEF Snapshots
<1>4. \A i \in 1..Len(redoStack) : redoStack[i] \in Agreed(further)
    <2>1. \A i \in 1..Len(redoStack) : redoStack[i] \in Range(redoStack)
        BY <1>2 DEF Range
    <2>. QED  BY <1>1, <1>2, <2>1 DEF Snapshots
<1>5. undoStack \in Seq(Agreed(further))
    BY <1>2, <1>3
<1>6. redoStack \in Seq(Agreed(further))
    BY <1>2, <1>4
<1>. QED  BY <1>1, <1>2, <1>5, <1>6 DEF Held, further

(* The line a pull draws leads nowhere that is gone, unless its source is.  *)
LEMMA DrawnLineTied ==
    ASSUME EditorInv, Tied(diagram), NEW line \in Lines, NEW target \in ObjectIds \cup {None},
           DropPull(line, target), pullConnectState \in Live(diagram)
    PROVE  Tied(WithObject(diagram, line,
            [NewObject(line) EXCEPT !.sourceAnchor = pullConnectState, !.targetAnchor = target]))
<1> DEFINE object == [NewObject(line) EXCEPT !.sourceAnchor = pullConnectState,
                                             !.targetAnchor = target]
<1>1. /\ diagram \in Diagrams /\ line \in ObjectIds \ Live(diagram)
      /\ target \in Live(diagram) \cup {None}
    BY FreshIds DEF DropPull, EditorInv, Canvas, Sound
<1>2. /\ object \in CanvasObject /\ object.parentContainerId = None
      /\ object.sourceAnchor = pullConnectState /\ object.targetAnchor = target
    BY DEF NewObject, CanvasObject, EditorInv, Hand
<1> HIDE DEF object
<1>3. Tied(WithObject(diagram, line, object))
    BY <1>1, <1>2, WithObjectTied
<1>. QED  BY <1>3 DEF object

(* handleMouseUp, with the connector it may draw, preserves the second      *)
(* invariant: the ends of the connector are what it was drawn with.         *)
LEMMA DropPullWhole ==
    ASSUME EditorInv, WholeInv, NEW line \in Lines, NEW target \in ObjectIds \cup {None},
           DropPull(line, target)
    PROVE  WholeInv'
<1> DEFINE source == pullConnectState
           drawn == WithObject(diagram, line,
                [NewObject(line) EXCEPT !.sourceAnchor = source, !.targetAnchor = target])
           joins == {source, target} \subseteq LiveBlocks(diagram) /\ ~Joined(diagram, source, target)
<1>1. diagram \in Sound /\ diagram \in Diagrams
    BY DEF EditorInv, Canvas, Sound
<1>2. drawn \in Sound /\ drawn \in Diagrams
    BY DrawnLine DEF Sound
<1>3. /\ drawn.connectors = diagram.connectors
      /\ Live(diagram) \subseteq Live(drawn)
    <2>1. /\ drawn.connectors = diagram.connectors
          /\ \A o \in ObjectIds \ {line} : drawn.canvasObjects[o] = diagram.canvasObjects[o]
        BY <1>1 DEF WithObject, Diagrams
    <2>2. line \notin Live(diagram)
        BY FreshIds DEF DropPull
    <2> HIDE DEF drawn
    <2>. QED  BY <1>1, <1>2, <2>1, <2>2, DiagramParts DEF Live, Present
<1>4. overtaken' = (overtaken \/ source \notin Live(diagram))
    BY DEF DropPull
<1>5. ASSUME ~overtaken'
      PROVE  ~overtaken /\ Held(Intact) /\ ContainersAlong(clipboard) /\ drawn \in Intact
    <2>1. ~overtaken /\ source \in Live(diagram)
        BY <1>4, <1>5
    <2>2. Held(Intact) /\ ContainersAlong(clipboard) /\ Tied(diagram)
        BY <2>1, CanvasIntact DEF WholeInv, Unbroken
    <2>3. Tied(drawn)
        BY <2>1, <2>2, DrawnLineTied
    <2> HIDE DEF drawn
    <2>. QED  BY <1>2, <2>1, <2>2, <2>3 DEF Intact
<1>6. UNCHANGED <<clipboard, containmentRequest>>
    BY DEF DropPull
<1>7. Request'
    BY <1>6, RequestKept DEF WholeInv
<1>8. PICK ends : Agreement(ends)
    BY DEF WholeInv
<1>9. Held(Agreed(ends)) /\ diagram \in Agreed(ends)
    BY <1>8 DEF Agreement, Held
<1> HIDE DEF drawn
<1>10. drawn \in Agreed(ends)
    BY <1>2, <1>3, <1>9, AgreedPart DEF Drawn
<1>11. CASE joins
    <2> DEFINE new == ExplicitConnector(source, target)
               joined(c) == WithConnector(drawn, c, new)
    <2>1. PICK c \in FreshConnectorIds :
            /\ diagram' = joined(c)
            /\ undoStack' = History!Recorded(History!Recorded(undoStack, diagram), drawn)
            /\ redoStack' = <<>>
            /\ connectionQueue' = Append(connectionQueue, c)
            /\ sentConnection' = IF connectionQueue = <<>> THEN Serialized(joined(c), c)
                                                           ELSE sentConnection
        BY <1>11, Zenon DEF DropPull, drawn
    <2>0. PICK pair : pair = {source, target}
        OBVIOUS
    <2> DEFINE further == Further(ends, c, pair)
    <2>2. source \in Blocks /\ target \in Blocks /\ pair \subseteq LiveBlocks(drawn)
        BY <1>3, <1>11, <2>0 DEF LiveBlocks
    <2>3. new \in Connector /\ new.origin = "explicit" /\ Ends(new) = pair
        BY <2>0, <2>2 DEF ExplicitConnector, Connector, Ends
    <2>4. c \in ConnectorIds /\ c \in AllConnectorIds /\ c \notin Drawn(drawn)
        BY <1>3, FreshConnector DEF AllConnectorIds, Drawn
    <2>5. joined(c) \in Agreed(further)
        <3>1. ~Joined(drawn, source, target)
            BY <1>3, <1>11 DEF Joined, Drawn
        <3>. QED  BY <1>10, <2>0, <2>2, <2>4, <3>1, AgreedDrawn
    <2>6. joined(c) \in Sound /\ (Tied(drawn) => Tied(joined(c)))
        BY <1>2, <2>2, <2>3, <2>4, SoundWithConnector, WithConnectorTied
    <2>7. joined(c).connectors[c] = new
        BY <1>2, <2>3, <2>4, WithConnectorFacts
    <2>8. Serialized(joined(c), c).connector = new
        BY <2>7 DEF Serialized
    <2>9. Held(Agreed(further)) /\ drawn \in Agreed(further)
        BY <1>9, <1>10, <2>4, HeldFurther, AgreedFurther
    <2> HIDE DEF joined, new
    <2>10. Held(Agreed(further))'
        <3>1. diagram' \in Agreed(further)
            BY <2>1, <2>5
        <3> HIDE DEF further
        <3>. QED  BY <2>1, <2>9, <3>1, HeldTwice
    <2>11. /\ DOMAIN further = DOMAIN ends \cup {c} /\ further[c] = pair
           /\ \A k \in DOMAIN ends : k # c => further[k] = ends[k]
        BY DEF Further
    <2> HIDE DEF further
    <2>12. connectionQueue \in Seq(ConnectorIds)
        BY DEF EditorInv, Wire
    <2>13. Range(connectionQueue') \subseteq Range(connectionQueue) \cup {c}
        BY <2>1, <2>4, <2>12 DEF Range
    <2>14. containmentRequest' # None => containmentRequest'.asked \in Agreed(further)
        <3> SUFFICES ASSUME containmentRequest # None
                     PROVE  containmentRequest.asked \in Agreed(further)
            BY <1>6
        <3>1. containmentRequest.asked \in Agreed(ends)
            BY <1>8 DEF Agreement
        <3>2. c \notin Drawn(containmentRequest.asked)
            BY FreshConnector DEF WholeInv, Request, Drawn
        <3>. QED  BY <3>1, <3>2, AgreedFurther DEF further
    <2>15. sentConnection' # None /\ sentConnection'.connector # None =>
                Ends(sentConnection'.connector) = further[Head(connectionQueue')]
        <3>1. CASE connectionQueue = <<>>
            <4>1. Head(connectionQueue') = c
                BY <2>1, <2>4, <3>1
            <4>. QED  BY <2>1, <2>3, <2>8, <2>11, <3>1, <4>1
        <3>2. CASE connectionQueue # <<>>
            <4>1. Head(connectionQueue') = Head(connectionQueue)
                BY <2>1, <2>4, <2>12, <3>2
            <4>2. Head(connectionQueue) \in Range(connectionQueue)
                BY <2>12, <3>2 DEF Range
            <4>3. Head(connectionQueue) # c /\ Head(connectionQueue) \in DOMAIN ends
                BY <1>8, <4>2, FreshConnector DEF Agreement
            <4>. QED  BY <1>8, <2>1, <2>11, <3>2, <4>1, <4>3 DEF Agreement
        <3>. QED  BY <3>1, <3>2
    <2>16. \A s \in SavedDiagrams : Drawn(s) \cap DOMAIN further = {}
        BY <1>8, <2>11, FreshConnector DEF Agreement
    <2>17. DOMAIN further \subseteq ConnectorIds /\ Range(connectionQueue)' \subseteq DOMAIN further
        BY <1>8, <2>4, <2>11, <2>13 DEF Agreement
    <2>18. Agreement(further)'
        BY <2>10, <2>14, <2>15, <2>16, <2>17 DEF Agreement
    <2>19. Unbroken'
        <3> SUFFICES ASSUME ~overtaken'  PROVE Held(Intact)' /\ ContainersAlong(clipboard)'
            BY DEF Unbroken
        <3>1. Held(Intact) /\ ContainersAlong(clipboard) /\ drawn \in Intact
            BY <1>5
        <3>2. diagram' \in Intact
            BY <2>1, <2>6, <3>1 DEF Intact
        <3>3. Held(Intact)'
            BY <2>1, <3>1, <3>2, HeldTwice
        <3>. QED  BY <1>6, <3>1, <3>3
    <2>. QED  BY <1>7, <2>18, <2>19 DEF WholeInv
<1>12. CASE ~joins
    <2>1. Edit(drawn) /\ UNCHANGED <<connectionQueue, sentConnection>>
        BY <1>12, Zenon DEF DropPull, drawn
    <2>2. Agreement(ends)'
        <3>1. Held(Agreed(ends))'
            BY <1>9, <1>10, <2>1, HeldEdit
        <3>. QED  BY <1>6, <1>8, <2>1, <3>1, AgreementKept
    <2>3. Unbroken'
        <3> SUFFICES ASSUME ~overtaken'  PROVE Held(Intact)' /\ ContainersAlong(clipboard)'
            BY DEF Unbroken
        <3>1. Held(Intact) /\ ContainersAlong(clipboard) /\ drawn \in Intact
            BY <1>5
        <3>2. Held(Intact)'
            BY <2>1, <3>1, HeldEdit
        <3>. QED  BY <1>6, <3>1, <3>2
    <2>. QED  BY <1>7, <2>2, <2>3 DEF WholeInv
<1>. QED  BY <1>11, <1>12

(* Pulling and removing connectors preserve the second invariant. *)
LEMMA ConnectWhole ==
    ASSUME EditorInv, WholeInv, Connect
    PROVE  WholeInv'
<1>1. CASE \E o \in ObjectIds : BeginPull(o)
    <2>1. UNCHANGED <<diagram, historyVars, clipboard, wireVars>>
        BY <1>1 DEF BeginPull
    <2>. QED  BY <2>1, CanvasIntact, QuietWhole
<1>2. CASE \E l \in Lines, t \in ObjectIds \cup {None} : DropPull(l, t)
    BY <1>2, DropPullWhole
<1>3. CASE \E c \in AllConnectorIds : RemoveConnector(c)
    <2>1. PICK c \in AllConnectorIds : RemoveConnector(c)
        BY <1>3
    <2> DEFINE changed == WithoutConnector(diagram, c)
    <2>2. diagram \in Sound /\ diagram \in Diagrams
        BY DEF EditorInv, Canvas, Sound
    <2>3. /\ changed \in Sound
          /\ \A k \in Drawn(changed) : k \in Drawn(diagram) /\ changed.connectors[k] = diagram.connectors[k]
        BY <2>2, SoundWithoutConnector, WithoutConnectorFacts
    <2>4. Edit(changed) /\ UNCHANGED <<clipboard, wireVars>>
        BY <2>1 DEF RemoveConnector
    <2>5. ~overtaken => Tied(changed) /\ ContainersAlong(clipboard')
        BY <2>2, <2>4, CanvasIntact, WithoutConnectorTied
    <2> HIDE DEF changed
    <2>. QED  BY <2>3, <2>4, <2>5, EditWhole
<1>. QED  BY <1>1, <1>2, <1>3 DEF Connect

(* The second check of a queue is the first of the rest. *)
LEMMA NextInQueue ==
    ASSUME NEW S, NEW queue \in Seq(S), queue # <<>>, Len(queue) # 1
    PROVE  Head(Tail(queue)) = queue[2] /\ queue[2] \in Range(queue)
<1>1. Tail(queue) \in Seq(S) /\ Len(Tail(queue)) = Len(queue) - 1 /\ Tail(queue) # <<>>
    BY RestOfQueue
<1>2. Len(queue) \in Nat /\ Len(Tail(queue)) \in Nat /\ Len(Tail(queue)) # 0
    BY <1>1
<1>3. Tail(queue)[1] = queue[2] /\ 2 \in 1..Len(queue)
    BY <1>1, <1>2
<1>4. Head(Tail(queue)) = Tail(queue)[1]
    BY <1>1
<1>. QED  BY <1>3, <1>4 DEF Range

(* The verdict on a connector: the queue goes on to one that was drawn with *)
(* the ends it is serialised with.                                          *)
LEMMA VerdictWhole ==
    ASSUME EditorInv, WholeInv, NEW ends, Agreement(ends),
           NEW d \in Agreed(ends), Verdict(d), ~overtaken => d \in Intact
    PROVE  WholeInv'
<1>1. /\ sentConnection # None /\ diagram' = d /\ NextCheck(d)
      /\ UNCHANGED <<historyVars, clipboard, containmentRequest, overtaken>>
    BY DEF Verdict
<1>2. connectionQueue \in Seq(ConnectorIds) /\ connectionQueue # <<>>
    BY <1>1 DEF EditorInv, Wire
<1>3. connectionQueue' = Tail(connectionQueue)
    BY <1>1 DEF NextCheck
<1>4. Range(connectionQueue') \subseteq Range(connectionQueue)
    BY <1>2, <1>3 DEF Range
<1>5. Held(Agreed(ends))'
    BY <1>1, HeldSilent DEF Agreement
<1>6. sentConnection' # None /\ sentConnection'.connector # None =>
            Ends(sentConnection'.connector) = ends[Head(connectionQueue')]
    <2>1. CASE Len(connectionQueue) = 1
        BY <1>1, <2>1 DEF NextCheck
    <2>2. CASE Len(connectionQueue) # 1
        <3> DEFINE c == connectionQueue[2]
        <3>1. sentConnection' = Serialized(d, c)
            BY <1>1, <2>2 DEF NextCheck
        <3>2. c \in ConnectorIds /\ Tail(connectionQueue) # <<>>
            BY <1>2, <2>2, RestOfQueue
        <3>3. Head(connectionQueue') = c
            BY <1>2, <1>3, <2>2, NextInQueue
        <3>4. c \in DOMAIN ends
            BY <1>2, <2>2, NextInQueue DEF Agreement
        <3>5. d.connectors[c] # None => c \in Drawn(d)
            BY <3>2, DiagramParts DEF Agreed, Drawn, Present, AllConnectorIds
        <3>6. d.connectors[c] # None => Ends(d.connectors[c]) = ends[c]
            BY <3>4, <3>5 DEF Agreed
        <3>7. sentConnection'.connector = d.connectors[c]
            BY <3>1 DEF Serialized
        <3>. QED  BY <3>3, <3>6, <3>7
    <2>. QED  BY <2>1, <2>2
<1>7. Agreement(ends)'
    <2>1. Range(connectionQueue)' \subseteq DOMAIN ends
        BY <1>4 DEF Agreement
    <2>. QED  BY <1>1, <1>5, <1>6, <2>1 DEF Agreement
<1>8. Request'
    BY <1>1, RequestKept DEF WholeInv
<1>9. Unbroken'
    <2> SUFFICES ASSUME ~overtaken'  PROVE Held(Intact)' /\ ContainersAlong(clipboard)'
        BY DEF Unbroken
    <2>1. ~overtaken
        BY <1>1
    <2>2. Held(Intact) /\ ContainersAlong(clipboard) /\ d \in Intact
        BY <2>1 DEF WholeInv, Unbroken
    <2>3. Held(Intact)'
        BY <1>1, <2>2, HeldSilent
    <2>. QED  BY <1>1, <2>2, <2>3
<1>. QED  BY <1>7, <1>8, <1>9 DEF WholeInv

(* The direction the backend answers joins the blocks the connector joins. *)
LEMMA CanonicalFacts ==
    ASSUME EditorInv, NEW ends, Agreement(ends), sentConnection # None
    PROVE  LET e == Canonical(diagram, Head(connectionQueue), sentConnection)
           IN  e \in Agreed(ends) /\ (diagram \in Intact => e \in Intact)
<1> DEFINE c == Head(connectionQueue)
           e == Canonical(diagram, c, sentConnection)
           answer == Directed(sentConnection.connector)
           now == diagram.connectors[c]
           turned == [now EXCEPT !.sourceId = answer.sourceId, !.targetId = answer.targetId]
<1>1. diagram \in Sound /\ diagram \in Diagrams /\ diagram \in Agreed(ends)
    BY DEF EditorInv, Canvas, Sound, Agreement, Held
<1>2. CASE sentConnection.connector = None \/ c \notin Drawn(diagram)
    BY <1>1, <1>2 DEF Canonical
<1>3. CASE ~(sentConnection.connector = None \/ c \notin Drawn(diagram))
    <2>1. sentConnection.connector \in Connector
        BY <1>3 DEF EditorInv, Wire, SentConnections
    <2>2. now \in Connector /\ c \in AllConnectorIds /\ c \in Drawn(diagram)
        BY <1>1, <1>3, DiagramParts DEF Drawn, Present
    <2>3. c \in DOMAIN ends
        <3>1. connectionQueue \in Seq(ConnectorIds) /\ connectionQueue # <<>>
            BY DEF EditorInv, Wire
        <3>2. c \in Range(connectionQueue)
            BY <3>1 DEF Range
        <3>. QED  BY <3>2 DEF Agreement
    <2>4. now.origin = "explicit" /\ Ends(now) = ends[c]
        BY <1>1, <2>2, <2>3 DEF Agreed
    <2>5. answer \in Connector /\ Ends(answer) = ends[c]
        BY <1>3, <2>1, DirectedFacts DEF Agreement
    <2>6. turned \in Connector /\ turned.origin = "explicit" /\ Ends(turned) = Ends(answer)
        <3> HIDE DEF answer, now
        <3>. QED  BY <2>2, <2>4, <2>5 DEF Connector, Ends
    <2>7. e = WithConnector(diagram, c, turned)
        BY <1>3 DEF Canonical
    <2> HIDE DEF turned, answer, e, now
    <2>8. /\ e \in Diagrams /\ e \in Sound /\ e.connectors[c] = turned
          /\ \A k \in Drawn(e) \ {c} : k \in Drawn(diagram) /\ e.connectors[k] = diagram.connectors[k]
        BY <1>1, <2>2, <2>6, <2>7, WithConnectorType, WithConnectorFacts, SoundWithConnector
    <2>9. \A k \in Drawn(e) :
            /\ k \in Drawn(diagram) /\ Ends(e.connectors[k]) = Ends(diagram.connectors[k])
            /\ e.connectors[k].origin = diagram.connectors[k].origin
        BY <2>2, <2>4, <2>5, <2>6, <2>8 DEF now
    <2>10. e \in Agreed(ends)
        BY <1>1, <2>8, <2>9, AgreedKept
    <2>11. ASSUME diagram \in Intact  PROVE e \in Intact
        <3>1. Tied(diagram) /\ Ends(turned) \subseteq LiveBlocks(diagram)
            BY <2>2, <2>4, <2>5, <2>6, <2>11 DEF Intact, Tied, ConnectorsAttached, now
        <3>2. Tied(e)
            BY <1>1, <2>2, <2>6, <2>7, <3>1, WithConnectorTied
        <3>. QED  BY <2>8, <3>2 DEF Intact
    <2>. QED  BY <2>10, <2>11 DEF e
<1>. QED  BY <1>2, <1>3

(* Every outcome of a connection check preserves the second invariant. *)
LEMMA ConnectionAnswerWhole ==
    ASSUME EditorInv, WholeInv, ConnectionAnswer
    PROVE  WholeInv'
<1>1. PICK ends : Agreement(ends)
    BY DEF WholeInv
<1>2. /\ diagram \in Sound /\ diagram \in Diagrams /\ diagram \in Agreed(ends)
      /\ ~overtaken => diagram \in Intact
    BY <1>1 DEF EditorInv, Canvas, Sound, Agreement, WholeInv, Unbroken, Held
<1>3. CASE ConnectionRefused
    <2> DEFINE c == Head(connectionQueue)
               d == WithoutConnector(diagram, c)
    <2>1. Verdict(d)
        BY <1>3 DEF ConnectionRefused
    <2>2. d \in Sound /\ d \in Diagrams
        BY <1>2, SoundWithoutConnector DEF Sound
    <2>3. d \in Agreed(ends)
        BY <1>2, <2>2, WithoutConnectorFacts, AgreedPart
    <2>4. ~overtaken => d \in Intact
        BY <1>2, <2>2, WithoutConnectorTied DEF Intact
    <2> HIDE DEF d
    <2>. QED  BY <1>1, <2>1, <2>3, <2>4, VerdictWhole
<1>4. CASE ConnectionAccepted
    <2> DEFINE d == Canonical(diagram, Head(connectionQueue), sentConnection)
    <2>1. Verdict(d) /\ sentConnection # None
        BY <1>4 DEF ConnectionAccepted
    <2>2. d \in Agreed(ends) /\ (~overtaken => d \in Intact)
        BY <1>1, <1>2, <2>1, CanonicalFacts
    <2> HIDE DEF d
    <2>. QED  BY <1>1, <2>1, <2>2, VerdictWhole
<1>5. CASE ConnectionThrew
    BY <1>1, <1>2, <1>5, VerdictWhole DEF ConnectionThrew
<1>. QED  BY <1>3, <1>4, <1>5 DEF ConnectionAnswer

(* Sending a containment operation preserves the second invariant. *)
LEMMA ContainWhole ==
    ASSUME EditorInv, WholeInv, Contain
    PROVE  WholeInv'
<1>1. diagram \in Diagrams /\ Live(diagram) \subseteq ObjectIds
      /\ \A o \in Live(diagram) : diagram.canvasObjects[o] \in CanvasObject
    BY DiagramParts DEF EditorInv, Canvas, Sound
<1>2. PICK o \in Live(diagram), object \in CanvasObject : SendContainment(o, object)
    <2>1. CASE \E o \in ObjectIds, p \in Containers \cup {None} : AssignSemanticParent(o, p)
        <3>1. PICK o \in ObjectIds, p \in Containers \cup {None} : AssignSemanticParent(o, p)
            BY <2>1
        <3> DEFINE object == [diagram.canvasObjects[o] EXCEPT !.parentContainerId = p]
        <3>2. /\ o \in Live(diagram) /\ diagram.canvasObjects[o] \in CanvasObject
              /\ p \in ObjectIds \cup {None}
            BY <1>1, <3>1 DEF AssignSemanticParent, ObjectIds
        <3>3. object \in CanvasObject
            BY <3>2 DEF CanvasObject
        <3>. QED  BY <3>1, <3>2, <3>3 DEF AssignSemanticParent
    <2>2. CASE \E o \in Blocks, presentation \in {"node", "container"} :
                    SetResourcePresentation(o, presentation)
        <3>1. PICK o \in Blocks, presentation \in {"node", "container"} :
                    SetResourcePresentation(o, presentation)
            BY <2>2
        <3> DEFINE object == [diagram.canvasObjects[o] EXCEPT !.presentation = presentation]
        <3>2. o \in Live(diagram) /\ diagram.canvasObjects[o] \in CanvasObject
            BY <1>1, <3>1 DEF SetResourcePresentation, LiveBlocks
        <3>3. object \in CanvasObject
            BY <3>2 DEF CanvasObject
        <3>. QED  BY <3>1, <3>2, <3>3 DEF SetResourcePresentation
    <2>. QED  BY <2>1, <2>2 DEF Contain
<1> DEFINE asked == WithObject(diagram, o, object)
<1>3. asked \in Diagrams /\ asked.connectors = diagram.connectors
      /\ asked.canvasObjects = [diagram.canvasObjects EXCEPT ![o] = object]
    BY <1>1, WithObjectType DEF WithObject, Diagrams
<1> HIDE DEF asked
<1>4. Live(asked) = Live(diagram)
    BY <1>1, <1>3, DiagramParts, NoneAssumption DEF Live, Present
<1>5. /\ containmentRequest' =
            [sent |-> diagram, asked |-> asked,
             valid |-> ValidReferences(diagram) /\ ValidReferences(asked)]
      /\ UNCHANGED <<diagram, historyVars, clipboard, connectionQueue, sentConnection, overtaken>>
    BY <1>2 DEF SendContainment, asked
<1>6. Request'
    BY <1>3, <1>4, <1>5 DEF Request, ValidReferences
<1>7. ASSUME NEW S, Held(S)  PROVE Held(S)'
    BY <1>5, <1>7, HeldSilent DEF Held
<1>8. PICK ends : Agreement(ends)
    BY DEF WholeInv
<1>9. asked \in Agreed(ends)
    BY <1>3, <1>8, AgreedPart DEF Agreement, Held, Drawn
<1>10. Held(Agreed(ends))'
    BY <1>7, <1>8 DEF Agreement
<1>11. Agreement(ends)'
    BY <1>5, <1>8, <1>9, <1>10 DEF Agreement
<1>12. Unbroken'
    <2> SUFFICES ASSUME ~overtaken'  PROVE Held(Intact)' /\ ContainersAlong(clipboard)'
        BY DEF Unbroken
    <2>1. Held(Intact) /\ ContainersAlong(clipboard)
        BY <1>5 DEF WholeInv, Unbroken
    <2>2. Held(Intact)'
        BY <1>7, <2>1
    <2>. QED  BY <1>5, <2>1, <2>2
<1>. QED  BY <1>6, <1>11, <1>12 DEF WholeInv

(* Every outcome of a containment operation preserves the second invariant. *)
LEMMA ContainmentAnswerWhole ==
    ASSUME EditorInv, WholeInv, ContainmentAnswer
    PROVE  WholeInv'
<1>1. /\ containmentRequest' = None
      /\ UNCHANGED <<clipboard, connectionQueue, sentConnection>>
    BY DEF ContainmentAnswer, ContainmentApplied, ContainmentRefused, ContainmentThrew
<1>2. Request'
    BY <1>1, RequestKept DEF WholeInv
<1>3. PICK ends : Agreement(ends)
    BY DEF WholeInv
<1>4. Held(Agreed(ends)) /\ diagram \in Agreed(ends)
    BY <1>3 DEF Agreement, Held
<1>5. CASE ContainmentApplied
    <2> DEFINE asked == containmentRequest.asked
               sent == containmentRequest.sent
               changed == CanonicalState(diagram, Normalized(asked))
    <2>1. /\ Edit(changed) /\ containmentRequest # None /\ containmentRequest.valid
          /\ overtaken' = (overtaken \/ Overtakes(diagram, sent))
        BY <1>5, Zenon DEF ContainmentApplied
    <2>2. /\ diagram \in Sound /\ diagram \in Diagrams
          /\ asked \in Diagrams /\ Acyclic(asked.canvasObjects) /\ ParentsHold(asked)
        BY <2>1 DEF EditorInv, Canvas, Sound, Wire, ContainmentRequests
    <2>3. ConnectorsAttached(asked) /\ Live(asked) = Live(sent)
        BY <2>1 DEF WholeInv, Request
    <2>4. changed \in Sound
        BY <2>2, SoundAnswer
    <2>5. changed \in Agreed(ends)
        BY <1>3, <2>1, <2>2, AgreedAnswer DEF Agreement
    <2>6. Agreement(ends)'
        <3> HIDE DEF changed
        <3>1. Held(Agreed(ends))'
            BY <1>4, <2>1, <2>5, HeldEdit
        <3>. QED  BY <1>1, <1>3, <3>1, AgreementKept
    <2>7. Unbroken'
        <3> SUFFICES ASSUME ~overtaken'  PROVE Held(Intact)' /\ ContainersAlong(clipboard)'
            BY DEF Unbroken
        <3>1. ~overtaken /\ ~Overtakes(diagram, sent)
            BY <2>1
        <3>2. Held(Intact) /\ ContainersAlong(clipboard) /\ AnchorsAttached(diagram)
            BY <3>1, CanvasIntact DEF WholeInv, Unbroken, Tied
        <3>3. /\ Live(asked) \subseteq Live(diagram)
              /\ \A o \in Live(diagram) \ Live(asked) :
                    diagram.canvasObjects[o].parentContainerId = None
            BY <2>3, <3>1 DEF Overtakes
        <3>4. changed \in Intact
            BY <2>2, <2>3, <2>4, <3>2, <3>3, AnswerTied DEF Intact
        <3> HIDE DEF changed
        <3>5. Held(Intact)'
            BY <2>1, <3>2, <3>4, HeldEdit
        <3>. QED  BY <1>1, <3>2, <3>5
    <2>. QED  BY <1>2, <2>6, <2>7 DEF WholeInv
<1>6. CASE ContainmentRefused \/ ContainmentThrew
    <2>1. UNCHANGED <<diagram, historyVars, overtaken>>
        BY <1>6 DEF ContainmentRefused, ContainmentThrew
    <2>2. ASSUME NEW S, Held(S)  PROVE Held(S)'
        BY <2>1, <2>2, HeldSilent DEF Held
    <2>3. Agreement(ends)'
        <3>1. Held(Agreed(ends))'
            BY <1>4, <2>2
        <3>. QED  BY <1>1, <1>3, <3>1, AgreementKept
    <2>4. Unbroken'
        <3> SUFFICES ASSUME ~overtaken'  PROVE Held(Intact)' /\ ContainersAlong(clipboard)'
            BY DEF Unbroken
        <3>1. Held(Intact) /\ ContainersAlong(clipboard)
            BY <2>1 DEF WholeInv, Unbroken
        <3>2. Held(Intact)'
            BY <2>2, <3>1
        <3>. QED  BY <1>1, <3>1, <3>2
    <2>. QED  BY <1>2, <2>3, <2>4 DEF WholeInv
<1>. QED  BY <1>5, <1>6 DEF ContainmentAnswer

(* Loading and starting a diagram preserve the second invariant. *)
LEMMA SwitchWhole ==
    ASSUME EditorInv, WholeInv, Switch
    PROVE  WholeInv'
<1>1. PICK ends : Agreement(ends)
    BY DEF WholeInv
<1>2. PICK d \in Intact \cap Agreed(ends) : ShowDiagram(d)
    <2>1. CASE LoadDiagramState
        <3>1. PICK d \in SavedDiagrams : ShowDiagram(d)
            BY <2>1 DEF LoadDiagramState
        <3>2. d \in Diagrams /\ Whole(d) /\ ManagedFollow(d)
            BY <3>1, SavedDiagramsAssumption
        <3>3. d \in Intact
            BY <3>2 DEF Whole, Sound, Intact, Tied
        <3>4. d \in Agreed(ends)
            BY <1>1, <3>1, AgreedLoaded DEF Agreement
        <3>. QED  BY <3>1, <3>3, <3>4
    <2>2. CASE NewDiagram
        <3>1. EmptyDiagram \in Agreed(ends)
            BY <1>1, AgreedLoaded DEF Agreement
        <3>2. EmptyDiagram \in Intact
            BY SoundEmpty, EmptyTied DEF Intact
        <3>. QED  BY <2>2, <3>1, <3>2 DEF NewDiagram
    <2>. QED  BY <2>1, <2>2 DEF Switch
<1>3. /\ diagram' = d /\ History!ClearHistory
      /\ UNCHANGED <<clipboard, connectionQueue, sentConnection, containmentRequest, overtaken>>
    BY <1>2 DEF ShowDiagram, wireVars
<1>4. Held(Agreed(ends))' /\ Held(Intact)'
    BY <1>2, <1>3, HeldClear
<1>5. Agreement(ends)'
    BY <1>1, <1>3, <1>4, AgreementKept
<1>6. Request'
    BY <1>3, RequestKept DEF WholeInv
<1>7. Unbroken'
    BY <1>3, <1>4 DEF WholeInv, Unbroken
<1>. QED  BY <1>5, <1>6, <1>7 DEF WholeInv

-----------------------------------------------------------------------------

(* The second invariant holds, and with it what it was made for. *)
LEMMA WholeInvariant == Spec => []WholeInv
<1>1. Init => WholeInv
    <2> SUFFICES ASSUME Init  PROVE WholeInv
        OBVIOUS
    <2> DEFINE ends == [c \in {} |-> {}]
    <2>1. DOMAIN ends = {}
        OBVIOUS
    <2> HIDE DEF ends
    <2>2. \A s \in SavedDiagrams : Drawn(s) \cap DOMAIN ends = {}
        BY <2>1
    <2>3. EmptyDiagram \in Agreed(ends) /\ EmptyDiagram \in Intact
        BY <2>2, AgreedLoaded, SoundEmpty, EmptyTied DEF Intact
    <2>4. Held(Agreed(ends)) /\ Held(Intact)
        BY <2>3 DEF Held, Init
    <2>5. Range(connectionQueue) = {}
        BY DEF Init, Range
    <2>6. Agreement(ends)
        BY <2>1, <2>2, <2>4, <2>5 DEF Init, Agreement
    <2>7. ContainersAlong(clipboard)
        BY DEF Init, NoObjects, ContainersAlong, Present
    <2>. QED  BY <2>4, <2>6, <2>7 DEF Init, WholeInv, Request, Unbroken
<1>2. EditorInv /\ WholeInv /\ [Next]_vars => WholeInv'
    <2> SUFFICES ASSUME EditorInv, WholeInv, [Next]_vars  PROVE WholeInv'
        OBVIOUS
    <2>1. CASE Create
        BY <2>1, CreateWhole
    <2>2. CASE RecordDataEdit
        BY <2>2, RecordDataEditWhole
    <2>3. CASE Remove
        BY <2>3, RemoveWhole
    <2>4. CASE SelectSome
        BY <2>4, SelectSomeWhole
    <2>5. CASE Grouping
        BY <2>5, GroupingWhole
    <2>6. CASE Anchor
        BY <2>6, AnchorWhole
    <2>7. CASE TimeTravel
        BY <2>7, TimeTravelWhole
    <2>8. CASE Clip
        BY <2>8, ClipWhole
    <2>9. CASE Connect
        BY <2>9, ConnectWhole
    <2>10. CASE ConnectionAnswer
        BY <2>10, ConnectionAnswerWhole
    <2>11. CASE Contain
        BY <2>11, ContainWhole
    <2>12. CASE ContainmentAnswer
        BY <2>12, ContainmentAnswerWhole
    <2>13. CASE Switch
        BY <2>13, SwitchWhole
    <2>14. CASE UNCHANGED vars
        <3>1. UNCHANGED <<diagram, historyVars, clipboard, wireVars>>
            BY <2>14 DEF vars
        <3>. QED  BY <3>1, CanvasIntact, QuietWhole
    <2>. QED  BY <2>1, <2>2, <2>3, <2>4, <2>5, <2>6, <2>7, <2>8, <2>9, <2>10, <2>11, <2>12,
                 <2>13, <2>14, Zenon DEF Next
<1>. QED  BY <1>1, <1>2, EditorInvariant, PTL DEF Spec

(* All that is held is a member. *)
LEMMA HeldMembers ==
    ASSUME NEW S, Held(S)
    PROVE  {diagram} \cup Snapshots \subseteq S
BY DEF Held, Snapshots, Range

(* Unless a late answer or drop overtook the canvas, the shown diagram and  *)
(* every snapshot hold no dangling parent, anchor, connector or group and   *)
(* no cycle, whatever else is interleaved.                                  *)
THEOREM ReferencesWhole == Spec => []WholeUnlessOvertaken
<1>1. WholeInv => WholeUnlessOvertaken
    <2> SUFFICES ASSUME WholeInv, ~overtaken, NEW d \in {diagram} \cup Snapshots
                 PROVE  Whole(d)
        BY DEF WholeUnlessOvertaken
    <2>1. d \in Intact
        BY HeldMembers DEF WholeInv, Unbroken
    <2>. QED  BY <2>1 DEF Intact, Sound, Tied, Whole
<1>. QED  BY <1>1, WholeInvariant, PTL

(* Unless a late answer or drop overtook the canvas, what a managed         *)
(* connector says of the hierarchy is so, on the canvas and in every        *)
(* snapshot: removal, undo and answers keep it so.                          *)
THEOREM ManagedConnectorsTrue == Spec => []ManagedFollowHierarchy
<1>1. WholeInv => ManagedFollowHierarchy
    <2> SUFFICES ASSUME WholeInv, ~overtaken, NEW d \in {diagram} \cup Snapshots
                 PROVE  ManagedFollow(d)
        BY DEF ManagedFollowHierarchy
    <2>1. d \in Intact
        BY HeldMembers DEF WholeInv, Unbroken
    <2>. QED  BY <2>1 DEF Intact, Tied
<1>. QED  BY <1>1, WholeInvariant, PTL

(* The check when a connector is drawn is enough: undo, redo, a verdict     *)
(* that turns it round and an answer that replaces all connectors never     *)
(* bring a second one between two blocks.                                   *)
THEOREM PairsJoinedOnce == Spec => []OneConnectorPerPair
<1>1. WholeInv => OneConnectorPerPair
    <2> SUFFICES ASSUME WholeInv, NEW d \in {diagram} \cup Snapshots,
                        NEW c \in Drawn(d), NEW e \in Drawn(d), JoinTwice(d, c, e)
                 PROVE  c = e \/ \E s \in SavedDiagrams : JoinTwice(s, c, e)
        BY DEF OneConnectorPerPair
    <2>1. PICK ends : Agreement(ends)
        BY DEF WholeInv
    <2>2. d \in Agreed(ends)
        BY <2>1, HeldMembers DEF Agreement
    <2>. QED  BY <2>2 DEF Agreed
<1>. QED  BY <1>1, WholeInvariant, PTL

(* Objects cloned under new names are copies of their own, if nothing they  *)
(* refer to is renamed without being copied.                                *)
LEMMA ClonesAreCopies ==
    ASSUME NEW d \in Diagrams, NEW originals \in [ObjectIds -> CanvasObject \cup {None}],
           NEW idMap, \A o \in DOMAIN idMap : idMap[o] \in ObjectIds \ Live(d),
           \A o, p \in DOMAIN idMap : idMap[o] = idMap[p] => o = p,
           Present(originals) \subseteq DOMAIN idMap,
           \A o \in Present(originals) :
                {originals[o].parentContainerId, originals[o].sourceAnchor,
                 originals[o].targetAnchor} \cap DOMAIN idMap \subseteq Present(originals)
    PROVE  LET e == CloneObjects(d, originals, idMap)
           IN  IsCopy(originals, e, Live(e) \ Live(d))
<1> DEFINE e == CloneObjects(d, originals, idMap)
           new == {idMap[o] : o \in Present(originals)}
           name == [o \in Present(originals) |-> idMap[o]]
           renamed(i) == IF i \in Present(originals) THEN name[i] ELSE None
           copy(object) == [object EXCEPT !.groupId = None,
                                          !.parentContainerId = renamed(@),
                                          !.sourceAnchor = renamed(@),
                                          !.targetAnchor = renamed(@)]
<1>1. /\ Live(e) \ Live(d) = new
      /\ \A o \in Present(originals) : e.canvasObjects[idMap[o]] = Copied(idMap, originals[o])
    BY CloneObjectsCopies
<1>2. name \in Bijection(Present(originals), new)
    BY DEF Bijection, Injection, Surjection, IsInjective
<1>3. ASSUME NEW o \in Present(originals)
      PROVE  Copied(idMap, originals[o]) = copy(originals[o])
    <2> DEFINE object == originals[o]
    <2>1. \A i : i \notin DOMAIN idMap \/ i \in Present(originals) => Renamed(idMap, i) = renamed(i)
        BY DEF Renamed
    <2> HIDE DEF object, renamed
    <2>2. /\ Renamed(idMap, object.parentContainerId) = renamed(object.parentContainerId)
          /\ Renamed(idMap, object.sourceAnchor) = renamed(object.sourceAnchor)
          /\ Renamed(idMap, object.targetAnchor) = renamed(object.targetAnchor)
        BY <2>1 DEF object
    <2>3. Copied(idMap, object) = copy(object)
        BY <2>2 DEF Copied
    <2>. QED  BY <2>3 DEF object
<1>4. \A o \in Present(originals) : e.canvasObjects[name[o]] = copy(originals[o])
    <2> HIDE DEF e, copy
    <2>. QED  BY <1>1, <1>3
<1>5. IsCopy(originals, e, new)
    <2> HIDE DEF e, new
    <2>. QED  BY <1>2, <1>4, Zenon DEF IsCopy
<1>. QED  BY <1>1, <1>5

(* What is pasted or duplicated refers only to what was copied along and    *)
(* is in no group, and the rest of the canvas stays as it was.              *)
THEOREM CopiesCorrect == Spec => CopiesStandAlone
<1> DEFINE new == Live(diagram') \ Live(diagram)
           Rest == \A o \in Live(diagram) : diagram'.canvasObjects[o] = diagram.canvasObjects[o]
<1>1. ASSUME EditorInv, PasteObjects
      PROVE  IsCopy(clipboard, diagram', new) /\ Rest
    <2>1. PICK idMap \in Renamings(Present(clipboard)) :
            diagram' = CloneObjects(diagram, clipboard, idMap)
        BY <1>1 DEF PasteObjects, Edit
    <2>2. diagram \in Diagrams /\ clipboard \in [ObjectIds -> CanvasObject \cup {None}]
        BY <1>1 DEF EditorInv, Canvas, Sound, Hand
    <2>3. /\ DOMAIN idMap = Present(clipboard)
          /\ \A o \in DOMAIN idMap : idMap[o] \in ObjectIds \ Live(diagram)
          /\ \A o, p \in DOMAIN idMap : idMap[o] = idMap[p] => o = p
        BY <1>1, RenamingFacts
    <2>4. IsCopy(clipboard, diagram', new)
        BY <2>1, <2>2, <2>3, ClonesAreCopies
    <2>5. Rest
        BY <2>1, <2>2, <2>3, CloneObjectsCopies
    <2>. QED  BY <2>4, <2>5
<1>2. ASSUME EditorInv, WholeInv, DuplicateSelectedObjects
      PROVE  (~overtaken => IsCopy(SelectedObjects, diagram', new)) /\ Rest
    <2>1. PICK idMap \in Renamings(selectedObjectIds) :
            diagram' = CloneObjects(diagram, SelectedObjects, idMap)
        BY <1>2 DEF DuplicateSelectedObjects, Edit
    <2>2. /\ diagram \in Diagrams /\ SelectedObjects \in [ObjectIds -> CanvasObject \cup {None}]
          /\ Present(SelectedObjects) \subseteq selectedObjectIds
        BY <1>2, SelectedObjectsFacts DEF EditorInv, Canvas, Sound
    <2>3. /\ DOMAIN idMap = selectedObjectIds
          /\ \A o \in DOMAIN idMap : idMap[o] \in ObjectIds \ Live(diagram)
          /\ \A o, p \in DOMAIN idMap : idMap[o] = idMap[p] => o = p
        BY <1>2, RenamingFacts
    <2>4. ASSUME ~overtaken  PROVE IsCopy(SelectedObjects, diagram', new)
        BY <1>2, <2>1, <2>2, <2>3, <2>4, CanvasIntact, SelectedAlong, ClonesAreCopies
    <2>5. Rest
        BY <2>1, <2>2, <2>3, CloneObjectsCopies
    <2>. QED  BY <2>4, <2>5
<1>3. EditorInv /\ WholeInv /\ [Next]_vars =>
        [new # {} =>
            /\ PasteObjects => IsCopy(clipboard, diagram', new)
            /\ ~overtaken /\ DuplicateSelectedObjects => IsCopy(SelectedObjects, diagram', new)
            /\ PasteObjects \/ DuplicateSelectedObjects => Rest]_vars
    <2> HIDE DEF new, Rest
    <2>. QED  BY <1>1, <1>2, Zenon
<1>. QED  BY <1>3, EditorInvariant, WholeInvariant, PTL DEF Spec, CopiesStandAlone

-----------------------------------------------------------------------------
(* The editor's history is the undo history, whatever else a step does. *)

(* An edit that records, a step that leaves the history alone, and a switch *)
(* to another diagram.                                                      *)
LEMMA HistorySteps ==
    ASSUME EditorInv'
    PROVE  /\ \A changed : Edit(changed) => Past!Next
           /\ UNCHANGED historyVars => Past!Next
           /\ History!Undo \/ History!Redo => Past!Next
           /\ History!ClearHistory => Past!Next
<1>1. diagram' \in Diagrams
    BY DEF EditorInv, Canvas, Sound
<1>2. \A changed : Edit(changed) => Past!RecordedEdit
    BY <1>1, Zenon DEF Edit, History!PushHistory, History!Recorded,
                Past!RecordedEdit, Past!PushHistory, Past!Recorded
<1>3. UNCHANGED historyVars => Past!SilentEdit
    BY <1>1, Zenon DEF historyVars, Past!SilentEdit, Past!stacks
<1>4. History!Undo => Past!Undo
    BY Zenon DEF History!Undo, History!Top, History!Popped, Past!Undo, Past!Top, Past!Popped
<1>5. History!Redo => Past!Redo
    BY Zenon DEF History!Redo, History!Top, History!Popped, Past!Redo, Past!Top, Past!Popped
<1>6. History!ClearHistory => Past!Replace
    BY <1>1, Zenon DEF History!ClearHistory, Past!Replace, Past!ClearHistory
<1>. QED  BY <1>2, <1>3, <1>4, <1>5, <1>6, Zenon DEF Past!Next

(* A drop is seen by the history as an edit recorded once or twice. *)
LEMMA DropPullHistory ==
    ASSUME EditorInv, EditorInv', NEW line \in Lines, NEW target \in ObjectIds \cup {None},
           DropPull(line, target)
    PROVE  Past!Next
<1> DEFINE source == pullConnectState
           drawn == WithObject(diagram, line,
                [NewObject(line) EXCEPT !.sourceAnchor = source, !.targetAnchor = target])
           joins == {source, target} \subseteq LiveBlocks(diagram) /\ ~Joined(diagram, source, target)
<1>1. CASE joins
    <2>1. /\ undoStack' = Past!Recorded(Past!Recorded(undoStack, diagram), drawn)
          /\ redoStack' = <<>> /\ canUndo' = TRUE /\ canRedo' = FALSE
        BY <1>1, Zenon DEF DropPull, History!Recorded, Past!Recorded
    <2>2. drawn \in Diagrams /\ diagram' \in Diagrams
        BY DrawnLine DEF Sound, EditorInv, Canvas
    <2> HIDE DEF drawn
    <2>. QED  BY <2>1, <2>2, Zenon DEF Past!Next, Past!RecordedTwice
<1>2. CASE ~joins
    <2>1. Edit(drawn)
        BY <1>2, Zenon DEF DropPull
    <2>. QED  BY <2>1, HistorySteps
<1>. QED  BY <1>1, <1>2

(* Every step of the editor is a step of the undo history: an edit recorded *)
(* once or, when a drawn line also connects, twice; an undo or a redo; a    *)
(* switch to another diagram; or a change the history does not see.         *)
THEOREM ImplementsUndoHistory == Spec => Past!Spec
<1>1. Init => Past!Init
    BY EmptyDiagramType, Zenon DEF Init, Past!Init
<1>2. EditorInv /\ EditorInv' /\ [Next]_vars => [Past!Next]_(Past!vars)
    <2> SUFFICES ASSUME EditorInv, EditorInv', [Next]_vars  PROVE Past!Next \/ UNCHANGED Past!vars
        OBVIOUS
    <2>1. CASE Create \/ RecordDataEdit \/ Remove
        BY <2>1, HistorySteps, Zenon
            DEF Create, AddCanvasObject, RecordDataEdit, Remove, RemoveCanvasObject,
                RemoveSelected, RemoveSubtree, RemoveMultiple
    <2>2. CASE SelectSome
        BY <2>2, HistorySteps, Zenon
            DEF SelectSome, SelectObject, ToggleObjectSelection, SelectObjectsByRect,
                SelectAllObjects, ClearSelection, Select
    <2>3. CASE Grouping \/ Anchor
        BY <2>3, HistorySteps, Zenon
            DEF Grouping, GroupSelectedObjects, Ungroup, Anchor, UpdateLineAnchors
    <2>4. CASE TimeTravel
        BY <2>4, HistorySteps, Zenon DEF TimeTravel, Undo, Redo
    <2>5. CASE Clip
        BY <2>5, HistorySteps, Zenon
            DEF Clip, CopySelectedObjects, Cut, RemoveMultiple, PasteObjects,
                DuplicateSelectedObjects
    <2>6. CASE Connect
        BY <2>6, HistorySteps, DropPullHistory, Zenon DEF Connect, BeginPull, RemoveConnector
    <2>7. CASE ConnectionAnswer
        BY <2>7, HistorySteps, Zenon
            DEF ConnectionAnswer, ConnectionRefused, ConnectionAccepted, ConnectionThrew, Verdict
    <2>8. CASE Contain
        BY <2>8, HistorySteps, Zenon
            DEF Contain, AssignSemanticParent, SetResourcePresentation, SendContainment
    <2>9. CASE ContainmentAnswer
        BY <2>9, HistorySteps, Zenon
            DEF ContainmentAnswer, ContainmentApplied, ContainmentRefused, ContainmentThrew
    <2>10. CASE Switch
        BY <2>10, HistorySteps, Zenon DEF Switch, LoadDiagramState, NewDiagram, ShowDiagram
    <2>11. CASE UNCHANGED vars
        BY <2>11, HistorySteps, Zenon DEF vars
    <2>. QED  BY <2>1, <2>2, <2>3, <2>4, <2>5, <2>6, <2>7, <2>8, <2>9, <2>10, <2>11, Zenon DEF Next
<1>. QED  BY <1>1, <1>2, EditorInvariant, PTL DEF Spec, Past!Spec

(* With every handler that writes the stacks by hand in place, the flags    *)
(* are honest and no more than MaxHistory snapshots are held.               *)
THEOREM HistoryCorrect == Spec => []HistoryHonest
<1>1. Past!MaxHistoryAssumption
    BY MaxHistoryAssumption DEF Past!MaxHistoryAssumption
<1>2. Past!Spec => []Past!FlagsMatchStacks
    BY <1>1, Past!FlagsCorrect
<1>3. Past!Spec => []Past!HistoryBounded
    BY <1>1, Past!MemoryBounded
<1>4. Past!FlagsMatchStacks /\ Past!HistoryBounded => HistoryHonest
    BY Zenon DEF HistoryHonest, History!FlagsMatchStacks, History!HistoryBounded,
           Past!FlagsMatchStacks, Past!HistoryBounded
<1>. QED  BY <1>2, <1>3, <1>4, ImplementsUndoHistory, PTL

(* Through all of that the user sees one timeline of diagrams with a        *)
(* cursor: every step of the editor edits it, amends the shown entry, moves *)
(* the cursor or starts over.                                               *)
THEOREM EditorTimeline == Spec => Past!ImplementsTimeline
<1>1. Past!MaxHistoryAssumption
    BY MaxHistoryAssumption DEF Past!MaxHistoryAssumption
<1>2. Past!Spec => Past!ImplementsTimeline
    BY <1>1, Past!HistoryImplementsTimeline
<1>. QED  BY <1>2, ImplementsUndoHistory, PTL

=============================================================================
