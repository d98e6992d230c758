---------------------------- MODULE DiagramGraph ----------------------------
(***************************************************************************)
(* A diagram as the editor holds it, and what each operation of the store  *)
(* makes of it.  A diagram is three maps (history-support.ts): canvas      *)
(* objects, connectors between architecture blocks and visual groups.  The *)
(* maps refer to each other by identifier only, and every operation has to *)
(* keep those references whole.  A map has a value for every identifier,   *)
(* None (for a group: no members) where the key is missing.                *)
(*                                                                         *)
(* Positions, sizes, names, service configuration and z-order are left     *)
(* out: none of them is a reference.  What an object is never changes      *)
(* while it lives, so its kind is a property of its identifier; what it is *)
(* shown as, a node or a container, is state.  The types of connection are *)
(* left out too: a pair of blocks has at most one.                         *)
(***************************************************************************)
EXTENDS Functions

CONSTANTS
    Blocks,        \* identifiers of architecture blocks
    Containers,    \* what may contain: semantic containers, and the VPC and
                   \* Subnet blocks shown as containers (these are in Blocks)
    Shapes,        \* identifiers of shapes, texts and UML objects
    Lines,         \* identifiers of lines
    ConnectorIds,  \* identifiers the client gives to connectors
    GroupIds,      \* identifiers of visual groups
    Placements,    \* <<child, parent>>: allowed_parent of the backend catalog
    Connections,   \* <<source, target>>: resolve_spec finds a specification
    Contains,      \* <<ancestor, block>>: the same for a managed connection
    None           \* undefined / null

ObjectIds == Blocks \cup Containers \cup Shapes \cup Lines

ASSUME GraphAssumption ==
    /\ Shapes \cap (Blocks \cup Containers) = {}
    /\ Lines \cap (Blocks \cup Containers \cup Shapes) = {}
    /\ Placements \subseteq (Blocks \cup Containers) \X Containers
    /\ Connections \subseteq Blocks \X Blocks
    /\ Contains \subseteq (Blocks \cap Containers) \X Blocks
    /\ None \notin ObjectIds \cup GroupIds
    /\ ConnectorIds \cap (Blocks \X Blocks) = {}

(* A managed connector is identified by a digest of the pair it joins, so   *)
(* that deriving it again finds it again: here, by the pair itself.         *)
AllConnectorIds == ConnectorIds \cup (Blocks \X Blocks)

CanvasObject ==
    [parentContainerId : ObjectIds \cup {None},
     presentation      : {"node", "container"},
     groupId           : GroupIds \cup {None},
     sourceAnchor      : ObjectIds \cup {None},
     targetAnchor      : ObjectIds \cup {None}]

Connector ==
    [sourceId : Blocks, targetId : Blocks, origin : {"explicit", "containment"}]

ASSUME NoneAssumption == None \notin CanvasObject \cup Connector

Diagrams ==
    [canvasObjects : [ObjectIds -> CanvasObject \cup {None}],
     connectors    : [AllConnectorIds -> Connector \cup {None}],
     objectGroups  : [GroupIds -> SUBSET ObjectIds]]

NoObjects == [o \in ObjectIds |-> None]

EmptyDiagram ==
    [canvasObjects |-> NoObjects,
     connectors    |-> [c \in AllConnectorIds |-> None],
     objectGroups  |-> [g \in GroupIds |-> {}]]

Present(map) == {key \in DOMAIN map : map[key] # None}

Live(d) == Present(d.canvasObjects)

LiveBlocks(d) == Live(d) \cap Blocks

Drawn(d) == Present(d.connectors)

Ends(connector) == {connector.sourceId, connector.targetId}

Groups(d) == {g \in GroupIds : d.objectGroups[g] # {}}

(* Every object identifier a diagram mentions, dangling ones included. *)
Mentioned(d) ==
    Live(d)
    \cup (UNION {Ends(d.connectors[c]) : c \in Drawn(d)})
    \cup (UNION {{d.canvasObjects[o].parentContainerId, d.canvasObjects[o].sourceAnchor,
                  d.canvasObjects[o].targetAnchor} : o \in Live(d)})

-----------------------------------------------------------------------------
(* The containment hierarchy: one parent pointer per object. *)

ParentOf(objects, o) ==
    IF o \in Present(objects) THEN {objects[o].parentContainerId} \ {None} ELSE {}

(* What is met on the way up from an object that goes on from the members   *)
(* of through and ends at any other, a pointer that dangles included: the   *)
(* least set that holds the parents of o and of its members in through.     *)
WayUp(objects, o, through) ==
    {a \in ObjectIds : \A S \in SUBSET ObjectIds :
        (ParentOf(objects, o) \subseteq S
            /\ \A b \in S \cap through : ParentOf(objects, b) \subseteq S) => a \in S}

Ancestors(objects, o) == WayUp(objects, o, ObjectIds)

(* Fault: only the parent of the parent is looked at. *)
GrandparentOf(objects, o, gone) ==
    LET above == UNION {ParentOf(objects, p) : p \in ParentOf(objects, o)}
    IN  IF above = {} THEN None ELSE CHOOSE a \in above : TRUE

(* The first one on the way up that is not in gone. *)
NearestAncestorOutside(objects, o, gone) ==
    LET kept == WayUp(objects, o, gone) \ gone
    IN  IF kept = {} THEN None ELSE CHOOSE a \in kept : TRUE

-----------------------------------------------------------------------------
(* What the store's operations make of a diagram. *)

WithObject(d, o, object) == [d EXCEPT !.canvasObjects[o] = object]

(* A semantic container is always shown as one, a block as a node at first. *)
NewObject(o) ==
    [parentContainerId |-> None,
     presentation      |-> IF o \in Containers \ Blocks THEN "container" ELSE "node",
     groupId           |-> None,
     sourceAnchor      |-> None,
     targetAnchor      |-> None]

(* Fault: a group left with one member lives on. *)
LeaveGroupsUndissolved(d, ids) ==
    [d EXCEPT !.objectGroups = [g \in GroupIds |-> @[g] \ ids]]

(* Objects that are removed or regrouped leave the groups they are in, and  *)
(* a group left with fewer than two members is dissolved.                   *)
LeaveGroups(d, ids) ==
    LET left == {d.canvasObjects[o].groupId : o \in ids \cap Live(d)}
        rest(g) == d.objectGroups[g] \ ids
        dissolved == {g \in Groups(d) \cap left : \A o, p \in rest(g) : o = p}
    IN  [d EXCEPT
            !.canvasObjects = [o \in ObjectIds |->
                IF o \in Live(d) /\ \E g \in dissolved : o \in rest(g)
                    THEN [@[o] EXCEPT !.groupId = None] ELSE @[o]],
            !.objectGroups = [g \in GroupIds |->
                IF g \in dissolved THEN {} ELSE IF g \in left THEN rest(g) ELSE @[g]]]

(* Fault: what referred to the removed objects goes on doing so. *)
RemoveObjectsOnly(d, ids) ==
    [LeaveGroups(d, ids) EXCEPT
        !.canvasObjects = [o \in ObjectIds |-> IF o \in ids THEN None ELSE @[o]]]

(* Removing objects takes their connectors along, hands their children to   *)
(* the nearest container that stays and detaches the lines anchored to them.*)
RemoveObjects(d, ids) ==
    LET kept == LeaveGroups(d, ids)
        gone == ids \cap Live(d)
        attached(a) == IF a \in ids THEN None ELSE a
    IN  [canvasObjects |-> [o \in ObjectIds |->
            IF o \in Live(d) \ ids
                THEN [kept.canvasObjects[o] EXCEPT
                        !.parentContainerId =
                            IF @ \in ids THEN NearestAncestorOutside(d.canvasObjects, o, ids)
                                         ELSE @,
                        !.sourceAnchor = attached(@),
                        !.targetAnchor = attached(@)]
                ELSE None],
         connectors |-> [c \in AllConnectorIds |->
            IF c \in Drawn(d) /\ Ends(d.connectors[c]) \cap gone = {}
                THEN d.connectors[c] ELSE None],
         objectGroups |-> kept.objectGroups]

GroupObjects(d, ids, g) ==
    [LeaveGroups(d, ids) EXCEPT
        !.canvasObjects = [o \in ObjectIds |->
            IF o \in ids \cap Live(d) THEN [@[o] EXCEPT !.groupId = g] ELSE @[o]],
        !.objectGroups[g] = ids]

UngroupObjects(d, g) ==
    [d EXCEPT
        !.canvasObjects = [o \in ObjectIds |->
            IF o \in d.objectGroups[g] \cap Live(d)
                THEN [@[o] EXCEPT !.groupId = None] ELSE @[o]],
        !.objectGroups[g] = {}]

(* Fault: a copy keeps its group and every reference that is not renamed. *)
CloneObjectsVerbatim(d, originals, idMap) ==
    LET renamed(i) == IF i \in DOMAIN idMap THEN idMap[i] ELSE i
        original(i) == {o \in DOMAIN idMap : o \in Present(originals) /\ idMap[o] = i}
        clone(object) == [object EXCEPT
            !.parentContainerId = renamed(@),
            !.sourceAnchor = renamed(@),
            !.targetAnchor = renamed(@)]
    IN  [d EXCEPT !.canvasObjects = [i \in ObjectIds |->
            IF original(i) = {} THEN @[i]
            ELSE clone(originals[CHOOSE o \in original(i) : TRUE])]]

(* Pasted and duplicated objects get new identifiers.  A reference to an    *)
(* object that is copied along is renamed, any other is dropped.            *)
CloneObjects(d, originals, idMap) ==
    LET renamed(i) == IF i \in DOMAIN idMap THEN idMap[i] ELSE None
        original(i) == {o \in DOMAIN idMap : o \in Present(originals) /\ idMap[o] = i}
        clone(object) == [object EXCEPT
            !.groupId = None,
            !.parentContainerId = renamed(@),
            !.sourceAnchor = renamed(@),
            !.targetAnchor = renamed(@)]
    IN  [d EXCEPT !.canvasObjects = [i \in ObjectIds |->
            IF original(i) = {} THEN @[i]
            ELSE clone(originals[CHOOSE o \in original(i) : TRUE])]]

WithConnector(d, c, connector) == [d EXCEPT !.connectors[c] = connector]

WithoutConnector(d, c) == [d EXCEPT !.connectors[c] = None]

ExplicitConnector(source, target) ==
    [sourceId |-> source, targetId |-> target, origin |-> "explicit"]

-----------------------------------------------------------------------------
(* The parts of a whole diagram. *)

(* A group and its members name each other, and a group has two at least.   *)
GroupsConsistent(d) ==
    /\ \A g \in Groups(d) :
        /\ d.objectGroups[g] = {o \in Live(d) : d.canvasObjects[o].groupId = g}
        /\ \E o, p \in d.objectGroups[g] : o # p
    /\ \A o \in Live(d) : d.canvasObjects[o].groupId \in Groups(d) \cup {None}

AnchorsAttached(d) ==
    \A o \in Live(d) :
        {d.canvasObjects[o].sourceAnchor, d.canvasObjects[o].targetAnchor}
            \subseteq Live(d) \cup {None}

ConnectorsAttached(d) ==
    \A c \in Drawn(d) : Ends(d.connectors[c]) \subseteq LiveBlocks(d)

ParentsHold(d) ==
    \A o \in Live(d) : d.canvasObjects[o].parentContainerId \in
        {p \in Live(d) : d.canvasObjects[p].presentation = "container"} \cup {None}

(* No object is inside itself: from any set of objects, some way leads out. *)
Acyclic(objects) ==
    \A S \in SUBSET Present(objects) :
        S # {} => \E o \in S : objects[o].parentContainerId \notin S

Whole(d) ==
    /\ GroupsConsistent(d)
    /\ AnchorsAttached(d)
    /\ ConnectorsAttached(d)
    /\ ParentsHold(d)
    /\ Acyclic(d.canvasObjects)

(* What a managed connector says is so: its target is inside its source.    *)
ManagedFollow(d) ==
    \A c \in Drawn(d) : d.connectors[c].origin = "containment" =>
        d.connectors[c].sourceId \in Ancestors(d.canvasObjects, d.connectors[c].targetId)

(* Two explicit connectors that join the same two blocks. *)
JoinTwice(d, c, e) ==
    /\ {c, e} \subseteq Drawn(d)
    /\ d.connectors[c].origin = "explicit" /\ d.connectors[e].origin = "explicit"
    /\ Ends(d.connectors[c]) = Ends(d.connectors[e])

-----------------------------------------------------------------------------
(* What the backend answers: it validates the whole diagram, turns each     *)
(* explicit connector to the direction it supports and derives the managed  *)
(* connectors from the hierarchy anew.                                      *)

Supported(c) ==
    \/ <<c.sourceId, c.targetId>> \in Connections
    \/ <<c.targetId, c.sourceId>> \in Connections

ConnectorsSupported(d) ==
    \A c \in Drawn(d) :
        d.connectors[c].origin = "explicit" => Supported(d.connectors[c])

PlacementsAllowed(d) ==
    \A o \in Live(d) :
        LET p == d.canvasObjects[o].parentContainerId
        IN  p # None => <<o, p>> \in Placements

ValidReferences(d) ==
    /\ AnchorsAttached(d)
    /\ ConnectorsAttached(d)
    /\ ConnectorsSupported(d)
    /\ ParentsHold(d)
    /\ PlacementsAllowed(d)
    /\ Acyclic(d.canvasObjects)
    /\ \A o \in Live(d) : d.canvasObjects[o].groupId \in Groups(d) \cup {None}
    /\ \A g \in Groups(d) : d.objectGroups[g] \subseteq Live(d)

Directed(c) ==
    IF <<c.sourceId, c.targetId>> \in Connections THEN c
    ELSE [c EXCEPT !.sourceId = c.targetId, !.targetId = c.sourceId]

Normalized(d) ==
    LET explicit == {c \in Drawn(d) : d.connectors[c].origin = "explicit"}
        drawn == {<<Directed(d.connectors[c]).sourceId, Directed(d.connectors[c]).targetId>> :
                    c \in explicit}
        derived == {pair \in Contains : {pair[1], pair[2]} \subseteq Live(d)
                        /\ pair[1] \in Ancestors(d.canvasObjects, pair[2])}
    IN  [d EXCEPT !.connectors = [c \in AllConnectorIds |->
            CASE c \in explicit        -> Directed(@[c])
              [] c \in derived \ drawn ->
                    [sourceId |-> c[1], targetId |-> c[2], origin |-> "containment"]
              [] OTHER                 -> None]]

(* Faults: an answer leaves out a presentation that is the default; one     *)
(* that gives no parent leaves the old one; the canvas keeps the connectors *)
(* the answer does not speak of.                                            *)
CanonicalStateSparse(d, answer) ==
    [d EXCEPT
        !.canvasObjects = [o \in ObjectIds |->
            IF o \in Live(d) \cap Live(answer)
                THEN [@[o] EXCEPT
                        !.parentContainerId = answer.canvasObjects[o].parentContainerId,
                        !.presentation =
                            IF answer.canvasObjects[o].presentation = "node" THEN None
                            ELSE "container"]
                ELSE @[o]],
        !.connectors = answer.connectors]

CanonicalParentsGiven(d, answer) ==
    [d EXCEPT
        !.canvasObjects = [o \in ObjectIds |->
            IF o \in Live(d) \cap Live(answer)
                THEN [@[o] EXCEPT
                        !.parentContainerId = IF answer.canvasObjects[o].parentContainerId # None
                            THEN answer.canvasObjects[o].parentContainerId ELSE @,
                        !.presentation = answer.canvasObjects[o].presentation]
                ELSE @[o]],
        !.connectors = answer.connectors]

CanonicalStateMerged(d, answer) ==
    [d EXCEPT
        !.canvasObjects = [o \in ObjectIds |->
            IF o \in Live(d) \cap Live(answer) THEN answer.canvasObjects[o] ELSE @[o]],
        !.connectors = [c \in AllConnectorIds |->
            IF c \in Drawn(answer) THEN answer.connectors[c] ELSE @[c]]]

(* How the canvas takes an answer over: parent and presentation of the      *)
(* objects it still shows, and the connectors of the answer for its own.    *)
CanonicalState(d, answer) ==
    [d EXCEPT
        !.canvasObjects = [o \in ObjectIds |->
            IF o \in Live(d) \cap Live(answer)
                THEN [@[o] EXCEPT
                        !.parentContainerId = answer.canvasObjects[o].parentContainerId,
                        !.presentation = answer.canvasObjects[o].presentation]
                ELSE @[o]],
        !.connectors = answer.connectors]

=============================================================================
