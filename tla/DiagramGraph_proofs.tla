------------------------- MODULE DiagramGraph_proofs ------------------------
(***************************************************************************)
(* What each operation makes of a diagram, for every set of identifiers:   *)
(* first that it makes a diagram, then that it keeps the visual groups     *)
(* consistent.  The proofs about the editor cite these lemmas.             *)
(***************************************************************************)
EXTENDS DiagramGraph, TLAPS

(* The three maps of a diagram, and what makes a diagram of three maps. *)
LEMMA DiagramParts ==
    ASSUME NEW d \in Diagrams
    PROVE  /\ d.canvasObjects \in [ObjectIds -> CanvasObject \cup {None}]
           /\ d.connectors \in [AllConnectorIds -> Connector \cup {None}]
           /\ d.objectGroups \in [GroupIds -> SUBSET ObjectIds]
           /\ Live(d) \subseteq ObjectIds
           /\ \A o \in Live(d) : d.canvasObjects[o] \in CanvasObject
           /\ \A c \in Drawn(d) : d.connectors[c] \in Connector
           /\ Groups(d) \subseteq GroupIds
BY DEF Diagrams, Live, Drawn, Present, Groups

(* What a new diagram shows is a diagram. *)
LEMMA EmptyDiagramType == EmptyDiagram \in Diagrams
BY DEF EmptyDiagram, Diagrams, NoObjects

(* A created object has the fields of one. *)
LEMMA NewObjectType == \A o : NewObject(o) \in CanvasObject
BY DEF NewObject, CanvasObject

(* addCanvasObject makes a diagram of a diagram. *)
LEMMA WithObjectType ==
    ASSUME NEW d \in Diagrams, NEW o \in ObjectIds, NEW object \in CanvasObject
    PROVE  WithObject(d, o, object) \in Diagrams
BY DEF WithObject, Diagrams

(* addConnector makes a diagram of a diagram. *)
LEMMA WithConnectorType ==
    ASSUME NEW d \in Diagrams, NEW c \in AllConnectorIds, NEW connector \in Connector
    PROVE  WithConnector(d, c, connector) \in Diagrams
BY DEF WithConnector, Diagrams

(* removeConnector makes a diagram of a diagram. *)
LEMMA WithoutConnectorType ==
    ASSUME NEW d \in Diagrams, NEW c
    PROVE  WithoutConnector(d, c) \in Diagrams
BY DEF WithoutConnector, Diagrams

(* Dissolving the groups of removed objects leaves a diagram. *)
LEMMA LeaveGroupsType ==
    ASSUME NEW d \in Diagrams, NEW ids
    PROVE  LeaveGroups(d, ids) \in Diagrams
<1> DEFINE e == LeaveGroups(d, ids)
<1>1. e.canvasObjects \in [ObjectIds -> CanvasObject \cup {None}]
    BY DiagramParts DEF LeaveGroups, Diagrams, CanvasObject
<1>2. e.objectGroups \in [GroupIds -> SUBSET ObjectIds]
    BY DiagramParts DEF LeaveGroups, Diagrams
<1>. QED  BY <1>1, <1>2 DEF LeaveGroups, Diagrams

(* The container a removed container's child is handed to is an object or    *)
(* none.                                                                     *)
LEMMA NearestAncestorType ==
    ASSUME NEW objects, NEW o, NEW gone
    PROVE  NearestAncestorOutside(objects, o, gone) \in ObjectIds \cup {None}
BY DEF NearestAncestorOutside, WayUp

(* An object that stays is what leaving the groups made of it, but for its  *)
(* container and its anchors; it is shown as it was.                        *)
LEMMA RemoveObjectsStaying ==
    ASSUME NEW d \in Diagrams, NEW ids, NEW o \in Live(d) \ ids
    PROVE  LET e == RemoveObjects(d, ids)
               parent == d.canvasObjects[o].parentContainerId
               attached(a) == IF a \in ids THEN None ELSE a
           IN  /\ e.canvasObjects[o] \in CanvasObject
               /\ e.canvasObjects[o].presentation = d.canvasObjects[o].presentation
               /\ e.canvasObjects[o].sourceAnchor = attached(d.canvasObjects[o].sourceAnchor)
               /\ e.canvasObjects[o].targetAnchor = attached(d.canvasObjects[o].targetAnchor)
               /\ e.canvasObjects[o].groupId = LeaveGroups(d, ids).canvasObjects[o].groupId
               /\ e.canvasObjects[o].parentContainerId =
                    IF parent \in ids THEN NearestAncestorOutside(d.canvasObjects, o, ids)
                                      ELSE parent
<1> DEFINE e == RemoveObjects(d, ids)
           object == LeaveGroups(d, ids).canvasObjects[o]
           up == IF object.parentContainerId \in ids
                    THEN NearestAncestorOutside(d.canvasObjects, o, ids)
                    ELSE object.parentContainerId
           source == IF object.sourceAnchor \in ids THEN None ELSE object.sourceAnchor
           target == IF object.targetAnchor \in ids THEN None ELSE object.targetAnchor
<1>1. e.canvasObjects[o] =
        [object EXCEPT !.parentContainerId = up,
                       !.sourceAnchor = source, !.targetAnchor = target]
    BY DiagramParts DEF RemoveObjects
<1>2. /\ object \in CanvasObject
      /\ object.parentContainerId = d.canvasObjects[o].parentContainerId
      /\ object.presentation = d.canvasObjects[o].presentation
      /\ object.sourceAnchor = d.canvasObjects[o].sourceAnchor
      /\ object.targetAnchor = d.canvasObjects[o].targetAnchor
    BY DiagramParts DEF LeaveGroups, Diagrams, CanvasObject
<1>3. /\ up \in ObjectIds \cup {None}
      /\ source \in ObjectIds \cup {None} /\ target \in ObjectIds \cup {None}
    <2> HIDE DEF object
    <2>. QED  BY <1>2, NearestAncestorType DEF CanvasObject
<1>4. /\ e.canvasObjects[o] \in CanvasObject /\ e.canvasObjects[o].groupId = object.groupId
      /\ e.canvasObjects[o].parentContainerId = up
      /\ e.canvasObjects[o].presentation = object.presentation
      /\ e.canvasObjects[o].sourceAnchor = source /\ e.canvasObjects[o].targetAnchor = target
    <2> HIDE DEF e, object, up, source, target
    <2>. QED  BY <1>1, <1>2, <1>3 DEF CanvasObject
<1>. QED  BY <1>2, <1>4

(* removeMultipleCanvasObjects makes a diagram of a diagram. *)
LEMMA RemoveObjectsType ==
    ASSUME NEW d \in Diagrams, NEW ids
    PROVE  RemoveObjects(d, ids) \in Diagrams
<1> DEFINE e == RemoveObjects(d, ids)
<1>1. e.canvasObjects \in [ObjectIds -> CanvasObject \cup {None}]
    <2>1. \A o \in Live(d) \ ids : e.canvasObjects[o] \in CanvasObject
        BY RemoveObjectsStaying
    <2>2. \A o \in ObjectIds \ (Live(d) \ ids) : e.canvasObjects[o] = None
        BY DEF RemoveObjects
    <2>3. e.canvasObjects = [o \in ObjectIds |-> e.canvasObjects[o]]
        BY DEF RemoveObjects
    <2> HIDE DEF e
    <2>. QED  BY <2>1, <2>2, <2>3
<1>2. e.connectors \in [AllConnectorIds -> Connector \cup {None}]
    BY DiagramParts DEF RemoveObjects
<1>3. e.objectGroups \in [GroupIds -> SUBSET ObjectIds]
    BY LeaveGroupsType, DiagramParts DEF RemoveObjects
<1>. QED  BY <1>1, <1>2, <1>3 DEF RemoveObjects, Diagrams

(* groupSelectedObjects makes a diagram of a diagram. *)
LEMMA GroupObjectsType ==
    ASSUME NEW d \in Diagrams, NEW ids \in SUBSET ObjectIds, NEW g \in GroupIds
    PROVE  GroupObjects(d, ids, g) \in Diagrams
<1> DEFINE kept == LeaveGroups(d, ids)
           grouped == [o \in ObjectIds |->
                        IF o \in ids \cap Live(d)
                            THEN [kept.canvasObjects[o] EXCEPT !.groupId = g]
                            ELSE kept.canvasObjects[o]]
           named == [kept.objectGroups EXCEPT ![g] = ids]
<1>1. kept \in Diagrams
    BY LeaveGroupsType
<1>2. ASSUME NEW o \in Live(d) PROVE kept.canvasObjects[o] \in CanvasObject
    BY <1>2, DiagramParts DEF LeaveGroups, Diagrams, CanvasObject
<1>3. GroupObjects(d, ids, g) = [kept EXCEPT !.canvasObjects = grouped, !.objectGroups = named]
    BY DEF GroupObjects
<1>4. grouped \in [ObjectIds -> CanvasObject \cup {None}]
    <2>1. ASSUME NEW o \in ObjectIds PROVE grouped[o] \in CanvasObject \cup {None}
        <3> HIDE DEF kept
        <3>1. CASE o \in ids \cap Live(d)
            BY <1>2, <3>1 DEF CanvasObject
        <3>2. CASE o \notin ids \cap Live(d)
            BY <1>1, <3>2, DiagramParts
        <3>. QED  BY <3>1, <3>2
    <2>. QED  BY <2>1
<1>5. named \in [GroupIds -> SUBSET ObjectIds]
    <2> HIDE DEF kept
    <2>. QED  BY <1>1, DiagramParts
<1> HIDE DEF kept, grouped, named
<1>. QED  BY <1>1, <1>3, <1>4, <1>5 DEF Diagrams

(* ungroupObjects makes a diagram of a diagram. *)
LEMMA UngroupObjectsType ==
    ASSUME NEW d \in Diagrams, NEW g \in GroupIds
    PROVE  UngroupObjects(d, g) \in Diagrams
<1> DEFINE freed == [o \in ObjectIds |->
                        IF o \in d.objectGroups[g] \cap Live(d)
                            THEN [d.canvasObjects[o] EXCEPT !.groupId = None]
                            ELSE d.canvasObjects[o]]
           others == [d.objectGroups EXCEPT ![g] = {}]
<1>1. UngroupObjects(d, g) = [d EXCEPT !.canvasObjects = freed, !.objectGroups = others]
    BY DEF UngroupObjects
<1>2. freed \in [ObjectIds -> CanvasObject \cup {None}]
    <2>1. ASSUME NEW o \in ObjectIds PROVE freed[o] \in CanvasObject \cup {None}
        BY DiagramParts DEF CanvasObject
    <2>. QED  BY <2>1
<1>3. others \in [GroupIds -> SUBSET ObjectIds]
    BY DiagramParts
<1> HIDE DEF freed, others
<1>. QED  BY <1>1, <1>2, <1>3 DEF Diagrams

(* A copy is in no group and its container, if it has one, is a copy too;   *)
(* everything else stays as it was.                                         *)
LEMMA CloneObjectsFacts ==
    ASSUME NEW d \in Diagrams, NEW originals \in [ObjectIds -> CanvasObject \cup {None}],
           NEW idMap, \A o \in DOMAIN idMap : idMap[o] \in ObjectIds
    PROVE  LET e == CloneObjects(d, originals, idMap)
           IN  /\ e \in Diagrams
               /\ e.objectGroups = d.objectGroups
               /\ \A i \in ObjectIds :
                    \/ e.canvasObjects[i] = d.canvasObjects[i]
                    \/ \E o \in DOMAIN idMap \cap Present(originals) :
                        /\ idMap[o] = i
                        /\ e.canvasObjects[i] \in CanvasObject
                        /\ e.canvasObjects[i].groupId = None
                        /\ \/ e.canvasObjects[i].parentContainerId = None
                           \/ /\ originals[o].parentContainerId \in DOMAIN idMap
                              /\ e.canvasObjects[i].parentContainerId =
                                    idMap[originals[o].parentContainerId]
<1> DEFINE renamed(i) == IF i \in DOMAIN idMap THEN idMap[i] ELSE None
           original(i) == {o \in DOMAIN idMap : o \in Present(originals) /\ idMap[o] = i}
           clone(object) == [object EXCEPT
                !.groupId = None,
                !.parentContainerId = renamed(@),
                !.sourceAnchor = renamed(@),
                !.targetAnchor = renamed(@)]
           objects == [i \in ObjectIds |->
                IF original(i) = {} THEN d.canvasObjects[i]
                ELSE clone(originals[CHOOSE o \in original(i) : TRUE])]
           e == CloneObjects(d, originals, idMap)
<1>1. e = [d EXCEPT !.canvasObjects = objects]
    BY DEF CloneObjects
<1>2. \A i : renamed(i) \in ObjectIds \cup {None}
    OBVIOUS
<1>3. ASSUME NEW object \in CanvasObject
      PROVE  /\ clone(object) \in CanvasObject
             /\ clone(object).groupId = None
             /\ clone(object).parentContainerId = renamed(object.parentContainerId)
    <2> HIDE DEF renamed
    <2>. QED  BY <1>2 DEF CanvasObject
<1>4. ASSUME NEW i \in ObjectIds
      PROVE  \/ objects[i] = d.canvasObjects[i]
             \/ \E o \in DOMAIN idMap \cap Present(originals) :
                    /\ idMap[o] = i
                    /\ objects[i] \in CanvasObject
                    /\ objects[i].groupId = None
                    /\ objects[i].parentContainerId = renamed(originals[o].parentContainerId)
    <2>1. CASE original(i) = {}
        BY <2>1
    <2>2. CASE original(i) # {}
        <3> DEFINE o == CHOOSE p \in original(i) : TRUE
        <3>1. o \in original(i)
            BY <2>2
        <3>2. /\ o \in DOMAIN idMap \cap Present(originals)
              /\ idMap[o] = i /\ originals[o] \in CanvasObject
            <4> HIDE DEF o
            <4>. QED  BY <3>1 DEF Present
        <3>3. objects[i] = clone(originals[o])
            BY <2>2, Zenon
        <3> HIDE DEF o, clone, renamed, objects
        <3>. QED  BY <1>3, <3>2, <3>3
    <2>. QED  BY <2>1, <2>2
<1>5. objects \in [ObjectIds -> CanvasObject \cup {None}]
    <2>1. objects = [i \in ObjectIds |-> objects[i]]
        BY Zenon
    <2> HIDE DEF objects
    <2>. QED  BY <1>4, <2>1, DiagramParts
<1>6. e \in Diagrams /\ e.objectGroups = d.objectGroups /\ e.canvasObjects = objects
    <2> HIDE DEF objects, e
    <2>. QED  BY <1>1, <1>5 DEF Diagrams
<1>7. \A i : renamed(i) = None \/ (i \in DOMAIN idMap /\ renamed(i) = idMap[i])
    OBVIOUS
<1> HIDE DEF objects, renamed
<1>. QED  BY <1>4, <1>6, <1>7 DEF e

(* A connector turned round for the backend is a connector. *)
LEMMA DirectedType ==
    ASSUME NEW c \in Connector
    PROVE  Directed(c) \in Connector
BY DEF Directed, Connector

(* The backend's normalisation makes a diagram of a diagram. *)
LEMMA NormalizedType ==
    ASSUME NEW d \in Diagrams
    PROVE  Normalized(d) \in Diagrams
BY GraphAssumption, DiagramParts, DirectedType DEF Normalized, Diagrams, Connector, Drawn, Present

-----------------------------------------------------------------------------
(* Visual groups.  What a group's two sides say of each other survives any  *)
(* change that leaves the groups, and the group of every object, alone and  *)
(* adds no object to a group.                                               *)
LEMMA GroupsUntouched ==
    ASSUME NEW d \in Diagrams, NEW e \in Diagrams, GroupsConsistent(d),
           e.objectGroups = d.objectGroups,
           Live(d) \subseteq Live(e),
           \A o \in Live(d) : e.canvasObjects[o].groupId = d.canvasObjects[o].groupId,
           \A o \in Live(e) \ Live(d) : e.canvasObjects[o].groupId = None
    PROVE  GroupsConsistent(e)
<1>1. Groups(e) = Groups(d)
    BY DEF Groups
<1>2. ASSUME NEW g \in Groups(e)
      PROVE  /\ e.objectGroups[g] = {o \in Live(e) : e.canvasObjects[o].groupId = g}
             /\ \E o, p \in e.objectGroups[g] : o # p
    <2>1. g \in GroupIds /\ g # None
        BY GraphAssumption DEF Groups
    <2>2. /\ d.objectGroups[g] = {o \in Live(d) : d.canvasObjects[o].groupId = g}
          /\ \E o, p \in d.objectGroups[g] : o # p
        BY <1>1, <1>2 DEF GroupsConsistent
    <2>. QED  BY <2>1, <2>2
<1>3. \A o \in Live(e) : e.canvasObjects[o].groupId \in Groups(e) \cup {None}
    BY <1>1 DEF GroupsConsistent
<1>. QED  BY <1>2, <1>3 DEF GroupsConsistent

(* A new diagram has no groups to be wrong about. *)
LEMMA EmptyGroups == GroupsConsistent(EmptyDiagram)
BY DEF EmptyDiagram, NoObjects, GroupsConsistent, Groups, Live, Present

(* An object that was not on the canvas is in no group. *)
LEMMA FreshObjectGroups ==
    ASSUME NEW d \in Diagrams, GroupsConsistent(d), NEW o \in ObjectIds \ Live(d),
           NEW object \in CanvasObject, object.groupId = None
    PROVE  GroupsConsistent(WithObject(d, o, object))
<1> DEFINE e == WithObject(d, o, object)
<1>1. e \in Diagrams
    BY WithObjectType
<1>2. e.objectGroups = d.objectGroups /\ e.canvasObjects = [d.canvasObjects EXCEPT ![o] = object]
    BY DEF WithObject, Diagrams
<1>3. /\ Live(d) \subseteq Live(e)
      /\ \A p \in Live(d) : e.canvasObjects[p].groupId = d.canvasObjects[p].groupId
      /\ \A p \in Live(e) \ Live(d) : e.canvasObjects[p].groupId = None
    BY <1>2, DiagramParts DEF Live, Present
<1>. QED  BY <1>1, <1>2, <1>3, GroupsUntouched

(* A change of the connectors alone. *)
LEMMA ConnectorGroups ==
    ASSUME NEW d \in Diagrams, GroupsConsistent(d), NEW e \in Diagrams,
           e.canvasObjects = d.canvasObjects, e.objectGroups = d.objectGroups
    PROVE  GroupsConsistent(e)
BY DEF GroupsConsistent, Groups, Live

(* What leaving the groups leaves behind, seen from the objects that stay.  *)
LEMMA LeaveGroupsFacts ==
    ASSUME NEW d \in Diagrams, GroupsConsistent(d), NEW ids
    PROVE  LET kept == LeaveGroups(d, ids)
           IN  /\ Groups(kept) \subseteq Groups(d)
               /\ \A h \in Groups(kept) :
                    /\ kept.objectGroups[h] =
                        {o \in Live(d) \ ids : kept.canvasObjects[o].groupId = h}
                    /\ \E o, p \in kept.objectGroups[h] : o # p
               /\ \A o \in Live(d) \ ids :
                    kept.canvasObjects[o].groupId \in Groups(kept) \cup {None}
<1> DEFINE kept == LeaveGroups(d, ids)
           left == {d.canvasObjects[o].groupId : o \in ids \cap Live(d)}
           rest(g) == d.objectGroups[g] \ ids
           dissolved == {g \in Groups(d) \cap left : \A o, p \in rest(g) : o = p}
<1>1. /\ kept.canvasObjects = [o \in ObjectIds |->
            IF o \in Live(d) /\ \E g \in dissolved : o \in rest(g)
                THEN [d.canvasObjects[o] EXCEPT !.groupId = None] ELSE d.canvasObjects[o]]
      /\ kept.objectGroups = [g \in GroupIds |->
            IF g \in dissolved THEN {} ELSE IF g \in left THEN rest(g) ELSE d.objectGroups[g]]
    BY DEF LeaveGroups, Diagrams
<1>2. \A h \in Groups(d) :
        /\ h \in GroupIds /\ h # None
        /\ d.objectGroups[h] = {o \in Live(d) : d.canvasObjects[o].groupId = h}
        /\ \E o, p \in d.objectGroups[h] : o # p
    BY GraphAssumption DEF GroupsConsistent, Groups
<1>3. \A h \in GroupIds \ dissolved : kept.objectGroups[h] = rest(h)
    <2> SUFFICES ASSUME NEW h \in GroupIds \ dissolved  PROVE kept.objectGroups[h] = rest(h)
        OBVIOUS
    <2>1. CASE h \in left
        BY <1>1, <2>1
    <2>2. CASE h \notin left /\ h \in Groups(d)
        BY <1>1, <1>2, <2>2
    <2>3. CASE h \notin left /\ h \notin Groups(d)
        BY <1>1, <2>3 DEF Groups
    <2>. QED  BY <2>1, <2>2, <2>3
<1>4. Groups(kept) = {h \in Groups(d) \ dissolved : rest(h) # {}}
    <2>1. \A h \in GroupIds : h \in dissolved => kept.objectGroups[h] = {}
        BY <1>1
    <2> HIDE DEF kept
    <2>. QED  BY <1>3, <2>1 DEF Groups
<1>5. \A o \in Live(d) \ ids :
        kept.canvasObjects[o].groupId =
            IF d.canvasObjects[o].groupId \in dissolved THEN None ELSE d.canvasObjects[o].groupId
    <2> SUFFICES ASSUME NEW o \in Live(d) \ ids
                 PROVE  kept.canvasObjects[o].groupId =
                            IF d.canvasObjects[o].groupId \in dissolved THEN None
                            ELSE d.canvasObjects[o].groupId
        OBVIOUS
    <2>1. o \in ObjectIds /\ d.canvasObjects[o] \in CanvasObject
        BY DiagramParts
    <2>2. (\E g \in dissolved : o \in rest(g)) <=> d.canvasObjects[o].groupId \in dissolved
        BY <1>2
    <2>. QED  BY <1>1, <2>1, <2>2 DEF CanvasObject
<1>6. \A h \in Groups(kept) : 
        /\ kept.objectGroups[h] = {o \in Live(d) \ ids : kept.canvasObjects[o].groupId = h}
        /\ \E o, p \in kept.objectGroups[h] : o # p
    <2> SUFFICES ASSUME NEW h \in Groups(kept)
                 PROVE  /\ kept.objectGroups[h] =
                            {o \in Live(d) \ ids : kept.canvasObjects[o].groupId = h}
                        /\ \E o, p \in kept.objectGroups[h] : o # p
        OBVIOUS
    <2>1. h \in Groups(d) \ dissolved /\ h \in GroupIds /\ h # None
        BY <1>2, <1>4
    <2>2. kept.objectGroups[h] = rest(h)
        BY <1>3, <2>1
    <2>3. rest(h) = {o \in Live(d) \ ids : d.canvasObjects[o].groupId = h}
        BY <1>2, <2>1
    <2>4. \A o \in Live(d) \ ids : kept.canvasObjects[o].groupId = h <=> d.canvasObjects[o].groupId = h
        BY <1>5, <2>1
    <2>5. \E o, p \in rest(h) : o # p
        <3>1. CASE h \in left
            BY <2>1, <3>1
        <3>2. CASE h \notin left
            BY <1>2, <2>1, <3>2
        <3>. QED  BY <3>1, <3>2
    <2> HIDE DEF kept, rest
    <2>. QED  BY <2>2, <2>3, <2>4, <2>5
<1>7. \A o \in Live(d) \ ids : kept.canvasObjects[o].groupId \in Groups(kept) \cup {None}
    <2> SUFFICES ASSUME NEW o \in Live(d) \ ids,
                        kept.canvasObjects[o].groupId # None
                 PROVE  kept.canvasObjects[o].groupId \in Groups(kept)
        OBVIOUS
    <2> DEFINE h == d.canvasObjects[o].groupId
    <2>1. kept.canvasObjects[o].groupId = h /\ h \notin dissolved /\ h # None
        BY <1>5
    <2>2. h \in Groups(d)
        BY <2>1 DEF GroupsConsistent
    <2>3. o \in rest(h)
        BY <1>2, <2>2
    <2> HIDE DEF h, kept, rest, dissolved
    <2>. QED  BY <1>4, <2>1, <2>2, <2>3
<1> HIDE DEF kept
<1>. QED  BY <1>4, <1>6, <1>7 DEF kept

(* Removal keeps groups and members naming each other: it dissolves the      *)
(* groups that fall below two members.                                       *)
LEMMA RemoveObjectsGroups ==
    ASSUME NEW d \in Diagrams, GroupsConsistent(d), NEW ids
    PROVE  GroupsConsistent(RemoveObjects(d, ids))
<1> DEFINE e == RemoveObjects(d, ids)
           kept == LeaveGroups(d, ids)
<1>1. e.objectGroups = kept.objectGroups /\ Groups(e) = Groups(kept)
    BY DEF RemoveObjects, Groups
<1>2. \A o \in Live(d) \ ids :
        /\ e.canvasObjects[o] \in CanvasObject
        /\ e.canvasObjects[o].groupId = kept.canvasObjects[o].groupId
    BY RemoveObjectsStaying
<1>3. Live(e) = Live(d) \ ids
    <2>1. \A o \in ObjectIds \ (Live(d) \ ids) : e.canvasObjects[o] = None
        BY DEF RemoveObjects
    <2>2. DOMAIN e.canvasObjects = ObjectIds
        BY DEF RemoveObjects
    <2>3. Live(d) \subseteq ObjectIds
        BY DiagramParts
    <2> HIDE DEF e
    <2>. QED  BY <1>2, <2>1, <2>2, <2>3, NoneAssumption DEF Live, Present
<1>4. /\ \A h \in Groups(kept) :
            /\ kept.objectGroups[h] = {o \in Live(d) \ ids : kept.canvasObjects[o].groupId = h}
            /\ \E o, p \in kept.objectGroups[h] : o # p
      /\ \A o \in Live(d) \ ids : kept.canvasObjects[o].groupId \in Groups(kept) \cup {None}
    BY LeaveGroupsFacts
<1>5. GroupsConsistent(e)
    <2> HIDE DEF e, kept
    <2>. QED  BY <1>1, <1>2, <1>3, <1>4 DEF GroupsConsistent
<1>. QED  BY <1>5

(* Grouping takes its members out of their old groups and keeps the rest     *)
(* consistent.                                                               *)
LEMMA GroupObjectsGroups ==
    ASSUME NEW d \in Diagrams, GroupsConsistent(d), NEW ids \in SUBSET Live(d),
           NEW g \in GroupIds \ Groups(d), \E o, p \in ids : o # p
    PROVE  GroupsConsistent(GroupObjects(d, ids, g))
<1> DEFINE e == GroupObjects(d, ids, g)
           kept == LeaveGroups(d, ids)
<1>1. /\ kept \in Diagrams
      /\ \A o \in Live(d) : kept.canvasObjects[o] \in CanvasObject
      /\ Live(kept) = Live(d)
    <2>1. kept \in Diagrams
        BY LeaveGroupsType
    <2>2. \A o \in Live(d) : kept.canvasObjects[o] \in CanvasObject
        BY DiagramParts DEF LeaveGroups, Diagrams, CanvasObject
    <2>3. \A o \in ObjectIds \ Live(d) : kept.canvasObjects[o] = None
        BY DiagramParts DEF LeaveGroups, Diagrams, Live, Present
    <2> HIDE DEF kept
    <2>. QED  BY <2>1, <2>2, <2>3, DiagramParts, NoneAssumption DEF Live, Present
<1>2. /\ e.canvasObjects = [o \in ObjectIds |->
            IF o \in ids THEN [kept.canvasObjects[o] EXCEPT !.groupId = g]
                         ELSE kept.canvasObjects[o]]
      /\ e.objectGroups = [kept.objectGroups EXCEPT ![g] = ids]
    <2>1. ids \cap Live(d) = ids
        OBVIOUS
    <2> HIDE DEF kept
    <2>. QED  BY <1>1, <2>1 DEF GroupObjects, kept, Diagrams
<1>3. /\ \A o \in ids : e.canvasObjects[o] \in CanvasObject /\ e.canvasObjects[o].groupId = g
      /\ \A o \in ObjectIds \ ids : e.canvasObjects[o] = kept.canvasObjects[o]
      /\ ids \subseteq ObjectIds
    <2>1. ids \subseteq ObjectIds
        BY DiagramParts
    <2>2. ASSUME NEW o \in ids
          PROVE  e.canvasObjects[o] \in CanvasObject /\ e.canvasObjects[o].groupId = g
        <3> DEFINE object == kept.canvasObjects[o]
        <3>1. object \in CanvasObject
            BY <1>1
        <3>2. e.canvasObjects[o] = [object EXCEPT !.groupId = g]
            <4> HIDE DEF kept, e
            <4>. QED  BY <1>2, <2>1
        <3> HIDE DEF object, e
        <3>. QED  BY <3>1, <3>2 DEF CanvasObject
    <2>3. \A o \in ObjectIds \ ids : e.canvasObjects[o] = kept.canvasObjects[o]
        <3> HIDE DEF kept, e
        <3>. QED  BY <1>2
    <2>. QED  BY <2>1, <2>2, <2>3
<1>4. Live(e) = Live(d)
    <2>1. DOMAIN e.canvasObjects = ObjectIds /\ DOMAIN kept.canvasObjects = ObjectIds
        <3> HIDE DEF kept, e
        <3>. QED  BY <1>1, <1>2, DiagramParts
    <2>2. \A o \in ids : e.canvasObjects[o] # None /\ o \in Live(d)
        BY <1>3, NoneAssumption
    <2>3. Live(e) = Live(kept)
        <3> HIDE DEF kept, e
        <3>. QED  BY <1>1, <1>3, <2>1, <2>2 DEF Live, Present
    <2>. QED  BY <1>1, <2>3
<1>5. Groups(e) = Groups(kept) \cup {g} /\ e.objectGroups[g] = ids
    <2> HIDE DEF kept, e
    <2>. QED  BY <1>1, <1>2, DiagramParts DEF Groups
<1>6. /\ g # None /\ g \notin Groups(kept)
      /\ \A o \in Live(d) \ ids : kept.canvasObjects[o].groupId # g
    BY LeaveGroupsFacts, GraphAssumption
<1>7. ASSUME NEW h \in Groups(kept)
      PROVE  /\ e.objectGroups[h] = {o \in Live(e) : e.canvasObjects[o].groupId = h}
             /\ \E o, p \in e.objectGroups[h] : o # p
    <2>1. /\ kept.objectGroups[h] = {o \in Live(d) \ ids : kept.canvasObjects[o].groupId = h}
          /\ \E o, p \in kept.objectGroups[h] : o # p
        BY LeaveGroupsFacts
    <2>2. h # g /\ e.objectGroups[h] = kept.objectGroups[h]
        <3> HIDE DEF kept, e
        <3>. QED  BY <1>1, <1>2, <1>6, DiagramParts DEF Groups
    <2> HIDE DEF kept, e
    <2>. QED  BY <1>3, <1>4, <2>1, <2>2, DiagramParts
<1>8. ids = {o \in Live(e) : e.canvasObjects[o].groupId = g}
    <2> HIDE DEF kept, e
    <2>. QED  BY <1>3, <1>4, <1>6, DiagramParts
<1>9. \A o \in Live(e) : e.canvasObjects[o].groupId \in Groups(e) \cup {None}
    <2>1. \A o \in Live(d) \ ids : kept.canvasObjects[o].groupId \in Groups(kept) \cup {None}
        BY LeaveGroupsFacts
    <2> HIDE DEF kept, e
    <2>. QED  BY <1>3, <1>4, <1>5, <2>1, DiagramParts
<1> HIDE DEF kept, e
<1>. QED  BY <1>5, <1>7, <1>8, <1>9 DEF GroupsConsistent, e

(* Ungrouping takes every member out of the group it deletes. *)
LEMMA UngroupObjectsGroups ==
    ASSUME NEW d \in Diagrams, GroupsConsistent(d), NEW g \in Groups(d)
    PROVE  GroupsConsistent(UngroupObjects(d, g))
<1> DEFINE e == UngroupObjects(d, g)
           members == d.objectGroups[g]
<1>1. /\ e.canvasObjects = [o \in ObjectIds |->
            IF o \in members \cap Live(d)
                THEN [d.canvasObjects[o] EXCEPT !.groupId = None] ELSE d.canvasObjects[o]]
      /\ e.objectGroups = [d.objectGroups EXCEPT ![g] = {}]
    BY DEF UngroupObjects, Diagrams
<1>2. Live(d) \subseteq ObjectIds /\ \A o \in Live(d) : d.canvasObjects[o] \in CanvasObject
    BY DiagramParts
<1>3. /\ \A o \in members \cap Live(d) :
            e.canvasObjects[o] \in CanvasObject /\ e.canvasObjects[o].groupId = None
      /\ \A o \in ObjectIds \ (members \cap Live(d)) : e.canvasObjects[o] = d.canvasObjects[o]
    <2> HIDE DEF e, members
    <2>. QED  BY <1>1, <1>2 DEF CanvasObject
<1>4. Live(e) = Live(d)
    <2>1. DOMAIN e.canvasObjects = ObjectIds /\ DOMAIN d.canvasObjects = ObjectIds
        BY <1>1, DiagramParts
    <2> HIDE DEF e, members
    <2>. QED  BY <1>2, <1>3, <2>1, NoneAssumption DEF Live, Present
<1>5. Groups(e) = Groups(d) \ {g} /\ \A h \in Groups(e) : e.objectGroups[h] = d.objectGroups[h]
    <2> HIDE DEF e
    <2>. QED  BY <1>1, DiagramParts DEF Groups
<1>6. \A h \in Groups(d) : h # None /\ d.objectGroups[h] = {o \in Live(d) : d.canvasObjects[o].groupId = h}
    BY GraphAssumption DEF GroupsConsistent, Groups
<1>7. ASSUME NEW h \in Groups(e)
      PROVE  /\ e.objectGroups[h] = {o \in Live(e) : e.canvasObjects[o].groupId = h}
             /\ \E o, p \in e.objectGroups[h] : o # p
    <2>1. e.objectGroups[h] = d.objectGroups[h] /\ h # g /\ h \in Groups(d)
        BY <1>5
    <2>2. \E o, p \in d.objectGroups[h] : o # p
        BY <2>1 DEF GroupsConsistent
    <2> HIDE DEF e
    <2>. QED  BY <1>2, <1>3, <1>4, <1>6, <2>1, <2>2
<1>8. \A o \in Live(e) : e.canvasObjects[o].groupId \in Groups(e) \cup {None}
    <2>1. \A o \in Live(d) : d.canvasObjects[o].groupId \in Groups(d) \cup {None}
        BY DEF GroupsConsistent
    <2> HIDE DEF e
    <2>. QED  BY <1>2, <1>3, <1>4, <1>5, <1>6, <2>1
<1> HIDE DEF e
<1>. QED  BY <1>7, <1>8 DEF GroupsConsistent, e

(* Copies join no group: they get identifiers that were not on the canvas. *)
LEMMA CloneObjectsGroups ==
    ASSUME NEW d \in Diagrams, GroupsConsistent(d),
           NEW originals \in [ObjectIds -> CanvasObject \cup {None}],
           NEW idMap, \A o \in DOMAIN idMap : idMap[o] \in ObjectIds \ Live(d)
    PROVE  GroupsConsistent(CloneObjects(d, originals, idMap))
<1> DEFINE e == CloneObjects(d, originals, idMap)
<1>1. /\ e \in Diagrams /\ e.objectGroups = d.objectGroups
      /\ \A i \in ObjectIds :
            \/ e.canvasObjects[i] = d.canvasObjects[i]
            \/ i \notin Live(d) /\ e.canvasObjects[i].groupId = None
    BY CloneObjectsFacts
<1>2. /\ \A o \in Live(d) : e.canvasObjects[o] = d.canvasObjects[o]
      /\ Live(d) \subseteq Live(e)
      /\ \A o \in Live(e) \ Live(d) : e.canvasObjects[o].groupId = None
    <2> HIDE DEF e
    <2>. QED  BY <1>1, DiagramParts DEF Live, Present
<1>3. GroupsConsistent(e)
    <2> HIDE DEF e
    <2>. QED  BY <1>1, <1>2, GroupsUntouched
<1>. QED  BY <1>3

(* An answer of the backend moves objects and shows them differently, and   *)
(* leaves the groups to the canvas.                                         *)
LEMMA CanonicalStateFacts ==
    ASSUME NEW d \in Diagrams, NEW answer \in Diagrams
    PROVE  LET e == CanonicalState(d, answer)
           IN  /\ e \in Diagrams
               /\ e.objectGroups = d.objectGroups
               /\ e.connectors = answer.connectors
               /\ Live(e) = Live(d)
               /\ \A o \in Live(d) :
                    /\ e.canvasObjects[o].groupId = d.canvasObjects[o].groupId
                    /\ e.canvasObjects[o].sourceAnchor = d.canvasObjects[o].sourceAnchor
                    /\ e.canvasObjects[o].targetAnchor = d.canvasObjects[o].targetAnchor
                    /\ e.canvasObjects[o].presentation =
                            IF o \in Live(answer) THEN answer.canvasObjects[o].presentation
                            ELSE d.canvasObjects[o].presentation
                    /\ e.canvasObjects[o].parentContainerId =
                            IF o \in Live(answer) THEN answer.canvasObjects[o].parentContainerId
                            ELSE d.canvasObjects[o].parentContainerId
<1> DEFINE e == CanonicalState(d, answer)
           objects == [o \in ObjectIds |->
                IF o \in Live(d) \cap Live(answer)
                THEN [d.canvasObjects[o] EXCEPT
                        !.parentContainerId = answer.canvasObjects[o].parentContainerId,
                        !.presentation = answer.canvasObjects[o].presentation]
                ELSE d.canvasObjects[o]]
<1>1. e = [d EXCEPT !.canvasObjects = objects, !.connectors = answer.connectors]
    BY DEF CanonicalState
<1>2. ASSUME NEW o \in Live(d) \cap Live(answer)
      PROVE  /\ objects[o] \in CanvasObject
             /\ objects[o].groupId = d.canvasObjects[o].groupId
             /\ objects[o].sourceAnchor = d.canvasObjects[o].sourceAnchor
             /\ objects[o].targetAnchor = d.canvasObjects[o].targetAnchor
             /\ objects[o].parentContainerId = answer.canvasObjects[o].parentContainerId
             /\ objects[o].presentation = answer.canvasObjects[o].presentation
    <2> DEFINE mine == d.canvasObjects[o]
               theirs == answer.canvasObjects[o]
    <2>1. mine \in CanvasObject /\ theirs \in CanvasObject
        BY DiagramParts
    <2>2. objects[o] = [mine EXCEPT !.parentContainerId = theirs.parentContainerId,
                                    !.presentation = theirs.presentation]
        BY DiagramParts
    <2>3. /\ objects[o] \in CanvasObject
          /\ objects[o].groupId = mine.groupId
          /\ objects[o].sourceAnchor = mine.sourceAnchor
          /\ objects[o].targetAnchor = mine.targetAnchor
          /\ objects[o].parentContainerId = theirs.parentContainerId
          /\ objects[o].presentation = theirs.presentation
        <3> HIDE DEF mine, theirs, objects
        <3>. QED  BY <2>1, <2>2 DEF CanvasObject
    <2>. QED  BY <2>3
<1>3. \A o \in ObjectIds \ (Live(d) \cap Live(answer)) : objects[o] = d.canvasObjects[o]
    OBVIOUS
<1>4. objects \in [ObjectIds -> CanvasObject \cup {None}]
    <2>1. objects = [o \in ObjectIds |-> objects[o]]
        BY Zenon
    <2> HIDE DEF objects
    <2>. QED  BY <1>2, <1>3, <2>1, DiagramParts
<1>5. /\ e \in Diagrams /\ e.objectGroups = d.objectGroups
      /\ e.connectors = answer.connectors /\ e.canvasObjects = objects
    <2> HIDE DEF objects, e
    <2>. QED  BY <1>1, <1>4, DiagramParts DEF Diagrams
<1>6. Live(e) = Live(d)
    <2> HIDE DEF objects, e
    <2>. QED  BY <1>2, <1>3, <1>4, <1>5, DiagramParts, NoneAssumption DEF Live, Present
<1>7. Live(d) \subseteq ObjectIds
    BY DiagramParts
<1> HIDE DEF objects
<1>. QED  BY <1>2, <1>3, <1>5, <1>6, <1>7

(* A containment answer keeps groups consistent: it leaves them to the       *)
(* canvas.                                                                   *)
LEMMA CanonicalStateGroups ==
    ASSUME NEW d \in Diagrams, NEW answer \in Diagrams, GroupsConsistent(d)
    PROVE  GroupsConsistent(CanonicalState(d, answer))
<1> DEFINE e == CanonicalState(d, answer)
<1>1. /\ e \in Diagrams /\ e.objectGroups = d.objectGroups /\ Live(e) = Live(d)
      /\ \A o \in Live(d) : e.canvasObjects[o].groupId = d.canvasObjects[o].groupId
    BY CanonicalStateFacts
<1>2. GroupsConsistent(e)
    <2> HIDE DEF e
    <2>. QED  BY <1>1, GroupsUntouched
<1>. QED  BY <1>2

-----------------------------------------------------------------------------
(* The hierarchy of containers.  No cycle appears where every object is     *)
(* still in the container it was in or in none.                             *)
LEMMA ParentsUntouched ==
    ASSUME NEW objects, NEW changed \in [ObjectIds -> CanvasObject \cup {None}],
           Acyclic(objects),
           \A o \in Present(changed) :
                \/ changed[o].parentContainerId = None
                \/ /\ o \in Present(objects)
                   /\ changed[o].parentContainerId = objects[o].parentContainerId
    PROVE  Acyclic(changed)
<1> SUFFICES ASSUME NEW S \in SUBSET Present(changed), S # {},
                    \A o \in S : changed[o].parentContainerId \in S
             PROVE  FALSE
    BY DEF Acyclic
<1>1. S \subseteq ObjectIds
    BY DEF Present
<1>2. \A o \in S : o \in Present(objects) /\ objects[o].parentContainerId \in S
    BY <1>1, GraphAssumption
<1>. QED  BY <1>2 DEF Acyclic

(* Nothing is inside itself where there is nothing. *)
LEMMA EmptyAcyclic == Acyclic(NoObjects)
BY DEF Acyclic, NoObjects, Present

(* A created object is in no container, so it closes no cycle. *)
LEMMA FreshObjectAcyclic ==
    ASSUME NEW d \in Diagrams, Acyclic(d.canvasObjects), NEW o \in ObjectIds,
           NEW object \in CanvasObject, object.parentContainerId = None
    PROVE  Acyclic(WithObject(d, o, object).canvasObjects)
<1> DEFINE after == WithObject(d, o, object).canvasObjects
<1>1. after = [d.canvasObjects EXCEPT ![o] = object]
    BY DEF WithObject, Diagrams
<1>2. after \in [ObjectIds -> CanvasObject \cup {None}]
    BY <1>1, DiagramParts
<1>3. \A p \in Present(after) :
        \/ after[p].parentContainerId = None
        \/ /\ p \in Present(d.canvasObjects)
           /\ after[p].parentContainerId = d.canvasObjects[p].parentContainerId
    BY <1>1, DiagramParts DEF Present
<1>4. Acyclic(after)
    <2> HIDE DEF after
    <2>. QED  BY <1>2, <1>3, ParentsUntouched
<1>. QED  BY <1>4

(* Grouping and ungrouping move nothing. *)
LEMMA GroupObjectsAcyclic ==
    ASSUME NEW d \in Diagrams, Acyclic(d.canvasObjects), NEW ids \in SUBSET ObjectIds,
           NEW g \in GroupIds
    PROVE  Acyclic(GroupObjects(d, ids, g).canvasObjects)
<1> DEFINE e == GroupObjects(d, ids, g)
           kept == LeaveGroups(d, ids)
<1>1. e \in Diagrams
    BY GroupObjectsType
<1>2. e.canvasObjects \in [ObjectIds -> CanvasObject \cup {None}]
    BY <1>1, DiagramParts
<1>3. /\ \A o \in ObjectIds \ Live(d) : kept.canvasObjects[o] = None
      /\ \A o \in Live(d) :
            /\ kept.canvasObjects[o] \in CanvasObject
            /\ kept.canvasObjects[o].parentContainerId = d.canvasObjects[o].parentContainerId
    BY DiagramParts DEF LeaveGroups, Diagrams, CanvasObject, Live, Present
<1>4. e.canvasObjects = [o \in ObjectIds |->
            IF o \in ids \cap Live(d) THEN [kept.canvasObjects[o] EXCEPT !.groupId = g]
                                     ELSE kept.canvasObjects[o]]
    <2>1. kept \in Diagrams
        BY LeaveGroupsType
    <2> HIDE DEF kept
    <2>. QED  BY <2>1 DEF GroupObjects, kept, Diagrams
<1>5. \A o \in ObjectIds \ Live(d) : e.canvasObjects[o] = None
    <2> HIDE DEF kept, e
    <2>. QED  BY <1>3, <1>4
<1>6. \A o \in Live(d) : e.canvasObjects[o].parentContainerId = d.canvasObjects[o].parentContainerId
    <2> HIDE DEF kept, e
    <2>. QED  BY <1>3, <1>4, DiagramParts DEF CanvasObject
<1>7. Acyclic(e.canvasObjects)
    <2> HIDE DEF e
    <2>. QED  BY <1>2, <1>5, <1>6, ParentsUntouched DEF Live, Present
<1>. QED  BY <1>7

(* Ungrouping moves nothing. *)
LEMMA UngroupObjectsAcyclic ==
    ASSUME NEW d \in Diagrams, Acyclic(d.canvasObjects), NEW g \in GroupIds
    PROVE  Acyclic(UngroupObjects(d, g).canvasObjects)
<1> DEFINE e == UngroupObjects(d, g)
<1>1. e \in Diagrams
    BY UngroupObjectsType
<1>2. e.canvasObjects \in [ObjectIds -> CanvasObject \cup {None}]
    BY <1>1, DiagramParts
<1>3. e.canvasObjects = [o \in ObjectIds |->
            IF o \in d.objectGroups[g] \cap Live(d)
                THEN [d.canvasObjects[o] EXCEPT !.groupId = None] ELSE d.canvasObjects[o]]
    BY DEF UngroupObjects, Diagrams
<1>4. \A o \in ObjectIds \ Live(d) : e.canvasObjects[o] = None
    <2> HIDE DEF e
    <2>. QED  BY <1>3, DiagramParts DEF Live, Present
<1>5. \A o \in Live(d) : e.canvasObjects[o].parentContainerId = d.canvasObjects[o].parentContainerId
    <2> HIDE DEF e
    <2>. QED  BY <1>3, DiagramParts DEF CanvasObject
<1>6. Acyclic(e.canvasObjects)
    <2> HIDE DEF e
    <2>. QED  BY <1>2, <1>4, <1>5, ParentsUntouched DEF Live, Present
<1>. QED  BY <1>6

(* What is copied of a hierarchy is one. *)
LEMMA PartAcyclic ==
    ASSUME NEW objects \in [ObjectIds -> CanvasObject \cup {None}], Acyclic(objects), NEW ids
    PROVE  Acyclic([o \in ObjectIds |-> IF o \in ids THEN objects[o] ELSE None])
<1> DEFINE part == [o \in ObjectIds |-> IF o \in ids THEN objects[o] ELSE None]
<1>1. part \in [ObjectIds -> CanvasObject \cup {None}]
    OBVIOUS
<1>2. \A o \in Present(part) : o \in Present(objects) /\ part[o] = objects[o]
    BY DEF Present
<1>3. Acyclic(part)
    <2> HIDE DEF part
    <2>. QED  BY <1>1, <1>2, ParentsUntouched
<1>. QED  BY <1>3

(* The way up from an object is the object's parent and, if the way goes on *)
(* from there, the way up from that parent.                                 *)
LEMMA WayUpStep ==
    ASSUME NEW objects \in [ObjectIds -> CanvasObject \cup {None}], NEW o, NEW through
    PROVE  LET next == UNION {WayUp(objects, p, through) : p \in ParentOf(objects, o) \cap through}
           IN  WayUp(objects, o, through) \subseteq ParentOf(objects, o) \cup next
<1> DEFINE parents(i) == ParentOf(objects, i)
           S == parents(o) \cup UNION {WayUp(objects, p, through) : p \in parents(o) \cap through}
<1>1. \A i : parents(i) \subseteq ObjectIds
    BY DEF ParentOf, Present, CanvasObject
<1>2. S \in SUBSET ObjectIds /\ parents(o) \subseteq S
    BY <1>1 DEF WayUp
<1>3. ASSUME NEW p, NEW b \in WayUp(objects, p, through) \cap through
      PROVE  parents(b) \subseteq WayUp(objects, p, through)
    BY <1>1 DEF WayUp
<1>4. ASSUME NEW p
      PROVE  parents(p) \subseteq WayUp(objects, p, through)
    BY <1>1 DEF WayUp
<1>5. \A b \in S \cap through : parents(b) \subseteq S
    BY <1>3, <1>4
<1>6. WayUp(objects, o, through) \subseteq S
    <2> HIDE DEF S
    <2>. QED  BY <1>2, <1>5 DEF WayUp
<1>. QED  BY <1>6

(* Removal hands an object to a container it was inside of, so a cycle of   *)
(* what stays would have been one before, through what is removed.          *)
LEMMA RemoveObjectsAcyclic ==
    ASSUME NEW d \in Diagrams, Acyclic(d.canvasObjects), NEW ids
    PROVE  Acyclic(RemoveObjects(d, ids).canvasObjects)
<1> DEFINE e == RemoveObjects(d, ids)
           before == d.canvasObjects
           after == e.canvasObjects
           parent(o) == before[o].parentContainerId
<1>1. Present(after) \subseteq Live(d) \ ids
    <2>1. \A o \in ObjectIds \ (Live(d) \ ids) : after[o] = None
        BY DEF RemoveObjects
    <2>2. DOMAIN after = ObjectIds
        BY DEF RemoveObjects
    <2> HIDE DEF e
    <2>. QED  BY <2>1, <2>2 DEF Present
<1>2. \A o \in Live(d) \ ids :
        after[o].parentContainerId =
            IF parent(o) \in ids THEN NearestAncestorOutside(before, o, ids) ELSE parent(o)
    BY RemoveObjectsStaying
<1>3. before \in [ObjectIds -> CanvasObject \cup {None}] /\ Live(d) \subseteq ObjectIds
    BY DiagramParts
<1>4. \A o \in ObjectIds : ParentOf(before, o) =
        IF o \in Live(d) THEN {parent(o)} \ {None} ELSE {}
    BY DEF ParentOf, Live
<1>5. \A o : WayUp(before, o, ids) \subseteq
        ParentOf(before, o) \cup UNION {WayUp(before, p, ids) : p \in ParentOf(before, o) \cap ids}
    BY <1>3, WayUpStep
<1>6. \A p \in ObjectIds : p \notin Live(d) => WayUp(before, p, ids) = {}
    BY <1>4, <1>5
<1> SUFFICES ASSUME NEW S \in SUBSET Present(after), S # {},
                    \A o \in S : after[o].parentContainerId \in S
             PROVE  FALSE
    BY DEF Acyclic
<1> DEFINE T == S \cup {b \in Live(d) \cap ids : WayUp(before, b, ids) \cap S # {}}
<1>7. S \subseteq Live(d) \ ids /\ None \notin S /\ None \notin ObjectIds
    BY <1>1, <1>3, GraphAssumption
<1>8. ASSUME NEW o \in Live(d), parent(o) \in ids, WayUp(before, o, ids) \cap S # {}
      PROVE  parent(o) \in T
    <2> HIDE DEF e, before
    <2>1. PICK a \in S : a \in WayUp(before, o, ids)
        BY <1>8
    <2>2. a \notin ids
        BY <1>7
    <2>3. parent(o) \in ParentOf(before, o) /\ a \in WayUp(before, parent(o), ids)
        BY <1>3, <1>4, <1>5, <1>8, <2>1, <2>2
    <2>4. parent(o) \in ObjectIds
        BY <1>3, <2>3 DEF ParentOf, Present, CanvasObject
    <2>. QED  BY <1>6, <1>8, <2>1, <2>3, <2>4
<1>9. ASSUME NEW o \in S  PROVE parent(o) \in T
    <2>1. CASE parent(o) \notin ids
        BY <1>2, <1>7, <2>1
    <2>2. CASE parent(o) \in ids
        <3>1. NearestAncestorOutside(before, o, ids) \in S
            BY <1>2, <1>7, <2>2
        <3>2. WayUp(before, o, ids) \cap S # {}
            BY <1>7, <3>1 DEF NearestAncestorOutside
        <3>. QED  BY <1>7, <1>8, <2>2, <3>2
    <2>. QED  BY <2>1, <2>2
<1>10. ASSUME NEW o \in Live(d) \cap ids, WayUp(before, o, ids) \cap S # {}
       PROVE  parent(o) \in T
    <2>1. CASE parent(o) \in ids
        BY <1>8, <1>10, <2>1
    <2>2. CASE parent(o) \notin ids
        <3> HIDE DEF e, before
        <3>1. PICK a \in S : a \in WayUp(before, o, ids)
            BY <1>10
        <3>2. ParentOf(before, o) \subseteq {parent(o)}
            BY <1>3, <1>4
        <3>3. a \in ParentOf(before, o)
            BY <1>5, <2>2, <3>1, <3>2
        <3>. QED  BY <3>1, <3>2, <3>3
    <2>. QED  BY <2>1, <2>2
<1>11. T \in SUBSET Present(before) /\ T # {}
    BY <1>7 DEF Live
<1>12. \A o \in T : before[o].parentContainerId \in T
    BY <1>9, <1>10
<1>13. Acyclic(before)
    OBVIOUS
<1> HIDE DEF T, before
<1>. QED  BY <1>11, <1>12, <1>13 DEF Acyclic

(* Copies are in each other as their originals were. *)
LEMMA CloneObjectsAcyclic ==
    ASSUME NEW d \in Diagrams, Acyclic(d.canvasObjects),
           NEW originals \in [ObjectIds -> CanvasObject \cup {None}], Acyclic(originals),
           NEW idMap, \A o \in DOMAIN idMap : idMap[o] \in ObjectIds \ Mentioned(d),
           \A o, p \in DOMAIN idMap : idMap[o] = idMap[p] => o = p,
           Present(originals) \subseteq DOMAIN idMap
    PROVE  Acyclic(CloneObjects(d, originals, idMap).canvasObjects)
<1> DEFINE after == CloneObjects(d, originals, idMap).canvasObjects
<1>1. \A i \in ObjectIds :
        \/ after[i] = d.canvasObjects[i]
        \/ \E o \in DOMAIN idMap \cap Present(originals) :
            /\ idMap[o] = i
            /\ after[i] \in CanvasObject
            /\ \/ after[i].parentContainerId = None
               \/ /\ originals[o].parentContainerId \in DOMAIN idMap
                  /\ after[i].parentContainerId = idMap[originals[o].parentContainerId]
    <2>1. \A o \in DOMAIN idMap : idMap[o] \in ObjectIds
        OBVIOUS
    <2> DEFINE e == CloneObjects(d, originals, idMap)
    <2>2. \A i \in ObjectIds :
            \/ e.canvasObjects[i] = d.canvasObjects[i]
            \/ \E o \in DOMAIN idMap \cap Present(originals) :
                /\ idMap[o] = i
                /\ e.canvasObjects[i] \in CanvasObject
                /\ e.canvasObjects[i].groupId = None
                /\ \/ e.canvasObjects[i].parentContainerId = None
                   \/ /\ originals[o].parentContainerId \in DOMAIN idMap
                      /\ e.canvasObjects[i].parentContainerId =
                            idMap[originals[o].parentContainerId]
        BY <2>1, CloneObjectsFacts, Zenon
    <2> HIDE DEF e
    <2>. QED  BY <2>2 DEF e
<1>2. DOMAIN after = ObjectIds
    BY CloneObjectsFacts, DiagramParts
<1>3. Live(d) \subseteq Mentioned(d) /\ Live(d) \subseteq ObjectIds
    BY DiagramParts DEF Mentioned
<1>4. \A o \in Live(d) : d.canvasObjects[o].parentContainerId \in Mentioned(d)
    BY DEF Mentioned
<1>5. \A i \in ObjectIds : d.canvasObjects[i] # None => i \in Live(d)
    BY DiagramParts DEF Live, Present
<1> SUFFICES ASSUME NEW S \in SUBSET Present(after), S # {},
                    \A i \in S : after[i].parentContainerId \in S
             PROVE  FALSE
    BY DEF Acyclic
<1> HIDE DEF after
<1>6. S \subseteq ObjectIds /\ None \notin S /\ \A i \in S : after[i] # None
    BY <1>2, GraphAssumption DEF Present
<1>7. CASE S \cap Live(d) # {}
    <2> DEFINE T == S \cap Live(d)
    <2>1. \A o \in S : o \in Mentioned(d) => o \in T /\ after[o] = d.canvasObjects[o]
        BY <1>1, <1>5, <1>6
    <2>2. \A o \in T : d.canvasObjects[o].parentContainerId \in T
        BY <1>3, <1>4, <2>1
    <2>3. T \in SUBSET Present(d.canvasObjects) /\ T # {}
        BY <1>7 DEF Live
    <2> HIDE DEF T
    <2>. QED  BY <2>2, <2>3 DEF Acyclic
<1>8. CASE S \cap Live(d) = {}
    <2> DEFINE T == {o \in Present(originals) : idMap[o] \in S}
               parent(o) == originals[o].parentContainerId
    <2>1. \A i \in S : \E o \in Present(originals) :
            /\ idMap[o] = i
            /\ parent(o) \in DOMAIN idMap
            /\ idMap[parent(o)] \in S
        BY <1>1, <1>5, <1>6, <1>8
    <2>2. ASSUME NEW o \in DOMAIN idMap, idMap[o] \in S
          PROVE  o \in Present(originals) /\ parent(o) \in DOMAIN idMap /\ idMap[parent(o)] \in S
        BY <2>1, <2>2
    <2>3. \A o \in T : parent(o) \in T
        BY <2>2
    <2>4. T \in SUBSET Present(originals) /\ T # {}
        BY <2>1
    <2> HIDE DEF T
    <2>. QED  BY <2>3, <2>4 DEF Acyclic
<1>. QED  BY <1>7, <1>8

(* An answer moves all the objects it speaks of, to containers it speaks of *)
(* too: a cycle would be one of the answer, or one of the others.           *)
LEMMA CanonicalStateAcyclic ==
    ASSUME NEW d \in Diagrams, Acyclic(d.canvasObjects),
           NEW answer \in Diagrams, Acyclic(answer.canvasObjects), ParentsHold(answer)
    PROVE  Acyclic(CanonicalState(d, answer).canvasObjects)
<1> DEFINE e == CanonicalState(d, answer)
           mine(o) == d.canvasObjects[o].parentContainerId
           theirs(o) == answer.canvasObjects[o].parentContainerId
<1>1. /\ Live(e) = Live(d)
      /\ \A o \in Live(d) : e.canvasObjects[o].parentContainerId =
            IF o \in Live(answer) THEN theirs(o) ELSE mine(o)
    BY CanonicalStateFacts
<1>2. \A o \in Live(answer) : theirs(o) \in Live(answer) \cup {None}
    BY DEF ParentsHold
<1> SUFFICES ASSUME NEW S \in SUBSET Live(e), S # {},
                    \A o \in S : e.canvasObjects[o].parentContainerId \in S
             PROVE  FALSE
    BY DEF Acyclic, Live
<1>3. None \notin S
    BY <1>1, DiagramParts, GraphAssumption
<1>4. CASE S \cap Live(answer) # {}
    <2> DEFINE T == S \cap Live(answer)
    <2>1. \A o \in T : theirs(o) \in T
        <3> HIDE DEF e
        <3>. QED  BY <1>1, <1>2, <1>3
    <2>2. T \in SUBSET Present(answer.canvasObjects) /\ T # {}
        BY <1>4 DEF Live
    <2> HIDE DEF T
    <2>. QED  BY <2>1, <2>2 DEF Acyclic
<1>5. CASE S \cap Live(answer) = {}
    <2>1. \A o \in S : mine(o) \in S
        <3> HIDE DEF e
        <3>. QED  BY <1>1, <1>5
    <2>2. S \in SUBSET Present(d.canvasObjects)
        BY <1>1 DEF Live
    <2>. QED  BY <2>1, <2>2 DEF Acyclic
<1>. QED  BY <1>4, <1>5

-----------------------------------------------------------------------------
(* Removal keeps everything else where it was. *)

(* The way up from an object begins with its parent and goes on from the    *)
(* objects it may go through, and from any of those it is a part of it.     *)
LEMMA WayUpClosed ==
    ASSUME NEW objects \in [ObjectIds -> CanvasObject \cup {None}], NEW o, NEW through
    PROVE  LET way(i) == WayUp(objects, i, through)
           IN  /\ ParentOf(objects, o) \subseteq way(o)
               /\ \A b \in way(o) \cap through :
                    ParentOf(objects, b) \subseteq way(o) /\ way(b) \subseteq way(o)
               /\ \A p \in ParentOf(objects, o) \cap through : way(p) \subseteq way(o)
<1> DEFINE way(i) == WayUp(objects, i, through)
<1>1. \A i : ParentOf(objects, i) \subseteq ObjectIds
    BY DEF ParentOf, Present, CanvasObject
<1>2. /\ ParentOf(objects, o) \subseteq way(o) /\ way(o) \in SUBSET ObjectIds
      /\ \A b \in way(o) \cap through : ParentOf(objects, b) \subseteq way(o)
    BY <1>1 DEF WayUp
<1>3. \A b \in way(o) \cap through : way(b) \subseteq way(o)
    <2> SUFFICES ASSUME NEW b \in way(o) \cap through, NEW a \in way(b)
                 PROVE  a \in way(o)
        OBVIOUS
    <2>1. ParentOf(objects, b) \subseteq way(o)
        BY <1>2
    <2>. QED  BY <1>2, <2>1 DEF WayUp
<1>. QED  BY <1>2, <1>3

(* All that is met through some objects are ancestors. *)
LEMMA WayUpAncestors ==
    ASSUME NEW objects \in [ObjectIds -> CanvasObject \cup {None}], NEW o, NEW through
    PROVE  WayUp(objects, o, through) \subseteq Ancestors(objects, o)
BY DEF WayUp, Ancestors

(* There is only one way up, so it leaves a set of objects only once. *)
LEMMA OneWayOut ==
    ASSUME NEW objects \in [ObjectIds -> CanvasObject \cup {None}], Acyclic(objects),
           NEW o, NEW gone,
           NEW a \in WayUp(objects, o, gone) \ gone, NEW b \in WayUp(objects, o, gone) \ gone
    PROVE  a = b
<1> SUFFICES ASSUME a # b  PROVE FALSE
    OBVIOUS
<1> DEFINE both(i) == a \in WayUp(objects, i, gone) /\ b \in WayUp(objects, i, gone)
           S == {i \in Present(objects) : both(i)}
<1>1. ASSUME NEW i, both(i)
      PROVE  i \in Present(objects) /\ objects[i].parentContainerId \in S
    <2>1. WayUp(objects, i, gone) \subseteq
            ParentOf(objects, i) \cup UNION {WayUp(objects, p, gone) : p \in ParentOf(objects, i) \cap gone}
        BY WayUpStep
    <2>2. ParentOf(objects, i) # {}
        BY <1>1, <2>1
    <2>3. i \in Present(objects) /\ ParentOf(objects, i) = {objects[i].parentContainerId}
        BY <2>2 DEF ParentOf
    <2> DEFINE p == objects[i].parentContainerId
    <2> HIDE DEF p
    <2>4. p \in gone /\ both(p)
        BY <1>1, <2>1, <2>3 DEF p
    <2>5. WayUp(objects, p, gone) \subseteq
            ParentOf(objects, p) \cup UNION {WayUp(objects, q, gone) : q \in ParentOf(objects, p) \cap gone}
        BY WayUpStep
    <2>6. p \in Present(objects)
        BY <2>4, <2>5 DEF ParentOf
    <2>. QED  BY <2>3, <2>4, <2>6 DEF p
<1>2. S \in SUBSET Present(objects) /\ S # {} /\ \A i \in S : objects[i].parentContainerId \in S
    BY <1>1
<1> HIDE DEF S
<1>. QED  BY <1>2 DEF Acyclic

(* Whatever stays is inside of what it was inside of, less the removed.     *)
LEMMA RemoveObjectsAncestors ==
    ASSUME NEW d \in Diagrams, Acyclic(d.canvasObjects), ParentsHold(d), NEW ids,
           NEW o \in Live(d) \ ids
    PROVE  Ancestors(RemoveObjects(d, ids).canvasObjects, o) =
                Ancestors(d.canvasObjects, o) \ ids
<1> DEFINE before == d.canvasObjects
           after == RemoveObjects(d, ids).canvasObjects
           parent(i) == before[i].parentContainerId
           kept(i) == WayUp(before, i, ids) \ ids
<1>1. before \in [ObjectIds -> CanvasObject \cup {None}] /\ Live(d) \subseteq ObjectIds
      /\ Live(d) = Present(before) /\ Acyclic(before)
    BY DiagramParts DEF Live
<1>2. after \in [ObjectIds -> CanvasObject \cup {None}] /\ Present(after) = Live(d) \ ids
    <2>1. after \in [ObjectIds -> CanvasObject \cup {None}]
        BY RemoveObjectsType, DiagramParts
    <2>2. \A i \in ObjectIds \ (Live(d) \ ids) : after[i] = None
        BY DEF RemoveObjects
    <2>3. \A i \in Live(d) \ ids : after[i] \in CanvasObject
        BY RemoveObjectsStaying
    <2> HIDE DEF after, before
    <2>. QED  BY <1>1, <2>1, <2>2, <2>3, NoneAssumption DEF Present
<1>3. \A i \in Live(d) \ ids :
        after[i].parentContainerId =
            IF parent(i) \in ids THEN NearestAncestorOutside(before, i, ids) ELSE parent(i)
    BY RemoveObjectsStaying
<1>4. \A i \in Live(d) : parent(i) \in Live(d) \cup {None}
    BY DEF ParentsHold
<1> HIDE DEF before, after
<1>5. \A i : ParentOf(before, i) = IF i \in Live(d) THEN {parent(i)} \ {None} ELSE {}
    BY <1>1 DEF ParentOf
<1>6. \A i \in Live(d) \ ids : ParentOf(after, i) = {after[i].parentContainerId} \ {None}
    BY <1>2 DEF ParentOf
<1>7. None \notin Live(d)
    BY <1>1, GraphAssumption
(* The container an object is handed to is the one way out of the removed.  *)
<1>8. ASSUME NEW i \in Live(d) \ ids
      PROVE  ParentOf(after, i) = kept(i)
    <2>1. CASE parent(i) \in ids
        <3>1. kept(i) = {} => NearestAncestorOutside(before, i, ids) = None
            BY DEF NearestAncestorOutside
        <3>2. kept(i) # {} => NearestAncestorOutside(before, i, ids) \in kept(i)
            BY DEF NearestAncestorOutside
        <3>3. kept(i) \subseteq ObjectIds /\ None \notin ObjectIds
            BY GraphAssumption DEF WayUp
        <3>4. \A a, b \in kept(i) : a = b
            BY <1>1, OneWayOut
        <3> HIDE DEF kept
        <3>. QED  BY <1>3, <1>6, <2>1, <3>1, <3>2, <3>3, <3>4
    <2>2. CASE parent(i) \notin ids
        <3>1. WayUp(before, i, ids) \subseteq ParentOf(before, i) \cup
                UNION {WayUp(before, p, ids) : p \in ParentOf(before, i) \cap ids}
            BY <1>1, WayUpStep
        <3>2. ParentOf(before, i) = {parent(i)} \ {None}
            BY <1>5
        <3>3. WayUp(before, i, ids) \subseteq ParentOf(before, i)
            BY <2>2, <3>1, <3>2
        <3>4. ParentOf(before, i) \subseteq WayUp(before, i, ids)
            BY <1>1, WayUpClosed
        <3>. QED  BY <1>3, <1>6, <2>2, <3>2, <3>3, <3>4
    <2>. QED  BY <2>1, <2>2
<1> DEFINE old == Ancestors(before, o)
           new == Ancestors(after, o)
<1>9. old \in SUBSET ObjectIds /\ new \in SUBSET ObjectIds
    BY DEF Ancestors, WayUp
(* What was above is above: of two steps only the removed are skipped.      *)
<1>10. old \subseteq Live(d)
    <2> DEFINE S == Live(d)
    <2>1. S \in SUBSET ObjectIds /\ \A i : ParentOf(before, i) \subseteq S
        BY <1>1, <1>4, <1>5
    <2>. QED  BY <2>1 DEF Ancestors, WayUp
<1>11. new \subseteq old \ ids
    <2> DEFINE S == old \ ids
    <2>1. ASSUME NEW i \in Live(d) \ ids, Ancestors(before, i) \subseteq old
          PROVE  ParentOf(after, i) \subseteq S
        BY <1>1, <1>8, <2>1, WayUpAncestors
    <2>2. ParentOf(after, o) \subseteq S
        BY <2>1
    <2>3. \A b \in S : ParentOf(after, b) \subseteq S
        <3>1. \A b \in old \cap ObjectIds : Ancestors(before, b) \subseteq old
            BY <1>1, WayUpClosed DEF Ancestors
        <3>. QED  BY <1>9, <1>10, <2>1, <3>1
    <2>4. S \in SUBSET ObjectIds
        BY <1>9
    <2> HIDE DEF S
    <2>5. new \subseteq S
        BY <2>2, <2>3, <2>4 DEF Ancestors, WayUp
    <2>. QED  BY <2>5 DEF S
<1>12. old \ ids \subseteq new
    <2> DEFINE S == new \cup {b \in ObjectIds \cap ids : kept(b) \subseteq new}
    <2>1. ParentOf(after, o) \subseteq new /\ \A b \in new : ParentOf(after, b) \subseteq new
        BY <1>2, <1>9, WayUpClosed DEF Ancestors
    <2>2. ASSUME NEW i \in Live(d), kept(i) \subseteq new
          PROVE  ParentOf(before, i) \subseteq S
        <3> SUFFICES ASSUME NEW p \in ParentOf(before, i)  PROVE p \in S
            OBVIOUS
        <3>1. p \in WayUp(before, i, ids) /\ p \in ObjectIds
            BY <1>1, WayUpClosed DEF WayUp
        <3>2. CASE p \in ids
            <4>1. WayUp(before, p, ids) \subseteq WayUp(before, i, ids)
                BY <1>1, <3>2, WayUpClosed
            <4>. QED  BY <2>2, <3>1, <3>2, <4>1
        <3>3. CASE p \notin ids
            BY <2>2, <3>1, <3>3
        <3>. QED  BY <3>2, <3>3
    <2>3. ParentOf(before, o) \subseteq S
        BY <1>8, <2>1, <2>2
    <2>4. \A b \in S : ParentOf(before, b) \subseteq S
        <3> SUFFICES ASSUME NEW b \in S  PROVE ParentOf(before, b) \subseteq S
            OBVIOUS
        <3>1. CASE b \in new
            <4>1. b \in Live(d) \ ids
                BY <1>10, <1>11, <3>1
            <4>. QED  BY <1>8, <2>1, <2>2, <3>1, <4>1
        <3>2. CASE b \notin new /\ b \in Live(d)
            BY <2>2, <3>2
        <3>3. CASE b \notin Live(d)
            BY <1>5, <3>3
        <3>. QED  BY <3>1, <3>2, <3>3
    <2>5. S \in SUBSET ObjectIds
        BY <1>9
    <2> HIDE DEF S
    <2>6. old \subseteq S
        BY <2>3, <2>4, <2>5 DEF Ancestors, WayUp
    <2>. QED  BY <2>6 DEF S
<1>. QED  BY <1>11, <1>12 DEF before, after

-----------------------------------------------------------------------------
(* References lead to what they should: anchors, connectors, containers and *)
(* what a managed connector says of the hierarchy.                          *)

(* What a diagram shows as containers, and diagrams whose references of     *)
(* every kind lead to what they should.                                     *)
Shown(d) == {p \in Live(d) : d.canvasObjects[p].presentation = "container"}

Tied(d) ==
    AnchorsAttached(d) /\ ConnectorsAttached(d) /\ ParentsHold(d) /\ ManagedFollow(d)

(* Who has more parents has more ancestors. *)
LEMMA AncestorsGrow ==
    ASSUME NEW before, NEW after, NEW o,
           \A i : ParentOf(before, i) \subseteq ParentOf(after, i)
    PROVE  Ancestors(before, o) \subseteq Ancestors(after, o)
<1> SUFFICES ASSUME NEW a \in Ancestors(before, o), NEW S \in SUBSET ObjectIds,
                    ParentOf(after, o) \subseteq S,
                    \A b \in S \cap ObjectIds : ParentOf(after, b) \subseteq S
             PROVE  a \in S
    BY DEF Ancestors, WayUp
<1>1. ParentOf(before, o) \subseteq S /\ \A b \in S \cap ObjectIds : ParentOf(before, b) \subseteq S
    OBVIOUS
<1>. QED  BY <1>1 DEF Ancestors, WayUp

(* References stay whole where objects stay in their containers and are     *)
(* shown as they were, what is new is in containers or none, and no         *)
(* connectors but explicit ones between blocks are added.                   *)
LEMMA TiedGrows ==
    ASSUME NEW d \in Diagrams, NEW e \in Diagrams, Tied(d), Live(d) \subseteq Live(e),
           \A o \in Live(d) :
                /\ e.canvasObjects[o].parentContainerId = d.canvasObjects[o].parentContainerId
                /\ e.canvasObjects[o].presentation = d.canvasObjects[o].presentation,
           \A o \in Live(e) \ Live(d) :
                e.canvasObjects[o].parentContainerId \in Shown(e) \cup {None},
           AnchorsAttached(e),
           \A c \in Drawn(e) :
                \/ c \in Drawn(d) /\ e.connectors[c] = d.connectors[c]
                \/ /\ e.connectors[c].origin = "explicit"
                   /\ Ends(e.connectors[c]) \subseteq LiveBlocks(e)
    PROVE  Tied(e)
<1>1. LiveBlocks(d) \subseteq LiveBlocks(e) /\ Shown(d) \subseteq Shown(e)
    BY DEF LiveBlocks, Shown
<1>2. ConnectorsAttached(e)
    BY <1>1 DEF Tied, ConnectorsAttached
<1>3. \A o \in Live(d) : d.canvasObjects[o].parentContainerId \in Shown(d) \cup {None}
    BY DEF Tied, ParentsHold, Shown
<1>4. \A o \in Live(e) : e.canvasObjects[o].parentContainerId \in Shown(e) \cup {None}
    BY <1>1, <1>3
<1>5. \A i : ParentOf(d.canvasObjects, i) \subseteq ParentOf(e.canvasObjects, i)
    BY DEF ParentOf, Live
<1>6. \A o : Ancestors(d.canvasObjects, o) \subseteq Ancestors(e.canvasObjects, o)
    BY <1>5, AncestorsGrow
<1>7. ManagedFollow(e)
    BY <1>6 DEF Tied, ManagedFollow
<1>8. ParentsHold(e)
    BY <1>4 DEF ParentsHold, Shown
<1>. QED  BY <1>2, <1>7, <1>8 DEF Tied

(* A new diagram has nothing to refer to. *)
LEMMA EmptyTied == Tied(EmptyDiagram)
BY DEF EmptyDiagram, NoObjects, Tied, AnchorsAttached, ConnectorsAttached, ParentsHold,
       ManagedFollow, Live, Drawn, Present

(* Taking a connector away leaves the objects and the other connectors. *)
LEMMA WithoutConnectorFacts ==
    ASSUME NEW d \in Diagrams, NEW c
    PROVE  LET e == WithoutConnector(d, c)
           IN  /\ e.canvasObjects = d.canvasObjects
               /\ \A k \in Drawn(e) : k \in Drawn(d) /\ e.connectors[k] = d.connectors[k]
BY DEF WithoutConnector, Diagrams, Drawn, Present

(* Setting a connector leaves the objects and the other connectors. *)
LEMMA WithConnectorFacts ==
    ASSUME NEW d \in Diagrams, NEW c \in AllConnectorIds, NEW connector \in Connector
    PROVE  LET e == WithConnector(d, c, connector)
           IN  /\ e.canvasObjects = d.canvasObjects
               /\ e.connectors[c] = connector
               /\ \A k \in Drawn(e) \ {c} : k \in Drawn(d) /\ e.connectors[k] = d.connectors[k]
BY DEF WithConnector, Diagrams, Drawn, Present

(* References stay whole when a connector is taken away. *)
LEMMA WithoutConnectorTied ==
    ASSUME NEW d \in Diagrams, Tied(d), NEW c
    PROVE  Tied(WithoutConnector(d, c))
<1> DEFINE e == WithoutConnector(d, c)
<1>1. /\ e \in Diagrams /\ e.canvasObjects = d.canvasObjects
      /\ \A k \in Drawn(e) : k \in Drawn(d) /\ e.connectors[k] = d.connectors[k]
    BY WithoutConnectorType, WithoutConnectorFacts
<1>2. Live(e) = Live(d) /\ AnchorsAttached(e)
    <2> HIDE DEF e
    <2>. QED  BY <1>1 DEF Live, Tied, AnchorsAttached
<1> HIDE DEF e
<1>3. Tied(e)
    BY <1>1, <1>2, TiedGrows
<1>. QED  BY <1>3 DEF e

(* References stay whole when an explicit connector joins live blocks. *)
LEMMA WithConnectorTied ==
    ASSUME NEW d \in Diagrams, Tied(d), NEW c \in AllConnectorIds, NEW connector \in Connector,
           connector.origin = "explicit", Ends(connector) \subseteq LiveBlocks(d)
    PROVE  Tied(WithConnector(d, c, connector))
<1> DEFINE e == WithConnector(d, c, connector)
<1>1. /\ e \in Diagrams /\ e.canvasObjects = d.canvasObjects /\ e.connectors[c] = connector
      /\ \A k \in Drawn(e) \ {c} : k \in Drawn(d) /\ e.connectors[k] = d.connectors[k]
    BY WithConnectorType, WithConnectorFacts
<1>2. Live(e) = Live(d) /\ LiveBlocks(e) = LiveBlocks(d) /\ AnchorsAttached(e)
    <2> HIDE DEF e
    <2>. QED  BY <1>1 DEF Live, LiveBlocks, Tied, AnchorsAttached
<1> HIDE DEF e
<1>3. Tied(e)
    BY <1>1, <1>2, TiedGrows
<1>. QED  BY <1>3 DEF e

(* References stay whole when an object without container is put on the    *)
(* canvas, or one is changed but for its container.                         *)
LEMMA WithObjectTied ==
    ASSUME NEW d \in Diagrams, Tied(d), NEW o \in ObjectIds, NEW object \in CanvasObject,
           o \in Live(d) =>
                /\ object.parentContainerId = d.canvasObjects[o].parentContainerId
                /\ object.presentation = d.canvasObjects[o].presentation,
           o \notin Live(d) => object.parentContainerId = None,
           {object.sourceAnchor, object.targetAnchor} \subseteq Live(d) \cup {None}
    PROVE  Tied(WithObject(d, o, object))
<1> DEFINE e == WithObject(d, o, object)
<1>1. /\ e \in Diagrams /\ e.connectors = d.connectors
      /\ e.canvasObjects = [d.canvasObjects EXCEPT ![o] = object]
    BY WithObjectType DEF WithObject, Diagrams
<1> HIDE DEF e
<1>2. Live(e) = Live(d) \cup {o} /\ e.canvasObjects[o] = object
      /\ \A p \in Live(d) \ {o} : e.canvasObjects[p] = d.canvasObjects[p]
    BY <1>1, DiagramParts, NoneAssumption DEF Live, Present
<1>3. AnchorsAttached(e)
    BY <1>2 DEF Tied, AnchorsAttached
<1>4. \A c \in Drawn(e) : c \in Drawn(d) /\ e.connectors[c] = d.connectors[c]
    BY <1>1 DEF Drawn
<1>5. Tied(e)
    BY <1>1, <1>2, <1>3, <1>4, TiedGrows
<1>. QED  BY <1>5 DEF e

(* The groups of a diagram are changed, and nothing else. *)
SameButGroups(d, e) ==
    /\ Live(e) = Live(d) /\ e.connectors = d.connectors
    /\ \A o \in Live(d) :
        /\ e.canvasObjects[o].parentContainerId = d.canvasObjects[o].parentContainerId
        /\ e.canvasObjects[o].presentation = d.canvasObjects[o].presentation
        /\ e.canvasObjects[o].sourceAnchor = d.canvasObjects[o].sourceAnchor
        /\ e.canvasObjects[o].targetAnchor = d.canvasObjects[o].targetAnchor

(* No reference depends on the visual groups. *)
LEMMA SameButGroupsTied ==
    ASSUME NEW d \in Diagrams, NEW e \in Diagrams, Tied(d), SameButGroups(d, e)
    PROVE  Tied(e)
<1>1. AnchorsAttached(e)
    BY DEF Tied, AnchorsAttached, SameButGroups
<1>2. \A c \in Drawn(e) : c \in Drawn(d) /\ e.connectors[c] = d.connectors[c]
    BY DEF SameButGroups, Drawn
<1>. QED  BY <1>1, <1>2, TiedGrows DEF SameButGroups

(* Giving objects other groups changes nothing but the groups. *)
LEMMA RegroupedFacts ==
    ASSUME NEW d \in Diagrams, NEW e \in Diagrams, e.connectors = d.connectors,
           \A o \in ObjectIds \ Live(d) : e.canvasObjects[o] = None,
           \A o \in Live(d) : \/ e.canvasObjects[o] = d.canvasObjects[o]
                              \/ \E g \in GroupIds \cup {None} :
                                    e.canvasObjects[o] = [d.canvasObjects[o] EXCEPT !.groupId = g]
    PROVE  SameButGroups(d, e)
<1>1. ASSUME NEW o \in Live(d)
      PROVE  /\ e.canvasObjects[o] \in CanvasObject
             /\ e.canvasObjects[o].parentContainerId = d.canvasObjects[o].parentContainerId
             /\ e.canvasObjects[o].presentation = d.canvasObjects[o].presentation
             /\ e.canvasObjects[o].sourceAnchor = d.canvasObjects[o].sourceAnchor
             /\ e.canvasObjects[o].targetAnchor = d.canvasObjects[o].targetAnchor
    <2> DEFINE mine == d.canvasObjects[o]
               theirs == e.canvasObjects[o]
    <2>1. /\ mine \in CanvasObject
          /\ \/ theirs = mine
             \/ \E g \in GroupIds \cup {None} : theirs = [mine EXCEPT !.groupId = g]
        BY DiagramParts
    <2> HIDE DEF mine, theirs
    <2>2. /\ theirs \in CanvasObject
          /\ theirs.parentContainerId = mine.parentContainerId
          /\ theirs.presentation = mine.presentation
          /\ theirs.sourceAnchor = mine.sourceAnchor /\ theirs.targetAnchor = mine.targetAnchor
        BY <2>1 DEF CanvasObject
    <2>. QED  BY <2>2 DEF mine, theirs
<1>2. Live(e) = Live(d)
    BY <1>1, DiagramParts, NoneAssumption DEF Live, Present
<1>. QED  BY <1>1, <1>2 DEF SameButGroups

(* References stay whole when objects are grouped. *)
LEMMA GroupObjectsTied ==
    ASSUME NEW d \in Diagrams, Tied(d), NEW ids \in SUBSET ObjectIds, NEW g \in GroupIds
    PROVE  Tied(GroupObjects(d, ids, g))
<1> DEFINE e == GroupObjects(d, ids, g)
           kept == LeaveGroups(d, ids)
<1>1. e \in Diagrams /\ kept \in Diagrams
    BY GroupObjectsType, LeaveGroupsType
<1>2. /\ kept.connectors = d.connectors
      /\ \A o \in ObjectIds \ Live(d) : kept.canvasObjects[o] = None
      /\ \A o \in Live(d) : \/ kept.canvasObjects[o] = d.canvasObjects[o]
                            \/ kept.canvasObjects[o] = [d.canvasObjects[o] EXCEPT !.groupId = None]
    BY DiagramParts DEF LeaveGroups, Diagrams, Live, Present
<1> HIDE DEF kept
<1>3. /\ e.connectors = kept.connectors
      /\ e.canvasObjects = [o \in ObjectIds |->
            IF o \in ids \cap Live(d) THEN [kept.canvasObjects[o] EXCEPT !.groupId = g]
                                     ELSE kept.canvasObjects[o]]
    BY <1>1 DEF GroupObjects, kept, Diagrams
<1> HIDE DEF e
<1>4. \A o \in ObjectIds \ Live(d) : e.canvasObjects[o] = None
    BY <1>2, <1>3
<1>5. ASSUME NEW o \in Live(d)
      PROVE  \/ e.canvasObjects[o] = d.canvasObjects[o]
             \/ \E h \in GroupIds \cup {None} :
                    e.canvasObjects[o] = [d.canvasObjects[o] EXCEPT !.groupId = h]
    <2> DEFINE mine == d.canvasObjects[o]
               left == kept.canvasObjects[o]
    <2>1. mine \in CanvasObject /\ o \in ObjectIds
        BY DiagramParts
    <2>2. left = mine \/ left = [mine EXCEPT !.groupId = None]
        BY <1>2
    <2>3. e.canvasObjects[o] \in {left, [left EXCEPT !.groupId = g]}
        BY <1>3, <2>1
    <2>4. [left EXCEPT !.groupId = g] = [mine EXCEPT !.groupId = g]
        <3> HIDE DEF mine, left
        <3>. QED  BY <2>1, <2>2 DEF CanvasObject
    <2>. QED  BY <2>2, <2>3, <2>4
<1>6. e.connectors = d.connectors
    BY <1>2, <1>3
<1>7. SameButGroups(d, e)
    BY <1>1, <1>4, <1>5, <1>6, RegroupedFacts
<1>8. Tied(e)
    BY <1>1, <1>7, SameButGroupsTied
<1>. QED  BY <1>8 DEF e

(* References stay whole when a group is dissolved. *)
LEMMA UngroupObjectsTied ==
    ASSUME NEW d \in Diagrams, Tied(d), NEW g \in GroupIds
    PROVE  Tied(UngroupObjects(d, g))
<1> DEFINE e == UngroupObjects(d, g)
<1>1. e \in Diagrams
    BY UngroupObjectsType
<1>2. /\ e.connectors = d.connectors
      /\ e.canvasObjects = [o \in ObjectIds |->
            IF o \in d.objectGroups[g] \cap Live(d)
                THEN [d.canvasObjects[o] EXCEPT !.groupId = None] ELSE d.canvasObjects[o]]
    BY DEF UngroupObjects, Diagrams
<1> HIDE DEF e
<1>3. \A o \in ObjectIds \ Live(d) : e.canvasObjects[o] = None
    BY <1>2, DiagramParts DEF Live, Present
<1>4. \A o \in Live(d) : \/ e.canvasObjects[o] = d.canvasObjects[o]
                         \/ e.canvasObjects[o] = [d.canvasObjects[o] EXCEPT !.groupId = None]
    BY <1>2, DiagramParts
<1>5. \A o \in Live(d) : \/ e.canvasObjects[o] = d.canvasObjects[o]
                         \/ \E h \in GroupIds \cup {None} :
                                e.canvasObjects[o] = [d.canvasObjects[o] EXCEPT !.groupId = h]
    BY <1>4
<1>6. SameButGroups(d, e)
    BY <1>1, <1>2, <1>3, <1>5, RegroupedFacts
<1>7. Tied(e)
    BY <1>1, <1>6, SameButGroupsTied
<1>. QED  BY <1>7 DEF e

(* All that an object is inside of is shown as a container. *)
LEMMA AncestorsShown ==
    ASSUME NEW d \in Diagrams, ParentsHold(d), NEW o
    PROVE  Ancestors(d.canvasObjects, o) \subseteq Shown(d)
<1>1. Shown(d) \in SUBSET ObjectIds
    BY DiagramParts DEF Shown
<1>2. \A i : ParentOf(d.canvasObjects, i) \subseteq Shown(d)
    BY DEF ParentOf, ParentsHold, Shown, Live
<1>. QED  BY <1>1, <1>2 DEF Ancestors, WayUp

(* What is on the canvas after a removal, and which connectors are left.    *)
LEMMA RemoveObjectsLeaves ==
    ASSUME NEW d \in Diagrams, NEW ids
    PROVE  LET e == RemoveObjects(d, ids)
           IN  /\ Live(e) = Live(d) \ ids
               /\ \A c \in Drawn(e) :
                    /\ c \in Drawn(d) /\ e.connectors[c] = d.connectors[c]
                    /\ Ends(d.connectors[c]) \cap ids \cap Live(d) = {}
<1> DEFINE e == RemoveObjects(d, ids)
<1>1. \A o \in Live(d) \ ids : e.canvasObjects[o] \in CanvasObject
    BY RemoveObjectsStaying
<1>2. \A o \in ObjectIds \ (Live(d) \ ids) : e.canvasObjects[o] = None
    BY DEF RemoveObjects
<1>3. DOMAIN e.canvasObjects = ObjectIds /\ Live(d) \subseteq ObjectIds
    BY DiagramParts DEF RemoveObjects
<1>4. \A c \in Drawn(e) :
        /\ c \in Drawn(d) /\ e.connectors[c] = d.connectors[c]
        /\ Ends(d.connectors[c]) \cap ids \cap Live(d) = {}
    BY DEF RemoveObjects, Drawn, Present
<1> HIDE DEF e
<1>5. Live(e) = Live(d) \ ids
    BY <1>1, <1>2, <1>3, NoneAssumption DEF Live, Present
<1>. QED  BY <1>4, <1>5 DEF e

(* References stay whole when objects are removed, and what the managed     *)
(* connectors that are left say of the hierarchy stays true.                *)
LEMMA RemoveObjectsTied ==
    ASSUME NEW d \in Diagrams, Tied(d), Acyclic(d.canvasObjects), NEW ids
    PROVE  Tied(RemoveObjects(d, ids))
<1> DEFINE e == RemoveObjects(d, ids)
           before(o) == d.canvasObjects[o]
           after(o) == e.canvasObjects[o]
<1>1. Live(e) = Live(d) \ ids
    BY RemoveObjectsLeaves
<1>2. \A c \in Drawn(e) :
        /\ c \in Drawn(d) /\ e.connectors[c] = d.connectors[c]
        /\ Ends(d.connectors[c]) \subseteq LiveBlocks(e)
    BY <1>1, RemoveObjectsLeaves DEF Tied, ConnectorsAttached, LiveBlocks
<1>3. \A o \in Live(e) :
        /\ after(o).presentation = before(o).presentation
        /\ after(o).sourceAnchor = IF before(o).sourceAnchor \in ids THEN None
                                   ELSE before(o).sourceAnchor
        /\ after(o).targetAnchor = IF before(o).targetAnchor \in ids THEN None
                                   ELSE before(o).targetAnchor
        /\ after(o).parentContainerId =
                IF before(o).parentContainerId \in ids
                    THEN NearestAncestorOutside(d.canvasObjects, o, ids)
                    ELSE before(o).parentContainerId
    BY <1>1, RemoveObjectsStaying
<1>4. \A o \in Live(e) : Ancestors(e.canvasObjects, o) = Ancestors(d.canvasObjects, o) \ ids
    BY <1>1, RemoveObjectsAncestors DEF Tied
<1> HIDE DEF e
<1>5. AnchorsAttached(e)
    BY <1>1, <1>3 DEF AnchorsAttached, Tied
<1>6. ConnectorsAttached(e)
    BY <1>2 DEF ConnectorsAttached
<1>7. Shown(d) \ ids \subseteq Shown(e)
    BY <1>1, <1>3 DEF Shown
<1>8. ASSUME NEW o \in Live(e)
      PROVE  after(o).parentContainerId \in Shown(e) \cup {None}
    <2>1. CASE before(o).parentContainerId \in ids
        <3>1. d.canvasObjects \in [ObjectIds -> CanvasObject \cup {None}]
            BY DiagramParts
        <3>2. WayUp(d.canvasObjects, o, ids) \subseteq Shown(d)
            BY <3>1, WayUpAncestors, AncestorsShown DEF Tied
        <3>3. NearestAncestorOutside(d.canvasObjects, o, ids)
                \in (WayUp(d.canvasObjects, o, ids) \ ids) \cup {None}
            BY DEF NearestAncestorOutside
        <3>. QED  BY <1>3, <1>7, <2>1, <3>2, <3>3
    <2>2. CASE before(o).parentContainerId \notin ids
        <3>1. before(o).parentContainerId \in Shown(d) \cup {None}
            BY <1>1 DEF Tied, ParentsHold, Shown
        <3>. QED  BY <1>3, <1>7, <2>2, <3>1
    <2>. QED  BY <2>1, <2>2
<1>9. ParentsHold(e)
    BY <1>8 DEF ParentsHold, Shown
<1>10. ManagedFollow(e)
    <2> SUFFICES ASSUME NEW c \in Drawn(e), e.connectors[c].origin = "containment"
                 PROVE  e.connectors[c].sourceId \in
                            Ancestors(e.canvasObjects, e.connectors[c].targetId)
        BY DEF ManagedFollow
    <2>1. {e.connectors[c].sourceId, e.connectors[c].targetId} \subseteq Live(e)
        BY <1>2 DEF Ends, LiveBlocks
    <2>2. e.connectors[c].sourceId \in Ancestors(d.canvasObjects, e.connectors[c].targetId)
        BY <1>2 DEF Tied, ManagedFollow
    <2>. QED  BY <1>1, <1>4, <2>1, <2>2
<1>11. Tied(e)
    BY <1>5, <1>6, <1>9, <1>10 DEF Tied
<1>. QED  BY <1>11 DEF e

(* What becomes of an object that is pasted or duplicated. *)
Renamed(idMap, i) == IF i \in DOMAIN idMap THEN idMap[i] ELSE None

Copied(idMap, object) ==
    [object EXCEPT
        !.groupId = None,
        !.parentContainerId = Renamed(idMap, @),
        !.sourceAnchor = Renamed(idMap, @),
        !.targetAnchor = Renamed(idMap, @)]

(* A copy is an object, shown as the original, with its references renamed. *)
LEMMA CopiedFields ==
    ASSUME NEW idMap, \A o \in DOMAIN idMap : idMap[o] \in ObjectIds,
           NEW object \in CanvasObject
    PROVE  LET copy == Copied(idMap, object)
           IN  /\ copy \in CanvasObject
               /\ copy.presentation = object.presentation
               /\ copy.parentContainerId = Renamed(idMap, object.parentContainerId)
               /\ copy.sourceAnchor = Renamed(idMap, object.sourceAnchor)
               /\ copy.targetAnchor = Renamed(idMap, object.targetAnchor)
<1>1. \A i : Renamed(idMap, i) \in ObjectIds \cup {None}
    BY DEF Renamed
<1>. QED  BY <1>1 DEF CanvasObject, Copied

(* What pasting and duplicating put on the canvas, and that they leave the  *)
(* rest alone.                                                              *)
LEMMA CloneObjectsCopies ==
    ASSUME NEW d \in Diagrams, NEW originals \in [ObjectIds -> CanvasObject \cup {None}],
           NEW idMap, \A o \in DOMAIN idMap : idMap[o] \in ObjectIds \ Live(d),
           \A o, p \in DOMAIN idMap : idMap[o] = idMap[p] => o = p,
           Present(originals) \subseteq DOMAIN idMap
    PROVE  LET e == CloneObjects(d, originals, idMap)
           IN  /\ e.connectors = d.connectors
               /\ Live(e) = Live(d) \cup {idMap[o] : o \in Present(originals)}
               /\ \A i \in Live(d) : e.canvasObjects[i] = d.canvasObjects[i]
               /\ \A o \in Present(originals) :
                    e.canvasObjects[idMap[o]] = Copied(idMap, originals[o])
<1> DEFINE original(i) == {o \in DOMAIN idMap : o \in Present(originals) /\ idMap[o] = i}
           objects == [i \in ObjectIds |->
                IF original(i) = {} THEN d.canvasObjects[i]
                ELSE Copied(idMap, originals[CHOOSE o \in original(i) : TRUE])]
           e == CloneObjects(d, originals, idMap)
<1>1. e = [d EXCEPT !.canvasObjects = objects]
    BY Zenon DEF CloneObjects, Copied, Renamed
<1>2. e.canvasObjects = objects /\ e.connectors = d.connectors
    <2> HIDE DEF objects, e
    <2>. QED  BY <1>1 DEF Diagrams
<1>3. ASSUME NEW o \in Present(originals)
      PROVE  objects[idMap[o]] = Copied(idMap, originals[o]) /\ objects[idMap[o]] # None
    <2>1. idMap[o] \in ObjectIds /\ original(idMap[o]) = {o}
        OBVIOUS
    <2>2. objects[idMap[o]] =
            IF original(idMap[o]) = {} THEN d.canvasObjects[idMap[o]]
            ELSE Copied(idMap, originals[CHOOSE p \in original(idMap[o]) : TRUE])
        BY <2>1, Zenon
    <2>3. (CHOOSE p \in {o} : TRUE) = o
        OBVIOUS
    <2>4. objects[idMap[o]] = Copied(idMap, originals[o])
        <3> HIDE DEF objects, original
        <3>. QED  BY <2>1, <2>2, <2>3
    <2>5. originals[o] \in CanvasObject
        BY DEF Present
    <2>6. Copied(idMap, originals[o]) \in CanvasObject
        BY <2>5, CopiedFields
    <2> HIDE DEF objects
    <2>. QED  BY <2>4, <2>6, NoneAssumption
<1>4. \A i \in ObjectIds : i \notin {idMap[o] : o \in Present(originals)} =>
        objects[i] = d.canvasObjects[i]
    OBVIOUS
<1>5. Present(objects) = Live(d) \cup {idMap[o] : o \in Present(originals)}
    <2>1. DOMAIN objects = ObjectIds /\ DOMAIN d.canvasObjects = ObjectIds
        BY DiagramParts
    <2>2. {idMap[o] : o \in Present(originals)} \subseteq ObjectIds \ Live(d)
        OBVIOUS
    <2>3. \A i \in {idMap[o] : o \in Present(originals)} : objects[i] # None
        <3> HIDE DEF objects
        <3>. QED  BY <1>3
    <2> HIDE DEF objects, original
    <2>. QED  BY <1>4, <2>1, <2>2, <2>3 DEF Live, Present
<1>6. \A i \in Live(d) : objects[i] = d.canvasObjects[i]
    <2>1. Live(d) \subseteq ObjectIds
        BY DiagramParts
    <2> HIDE DEF objects
    <2>. QED  BY <1>4, <2>1
<1> HIDE DEF objects, e
<1>7. /\ Live(e) = Live(d) \cup {idMap[o] : o \in Present(originals)}
      /\ \A i \in Live(d) : e.canvasObjects[i] = d.canvasObjects[i]
      /\ \A o \in Present(originals) : e.canvasObjects[idMap[o]] = Copied(idMap, originals[o])
    BY <1>2, <1>3, <1>5, <1>6 DEF Live
<1>. QED  BY <1>2, <1>7 DEF e

(* Copies whose container is copied along are in one. *)
ContainersAlong(originals) ==
    \A o \in Present(originals) :
        originals[o].parentContainerId \in Present(originals) =>
            originals[originals[o].parentContainerId].presentation = "container"

(* References stay whole when objects are pasted or duplicated. *)
LEMMA CloneObjectsTied ==
    ASSUME NEW d \in Diagrams, Tied(d),
           NEW originals \in [ObjectIds -> CanvasObject \cup {None}], ContainersAlong(originals),
           NEW idMap, \A o \in DOMAIN idMap : idMap[o] \in ObjectIds \ Live(d),
           \A o, p \in DOMAIN idMap : idMap[o] = idMap[p] => o = p,
           Present(originals) \subseteq DOMAIN idMap,
           \A o \in Present(originals) :
                {originals[o].parentContainerId, originals[o].sourceAnchor,
                 originals[o].targetAnchor} \cap DOMAIN idMap \subseteq Present(originals)
    PROVE  Tied(CloneObjects(d, originals, idMap))
<1> DEFINE e == CloneObjects(d, originals, idMap)
           renamed(i) == Renamed(idMap, i)
           copies == {idMap[o] : o \in Present(originals)}
<1>1. /\ e.connectors = d.connectors /\ Live(e) = Live(d) \cup copies
      /\ \A i \in Live(d) : e.canvasObjects[i] = d.canvasObjects[i]
      /\ \A o \in Present(originals) : e.canvasObjects[idMap[o]] = Copied(idMap, originals[o])
    BY CloneObjectsCopies
<1>2. e \in Diagrams
    BY CloneObjectsFacts
<1> HIDE DEF e
<1>3. ASSUME NEW o \in Present(originals)
      PROVE  LET copy == e.canvasObjects[idMap[o]]
             IN  /\ copy.presentation = originals[o].presentation
                 /\ copy.parentContainerId = renamed(originals[o].parentContainerId)
                 /\ copy.sourceAnchor = renamed(originals[o].sourceAnchor)
                 /\ copy.targetAnchor = renamed(originals[o].targetAnchor)
    <2>1. originals[o] \in CanvasObject /\ \A p \in DOMAIN idMap : idMap[p] \in ObjectIds
        BY DEF Present
    <2>. QED  BY <1>1, <2>1, CopiedFields
<1>4. \A o \in Present(originals) :
        /\ renamed(originals[o].parentContainerId) \in copies \cup {None}
        /\ renamed(originals[o].sourceAnchor) \in copies \cup {None}
        /\ renamed(originals[o].targetAnchor) \in copies \cup {None}
    BY DEF Renamed
<1>5. AnchorsAttached(e)
    <2> SUFFICES ASSUME NEW i \in Live(e)
                 PROVE  {e.canvasObjects[i].sourceAnchor, e.canvasObjects[i].targetAnchor}
                            \subseteq Live(e) \cup {None}
        BY DEF AnchorsAttached
    <2>1. CASE i \in Live(d)
        BY <1>1, <2>1 DEF Tied, AnchorsAttached
    <2>2. CASE i \notin Live(d)
        <3>1. PICK o \in Present(originals) : i = idMap[o]
            BY <1>1, <2>2
        <3> HIDE DEF renamed, copies
        <3>. QED  BY <1>1, <1>3, <1>4, <3>1
    <2>. QED  BY <2>1, <2>2
<1>6. ASSUME NEW i \in Live(e) \ Live(d)
      PROVE  e.canvasObjects[i].parentContainerId \in Shown(e) \cup {None}
    <2>1. PICK o \in Present(originals) : i = idMap[o]
        BY <1>1
    <2> DEFINE p == originals[o].parentContainerId
    <2>2. e.canvasObjects[i].parentContainerId = renamed(p)
        BY <1>1, <1>3, <2>1
    <2>3. CASE p \notin DOMAIN idMap
        BY <2>2, <2>3 DEF Renamed
    <2>4. CASE p \in DOMAIN idMap
        <3>1. p \in Present(originals) /\ originals[p].presentation = "container"
            BY <2>4 DEF ContainersAlong
        <3>2. e.canvasObjects[idMap[p]].presentation = "container" /\ idMap[p] \in Live(e)
            <4> HIDE DEF p
            <4>. QED  BY <1>1, <1>3, <3>1
        <3>. QED  BY <2>2, <2>4, <3>2 DEF Shown, Renamed
    <2>. QED  BY <2>3, <2>4
<1>7. \A c \in Drawn(e) : c \in Drawn(d) /\ e.connectors[c] = d.connectors[c]
    BY <1>1 DEF Drawn
<1>8. Tied(e)
    BY <1>1, <1>2, <1>5, <1>6, <1>7, TiedGrows
<1>. QED  BY <1>8 DEF e

(* The backend turns a connector round and joins the same blocks with it. *)
LEMMA DirectedFacts ==
    ASSUME NEW c \in Connector
    PROVE  /\ Directed(c) \in Connector
           /\ Ends(Directed(c)) = Ends(c)
           /\ Directed(c).origin = c.origin
BY DEF Directed, Connector, Ends

(* A normalised diagram has the explicit connectors that were drawn, turned *)
(* round where need be, and managed ones that follow its hierarchy.         *)
LEMMA NormalizedFacts ==
    ASSUME NEW d \in Diagrams
    PROVE  LET e == Normalized(d)
           IN  /\ e.canvasObjects = d.canvasObjects /\ e.objectGroups = d.objectGroups
               /\ \A c \in Drawn(e) :
                    \/ /\ c \in Drawn(d)
                       /\ d.connectors[c].origin = "explicit"
                       /\ e.connectors[c].origin = "explicit"
                       /\ Ends(e.connectors[c]) = Ends(d.connectors[c])
                    \/ /\ c \in Blocks \X Blocks
                       /\ e.connectors[c].origin = "containment"
                       /\ Ends(e.connectors[c]) \subseteq LiveBlocks(d)
                       /\ e.connectors[c].sourceId \in
                            Ancestors(d.canvasObjects, e.connectors[c].targetId)
<1> DEFINE e == Normalized(d)
           explicit == {c \in Drawn(d) : d.connectors[c].origin = "explicit"}
           drawn == {<<Directed(d.connectors[c]).sourceId, Directed(d.connectors[c]).targetId>> :
                        c \in explicit}
           derived == {pair \in Contains : {pair[1], pair[2]} \subseteq Live(d)
                            /\ pair[1] \in Ancestors(d.canvasObjects, pair[2])}
           managed(c) == [sourceId |-> c[1], targetId |-> c[2], origin |-> "containment"]
<1>1. /\ e.canvasObjects = d.canvasObjects /\ e.objectGroups = d.objectGroups
      /\ e.connectors = [c \in AllConnectorIds |->
            CASE c \in explicit        -> Directed(d.connectors[c])
              [] c \in derived \ drawn -> managed(c)
              [] OTHER                 -> None]
    BY DEF Normalized, Diagrams
<1>2. \A c \in Drawn(e) :
        \/ c \in explicit /\ e.connectors[c] = Directed(d.connectors[c])
        \/ c \in derived /\ e.connectors[c] = managed(c)
    <2> HIDE DEF explicit, drawn, derived, managed, e
    <2>. QED  BY <1>1 DEF Drawn, Present
<1>3. ASSUME NEW c \in explicit
      PROVE  /\ c \in Drawn(d) /\ d.connectors[c].origin = "explicit"
             /\ Directed(d.connectors[c]).origin = "explicit"
             /\ Ends(Directed(d.connectors[c])) = Ends(d.connectors[c])
    BY DiagramParts, DirectedFacts
<1>4. ASSUME NEW c \in derived
      PROVE  /\ c \in Blocks \X Blocks
             /\ managed(c).origin = "containment"
             /\ Ends(managed(c)) \subseteq LiveBlocks(d)
             /\ managed(c).sourceId \in Ancestors(d.canvasObjects, managed(c).targetId)
    BY GraphAssumption DEF Ends, LiveBlocks
<1> HIDE DEF e, explicit, derived, managed
<1>5. ASSUME NEW c \in Drawn(e)
      PROVE  \/ /\ c \in Drawn(d)
                /\ d.connectors[c].origin = "explicit"
                /\ e.connectors[c].origin = "explicit"
                /\ Ends(e.connectors[c]) = Ends(d.connectors[c])
             \/ /\ c \in Blocks \X Blocks
                /\ e.connectors[c].origin = "containment"
                /\ Ends(e.connectors[c]) \subseteq LiveBlocks(d)
                /\ e.connectors[c].sourceId \in
                        Ancestors(d.canvasObjects, e.connectors[c].targetId)
    <2>1. CASE c \in explicit /\ e.connectors[c] = Directed(d.connectors[c])
        BY <1>3, <2>1
    <2>2. CASE c \in derived /\ e.connectors[c] = managed(c)
        BY <1>4, <2>2
    <2>. QED  BY <1>2, <2>1, <2>2
<1>. QED  BY <1>1, <1>5 DEF e

(* An answer whose objects are all on the canvas, while no other object is  *)
(* in a container: every reference leads to what the answer speaks of.      *)
LEMMA AnswerTied ==
    ASSUME NEW d \in Diagrams, AnchorsAttached(d),
           NEW asked \in Diagrams, ConnectorsAttached(asked), ParentsHold(asked),
           Live(asked) \subseteq Live(d),
           \A o \in Live(d) \ Live(asked) : d.canvasObjects[o].parentContainerId = None
    PROVE  Tied(CanonicalState(d, Normalized(asked)))
<1> DEFINE answer == Normalized(asked)
           e == CanonicalState(d, answer)
<1>1. /\ answer \in Diagrams
      /\ answer.canvasObjects = asked.canvasObjects /\ Live(answer) = Live(asked)
      /\ \A c \in Drawn(answer) :
            /\ Ends(answer.connectors[c]) \subseteq LiveBlocks(asked)
            /\ answer.connectors[c].origin = "containment" =>
                    answer.connectors[c].sourceId \in
                        Ancestors(asked.canvasObjects, answer.connectors[c].targetId)
    BY NormalizedType, NormalizedFacts DEF ConnectorsAttached, Live
<1> HIDE DEF answer
<1>2. /\ e \in Diagrams /\ e.connectors = answer.connectors /\ Live(e) = Live(d)
      /\ \A o \in Live(d) :
            /\ e.canvasObjects[o].sourceAnchor = d.canvasObjects[o].sourceAnchor
            /\ e.canvasObjects[o].targetAnchor = d.canvasObjects[o].targetAnchor
            /\ e.canvasObjects[o].presentation =
                    IF o \in Live(asked) THEN asked.canvasObjects[o].presentation
                    ELSE d.canvasObjects[o].presentation
            /\ e.canvasObjects[o].parentContainerId =
                    IF o \in Live(asked) THEN asked.canvasObjects[o].parentContainerId
                    ELSE d.canvasObjects[o].parentContainerId
    BY <1>1, CanonicalStateFacts
<1> HIDE DEF e
<1>3. AnchorsAttached(e)
    BY <1>2 DEF AnchorsAttached
<1>4. ConnectorsAttached(e)
    BY <1>1, <1>2 DEF ConnectorsAttached, LiveBlocks, Drawn
<1>5. Shown(asked) \subseteq Shown(e)
    BY <1>2 DEF Shown
<1>6. \A o \in Live(e) : e.canvasObjects[o].parentContainerId \in Shown(e) \cup {None}
    BY <1>2, <1>5 DEF ParentsHold, Shown
<1>7. \A i : ParentOf(asked.canvasObjects, i) \subseteq ParentOf(e.canvasObjects, i)
    BY <1>2 DEF ParentOf, Live
<1>8. \A o : Ancestors(asked.canvasObjects, o) \subseteq Ancestors(e.canvasObjects, o)
    BY <1>7, AncestorsGrow
<1>9. ManagedFollow(e)
    BY <1>1, <1>2, <1>8 DEF ManagedFollow, Drawn
<1>10. ParentsHold(e)
    BY <1>6 DEF ParentsHold, Shown
<1>11. Tied(e)
    BY <1>3, <1>4, <1>9, <1>10 DEF Tied
<1>. QED  BY <1>11 DEF e, answer

=============================================================================
