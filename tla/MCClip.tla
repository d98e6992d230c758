------------------------------ MODULE MCClip ------------------------------
(* DiagramEditor: copying, cutting, pasting and duplicating a block and    *)
(* what refers to it or holds it.                                          *)
EXTENDS DiagramEditor

CONSTANTS b1, partner, g1

(* The block inside a container, or a line attached to the block; either   *)
(* way the two are grouped.                                                *)
SavedPair ==
    LET block == [NewObject(b1) EXCEPT
                    !.parentContainerId = IF partner \in Lines THEN None ELSE partner]
        other == [NewObject(partner) EXCEPT
                    !.sourceAnchor = IF partner \in Lines THEN b1 ELSE None]
    IN  {GroupObjects(WithObject(WithObject(EmptyDiagram, b1, block), partner, other),
            {b1, partner}, g1)}

ClipNext ==
    \/ LoadDiagramState
    \/ SelectObjectsByRect
    \/ Clip
    \/ TimeTravel

ClipSpec == Init /\ [][ClipNext]_vars

=============================================================================
