---------------------------- MODULE MCContain -------------------------------
(* DiagramEditor: containment operations against a backend that takes its  *)
(* time while the user goes on.                                            *)
EXTENDS DiagramEditor

CONSTANTS b1, k1, k2

(* A VPC block k1 and a boundary k2 that may hold one another, and an      *)
(* instance b1 that either may hold; the VPC contains what is inside it.   *)
NestedPlacements == {<<k1, k2>>, <<k2, k1>>, <<b1, k1>>, <<b1, k2>>}

NestedContains == {<<k1, b1>>}

(* Where k2 is a Subnet block: only the VPC may hold it, only it the instance. *)
NetworkPlacements == {<<b1, k2>>, <<k2, k1>>}

NetworkContains == {<<k1, b1>>, <<k2, b1>>}

SavedNetwork ==
    LET shown(p)   == [NewObject(p) EXCEPT !.presentation = "container"]
        network    == WithObject(WithObject(WithObject(EmptyDiagram, k1, shown(k1)),
                        k2, [shown(k2) EXCEPT !.parentContainerId = k1]),
                        b1, [NewObject(b1) EXCEPT !.parentContainerId = k2])
    IN  {Normalized(network)}

(* The same three, none inside another. *)
SavedFlat ==
    {[d EXCEPT !.canvasObjects = [o \in DOMAIN @ |->
        IF @[o] = None THEN None ELSE [@[o] EXCEPT !.parentContainerId = None]],
               !.connectors = EmptyDiagram.connectors] : d \in SavedNetwork}

ContainNext ==
    \/ Create
    \/ \E o \in ObjectIds : SelectObject(o)
    \/ Remove
    \/ Contain
    \/ ContainmentAnswer
    \/ TimeTravel
    \/ Switch

ContainSpec == Init /\ [][ContainNext]_vars

FairContainSpec == ContainSpec /\ WF_vars(ContainmentAnswer)

=============================================================================
