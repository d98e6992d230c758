---------------------------- MODULE MCConnect -------------------------------
(* DiagramEditor: pull-to-connect and the queue of connection checks. *)
EXTENDS DiagramEditor

CONSTANTS b1, b2

(* Connections and the queue of their checks, between saved blocks. *)
SavedBlocks ==
    {WithObject(WithObject(EmptyDiagram, b1, NewObject(b1)), b2, NewObject(b2))}

OneWay == {<<b1, b2>>}

ConnectNext ==
    \/ Switch
    \/ \E o \in ObjectIds : SelectObject(o)
    \/ RemoveSelected
    \/ Connect
    \/ ConnectionAnswer
    \/ TimeTravel

ConnectSpec == Init /\ [][ConnectNext]_vars

(* The browser settles every request. *)
FairConnectSpec == ConnectSpec /\ WF_vars(ConnectionAnswer)

=============================================================================
