---------------------------- MODULE MCEditing -------------------------------
(* DiagramEditor: visual groups, anchors and history.  Every facet of the  *)
(* editor is checked on its own, on objects enough for its hazards; the    *)
(* proofs are about the whole next-state relation.                         *)
EXTENDS DiagramEditor, TLC

EditingNext ==
    \/ Create
    \/ RecordDataEdit
    \/ Remove
    \/ SelectSome
    \/ Grouping
    \/ Anchor
    \/ TimeTravel
    \/ NewDiagram

EditingSpec == Init /\ [][EditingNext]_vars

Symmetry == Permutations(GroupIds)

=============================================================================
