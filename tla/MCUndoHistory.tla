--------------------------- MODULE MCUndoHistory ---------------------------
(* UndoHistory on three diagrams, and its refinement of UndoTimeline. *)
EXTENDS UndoHistory

=============================================================================
