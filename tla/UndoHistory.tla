---------------------------- MODULE UndoHistory ----------------------------
(***************************************************************************)
(* The history slice of the diagram store (history-slice.ts,               *)
(* history-support.ts): two stacks of snapshots around the diagram on the  *)
(* canvas.  A snapshot is a deep copy of the three maps that make up a     *)
(* diagram, so here it is simply a value of Diagrams.                      *)
(*                                                                         *)
(* The module says nothing of what an edit does to a diagram.  It tells    *)
(* apart the edits that call pushHistory first (RecordedEdit) from those   *)
(* that do not (SilentEdit: moves within a gesture, z-order changes,       *)
(* answers of the server to a new connector).  DiagramEditor instantiates  *)
(* this module and gives both a meaning.                                   *)
(***************************************************************************)
EXTENDS Integers, Sequences, SequencesExt

CONSTANTS
    Diagrams,      \* every value the canvas can show
    MaxHistory     \* MAX_HISTORY: the length the undo stack is cut to

ASSUME MaxHistoryAssumption == MaxHistory \in Nat \ {0}

VARIABLES
    diagram,       \* what the canvas shows
    undoStack,     \* snapshots before the last recorded edits, oldest first
    redoStack,     \* snapshots that undo left behind, the next one last
    canUndo,       \* the flags the toolbar and the menu read
    canRedo

stacks == <<undoStack, redoStack, canUndo, canRedo>>
vars == <<diagram, undoStack, redoStack, canUndo, canRedo>>

Init ==
    /\ diagram \in Diagrams
    /\ undoStack = <<>>
    /\ redoStack = <<>>
    /\ canUndo = FALSE
    /\ canRedo = FALSE

(* Fault: the stack is never cut. *)
RecordedUncut(stack, snapshot) == Append(stack, snapshot)

(* Appending a snapshot drops the oldest ones past MaxHistory. *)
Recorded(stack, snapshot) ==
    LET longer == Append(stack, snapshot) IN
    IF Len(longer) > MaxHistory
        THEN SubSeq(longer, Len(longer) - MaxHistory + 1, Len(longer))
        ELSE longer

Popped(stack) == SubSeq(stack, 1, Len(stack) - 1)

Top(stack) == stack[Len(stack)]

(* Fault: an edit leaves the undone future in place. *)
PushHistoryKeepingFuture ==
    /\ undoStack' = Recorded(undoStack, diagram)
    /\ canUndo' = TRUE
    /\ UNCHANGED <<redoStack, canRedo>>

PushHistory ==
    /\ undoStack' = Recorded(undoStack, diagram)
    /\ redoStack' = <<>>
    /\ canUndo' = TRUE
    /\ canRedo' = FALSE

ClearHistory ==
    /\ undoStack' = <<>>
    /\ redoStack' = <<>>
    /\ canUndo' = FALSE
    /\ canRedo' = FALSE

-----------------------------------------------------------------------------

(* An edit that records the diagram it starts from.  The new diagram may be *)
(* the old one: beginDragGesture records a snapshot and changes nothing.    *)
RecordedEdit ==
    /\ PushHistory
    /\ diagram' \in Diagrams

(* Two recordings in one handler, as when a drawn line also connects. *)
RecordedTwice ==
    \E between \in Diagrams :
        /\ undoStack' = Recorded(Recorded(undoStack, diagram), between)
        /\ redoStack' = <<>>
        /\ canUndo' = TRUE
        /\ canRedo' = FALSE
        /\ diagram' \in Diagrams

(* A change the history never sees. *)
SilentEdit ==
    /\ diagram' \in Diagrams
    /\ UNCHANGED stacks

(* Fault: the flag is the snapshot on top, truthy but not a Boolean. *)
UndoTruthy ==
    /\ undoStack # <<>>
    /\ redoStack' = Append(redoStack, diagram)
    /\ diagram' = Top(undoStack)
    /\ undoStack' = Popped(undoStack)
    /\ canUndo' = Top(undoStack)
    /\ canRedo' = TRUE

Undo ==
    /\ undoStack # <<>>
    /\ redoStack' = Append(redoStack, diagram)
    /\ diagram' = Top(undoStack)
    /\ undoStack' = Popped(undoStack)
    /\ canUndo' = (Len(undoStack') > 0)
    /\ canRedo' = TRUE

(* Fault: the flag is taken from the stack before it is popped. *)
RedoStaleFlag ==
    /\ redoStack # <<>>
    /\ undoStack' = Append(undoStack, diagram)
    /\ diagram' = Top(redoStack)
    /\ redoStack' = Popped(redoStack)
    /\ canUndo' = TRUE
    /\ canRedo' = (Len(redoStack) > 0)

Redo ==
    /\ redoStack # <<>>
    /\ undoStack' = Append(undoStack, diagram)
    /\ diagram' = Top(redoStack)
    /\ redoStack' = Popped(redoStack)
    /\ canUndo' = TRUE
    /\ canRedo' = (Len(redoStack') > 0)

(* Loading a diagram and starting a new one both forget the past. *)
Replace ==
    /\ ClearHistory
    /\ diagram' \in Diagrams

Next ==
    \/ RecordedEdit
    \/ RecordedTwice
    \/ SilentEdit
    \/ Undo
    \/ Redo
    \/ Replace

Spec == Init /\ [][Next]_vars

-----------------------------------------------------------------------------

TypeOK ==
    /\ diagram \in Diagrams
    /\ undoStack \in Seq(Diagrams)
    /\ redoStack \in Seq(Diagrams)
    /\ canUndo \in BOOLEAN
    /\ canRedo \in BOOLEAN

(* The buttons are enabled exactly when there is something to undo or redo, *)
(* although each of five handlers computes the two flags by hand.           *)
FlagsMatchStacks ==
    /\ canUndo <=> undoStack # <<>>
    /\ canRedo <=> redoStack # <<>>

(* Only pushHistory cuts a stack: redo appends to the undo stack without    *)
(* looking at its length.  The editor still never holds more than           *)
(* MaxHistory deep copies, because undo and redo only move them across.     *)
HistoryBounded == Len(undoStack) + Len(redoStack) <= MaxHistory

(* The timeline is the undo stack, the diagram on the canvas and the redo   *)
(* stack from its top down.                                                 *)
Timeline == INSTANCE UndoTimeline WITH
    timeline <- undoStack \o <<diagram>> \o Reverse(redoStack),
    cursor   <- Len(undoStack) + 1

(* Every step of the two stacks is a step of the timeline: undo then redo   *)
(* comes back to the same diagram, an edit discards the undone future and   *)
(* nothing but the oldest entries is lost.                                  *)
ImplementsTimeline == Timeline!Spec

=============================================================================
