---------------------------- MODULE UndoTimeline ----------------------------
(***************************************************************************)
(* What undo and redo promise the user, without any stack: one timeline of *)
(* diagrams with a cursor on the one that is shown.  Undo and redo move    *)
(* the cursor and change nothing else, an edit cuts the future off and     *)
(* adds one entry, and only the oldest entries are ever forgotten.         *)
(* UndoHistory is shown to implement this.                                 *)
(***************************************************************************)
EXTENDS Integers, Sequences

CONSTANTS Diagrams, MaxHistory

VARIABLES timeline, cursor

vars == <<timeline, cursor>>

Init ==
    /\ \E d \in Diagrams : timeline = <<d>>
    /\ cursor = 1

(* The last MaxHistory + 1 entries: the shown one and MaxHistory before it. *)
Kept(line) ==
    IF Len(line) > MaxHistory + 1
        THEN SubSeq(line, Len(line) - MaxHistory, Len(line))
        ELSE line

Past == SubSeq(timeline, 1, cursor)

Extended(line) ==
    /\ timeline' = Kept(line)
    /\ cursor' = Len(timeline')

Edit == \E d \in Diagrams : Extended(Append(Past, d))

EditTwice == \E d, e \in Diagrams : Extended(Past \o <<d, e>>)

Amend == \E d \in Diagrams :
    /\ timeline' = [timeline EXCEPT ![cursor] = d]
    /\ UNCHANGED cursor

StepBack ==
    /\ cursor > 1
    /\ cursor' = cursor - 1
    /\ UNCHANGED timeline

StepForward ==
    /\ cursor < Len(timeline)
    /\ cursor' = cursor + 1
    /\ UNCHANGED timeline

StartOver == \E d \in Diagrams :
    /\ timeline' = <<d>>
    /\ cursor' = 1

Next ==
    \/ Edit
    \/ EditTwice
    \/ Amend
    \/ StepBack
    \/ StepForward
    \/ StartOver

Spec == Init /\ [][Next]_vars

=============================================================================
