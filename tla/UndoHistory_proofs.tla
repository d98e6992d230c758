------------------------- MODULE UndoHistory_proofs -------------------------
(***************************************************************************)
(* Proofs about UndoHistory, for every set of diagrams and every limit.    *)
(* The facts about the two sequence operators come first; each invariant   *)
(* then has one step per action.  The refinement of UndoTimeline is last:  *)
(* two stacks around the canvas are one timeline with a cursor.            *)
(***************************************************************************)
EXTENDS UndoHistory, SequenceTheorems, TLAPS

(* A part of a stack, from its m-th to its n-th snapshot. *)
LEMMA PartOfStack ==
    ASSUME NEW S, NEW stack \in Seq(S),
           NEW m \in Nat \ {0}, NEW n \in Nat, n <= Len(stack), m <= n + 1
    PROVE  /\ SubSeq(stack, m, n) \in Seq(S)
           /\ Len(SubSeq(stack, m, n)) = n - m + 1
<1>1. SubSeq(stack, m, n) \in Seq(S)
    OBVIOUS
<1>2. Len(SubSeq(stack, m, n)) = n - m + 1
    OBVIOUS
<1>. QED  BY <1>1, <1>2

(* What pushHistory makes of the undo stack: a stack of diagrams that is    *)
(* never empty and never longer than the limit.                             *)
LEMMA RecordedFacts ==
    ASSUME NEW S, NEW stack \in Seq(S), NEW snapshot \in S
    PROVE  /\ Recorded(stack, snapshot) \in Seq(S)
           /\ Len(Recorded(stack, snapshot)) \in 1 .. MaxHistory
<1> USE MaxHistoryAssumption
<1> DEFINE longer == Append(stack, snapshot)
<1>1. longer \in Seq(S) /\ Len(longer) = Len(stack) + 1 /\ Len(stack) \in Nat
    OBVIOUS
<1>2. CASE Len(longer) > MaxHistory
    <2> DEFINE first == Len(longer) - MaxHistory + 1
    <2>1. /\ first \in Nat \ {0} /\ Len(longer) \in Nat
          /\ first <= Len(longer) + 1 /\ Len(longer) - first + 1 = MaxHistory
        BY <1>1, <1>2
    <2>2. /\ SubSeq(longer, first, Len(longer)) \in Seq(S)
          /\ Len(SubSeq(longer, first, Len(longer))) = Len(longer) - first + 1
        <3> HIDE DEF longer, first
        <3>. QED  BY <1>1, <2>1, PartOfStack
    <2>3. Recorded(stack, snapshot) = SubSeq(longer, first, Len(longer))
        BY <1>2 DEF Recorded
    <2> HIDE DEF longer, first
    <2>. QED  BY <2>1, <2>2, <2>3
<1>3. CASE ~(Len(longer) > MaxHistory)
    <2>1. Recorded(stack, snapshot) = longer
        BY <1>3 DEF Recorded
    <2>. QED  BY <1>1, <1>3, <2>1
<1>. QED  BY <1>2, <1>3

(* What undo and redo do to the stack they take from. *)
LEMMA PoppedFacts ==
    ASSUME NEW S, NEW stack \in Seq(S), stack # <<>>
    PROVE  /\ Popped(stack) \in Seq(S)
           /\ Len(Popped(stack)) = Len(stack) - 1
           /\ Top(stack) \in S
<1> DEFINE last == Len(stack) - 1
<1>1. Len(stack) \in Nat \ {0}
    OBVIOUS
<1>2. Top(stack) \in S
    BY <1>1 DEF Top
<1>3. last \in Nat /\ last <= Len(stack) /\ 1 <= last + 1 /\ last - 1 + 1 = last
    BY <1>1
<1>4. Popped(stack) \in Seq(S) /\ Len(Popped(stack)) = last
    <2>1. Popped(stack) = SubSeq(stack, 1, last)
        BY DEF Popped
    <2> HIDE DEF last
    <2>. QED  BY <1>3, <2>1, PartOfStack
<1>. QED  BY <1>2, <1>4

-----------------------------------------------------------------------------
(* Both stacks hold diagrams and both flags are Boolean, after any edit,    *)
(* recorded, recorded twice or silent, any undo or redo and any load.       *)
THEOREM TypeCorrect == Spec => []TypeOK
<1> DEFINE Stacks == diagram \in Diagrams /\ undoStack \in Seq(Diagrams)
                        /\ redoStack \in Seq(Diagrams)
           Flags == canUndo \in BOOLEAN /\ canRedo \in BOOLEAN
<1>1. Init => TypeOK
    <2> SUFFICES ASSUME Init  PROVE Stacks /\ Flags
        BY DEF TypeOK
    <2>1. Stacks
        BY DEF Init
    <2>2. Flags
        BY Zenon DEF Init
    <2>. QED  BY <2>1, <2>2
<1>2. TypeOK /\ [Next]_vars => TypeOK'
    <2> SUFFICES ASSUME TypeOK, [Next]_vars  PROVE Stacks' /\ Flags'
        BY DEF TypeOK
    <2>0. Stacks /\ Flags
        BY DEF TypeOK
    <2>1. CASE RecordedEdit
        <3>1. Stacks'
            BY <2>0, <2>1, RecordedFacts DEF RecordedEdit, PushHistory
        <3>2. Flags'
            BY <2>1, Zenon DEF RecordedEdit, PushHistory
        <3>. QED  BY <3>1, <3>2
    <2>2. CASE RecordedTwice
        <3>1. PICK between \in Diagrams :
                /\ undoStack' = Recorded(Recorded(undoStack, diagram), between)
                /\ redoStack' = <<>> /\ canUndo' = TRUE /\ canRedo' = FALSE
                /\ diagram' \in Diagrams
            BY <2>2, Zenon DEF RecordedTwice
        <3>2. Recorded(undoStack, diagram) \in Seq(Diagrams)
            BY <2>0, RecordedFacts
        <3>3. undoStack' \in Seq(Diagrams)
            BY <3>1, <3>2, RecordedFacts
        <3>4. Stacks'
            BY <3>1, <3>3
        <3>5. Flags'
            BY <3>1, Zenon
        <3>. QED  BY <3>4, <3>5
    <2>3. CASE SilentEdit
        <3>1. Stacks'
            BY <2>0, <2>3 DEF SilentEdit, stacks
        <3>2. Flags'
            BY <2>0, <2>3, Zenon DEF SilentEdit, stacks
        <3>. QED  BY <3>1, <3>2
    <2>4. CASE Undo
        <3>1. Popped(undoStack) \in Seq(Diagrams) /\ Top(undoStack) \in Diagrams
            BY <2>0, <2>4, PoppedFacts DEF Undo
        <3>2. Stacks'
            BY <2>0, <2>4, <3>1 DEF Undo
        <3>3. Flags'
            <4>1. (Len(undoStack') > 0) \in BOOLEAN
                OBVIOUS
            <4>. QED  BY <2>4, <4>1, Zenon DEF Undo
        <3>. QED  BY <3>2, <3>3
    <2>5. CASE Redo
        <3>1. Popped(redoStack) \in Seq(Diagrams) /\ Top(redoStack) \in Diagrams
            BY <2>0, <2>5, PoppedFacts DEF Redo
        <3>2. Stacks'
            BY <2>0, <2>5, <3>1 DEF Redo
        <3>3. Flags'
            <4>1. (Len(redoStack') > 0) \in BOOLEAN
                OBVIOUS
            <4>. QED  BY <2>5, <4>1, Zenon DEF Redo
        <3>. QED  BY <3>2, <3>3
    <2>6. CASE Replace
        <3>1. Stacks'
            BY <2>6 DEF Replace, ClearHistory
        <3>2. Flags'
            BY <2>6, Zenon DEF Replace, ClearHistory
        <3>. QED  BY <3>1, <3>2
    <2>7. CASE UNCHANGED vars
        <3>1. Stacks'
            BY <2>0, <2>7 DEF vars
        <3>2. Flags'
            BY <2>0, <2>7, Zenon DEF vars
        <3>. QED  BY <3>1, <3>2
    <2>. QED
        BY <2>1, <2>2, <2>3, <2>4, <2>5, <2>6, <2>7, Zenon DEF Next
<1>. QED  BY <1>1, <1>2, PTL DEF Spec

(* The toolbar's flags say exactly whether there is something to undo or    *)
(* redo.  An edit leaves the undo stack non-empty because MaxHistory is not *)
(* zero: a cut never takes the snapshot that was just recorded.             *)
THEOREM FlagsCorrect == Spec => []FlagsMatchStacks
<1>1. Init => FlagsMatchStacks
    BY DEF Init, FlagsMatchStacks
<1>2. TypeOK /\ FlagsMatchStacks /\ [Next]_vars => FlagsMatchStacks'
    <2> SUFFICES ASSUME TypeOK, FlagsMatchStacks, [Next]_vars
                 PROVE  FlagsMatchStacks'
        OBVIOUS
    <2> USE DEF FlagsMatchStacks
    <2>1. CASE RecordedEdit
        <3>1. Len(undoStack') \in 1 .. MaxHistory
            BY <2>1, RecordedFacts DEF RecordedEdit, PushHistory, TypeOK
        <3>2. undoStack' # <<>>
            BY <3>1
        <3>. QED  BY <2>1, <3>2 DEF RecordedEdit, PushHistory
    <2>2. CASE RecordedTwice
        <3>1. PICK between \in Diagrams :
                undoStack' = Recorded(Recorded(undoStack, diagram), between)
            BY <2>2 DEF RecordedTwice
        <3>2. Len(undoStack') \in 1 .. MaxHistory
            BY <3>1, RecordedFacts DEF TypeOK
        <3>3. undoStack' # <<>>
            BY <3>2
        <3>. QED  BY <2>2, <3>3 DEF RecordedTwice
    <2>3. CASE SilentEdit
        BY <2>3 DEF SilentEdit, stacks
    <2>4. CASE Undo
        <3>1. undoStack' \in Seq(Diagrams) /\ Len(undoStack') \in Nat
            BY <2>4, PoppedFacts DEF Undo, TypeOK
        <3>2. canUndo' <=> undoStack' # <<>>
            <4>1. undoStack' # <<>> <=> Len(undoStack') > 0
                BY <3>1
            <4>2. canUndo' = (Len(undoStack') > 0)
                BY <2>4, Zenon DEF Undo
            <4>. QED  BY <4>1, <4>2, Zenon
        <3>3. redoStack' # <<>>
            BY <2>4 DEF Undo, TypeOK
        <3>. QED  BY <2>4, <3>2, <3>3 DEF Undo
    <2>5. CASE Redo
        <3>1. redoStack' \in Seq(Diagrams) /\ Len(redoStack') \in Nat
            BY <2>5, PoppedFacts DEF Redo, TypeOK
        <3>2. canRedo' <=> redoStack' # <<>>
            <4>1. redoStack' # <<>> <=> Len(redoStack') > 0
                BY <3>1
            <4>2. canRedo' = (Len(redoStack') > 0)
                BY <2>5, Zenon DEF Redo
            <4>. QED  BY <4>1, <4>2, Zenon
        <3>3. undoStack' # <<>>
            BY <2>5 DEF Redo, TypeOK
        <3>. QED  BY <2>5, <3>2, <3>3 DEF Redo
    <2>6. CASE Replace
        BY <2>6 DEF Replace, ClearHistory
    <2>7. CASE UNCHANGED vars
        BY <2>7 DEF vars
    <2>. QED
        BY <2>1, <2>2, <2>3, <2>4, <2>5, <2>6, <2>7 DEF Next
<1>. QED  BY <1>1, <1>2, TypeCorrect, PTL DEF Spec

(* The two stacks together never hold more than MaxHistory snapshots,       *)
(* although redo appends to the undo stack without looking at its length:   *)
(* a recorded edit empties the redo stack, and undo and redo move one       *)
(* snapshot each.                                                           *)
THEOREM MemoryBounded == Spec => []HistoryBounded
<1>1. Init => HistoryBounded
    BY MaxHistoryAssumption DEF Init, HistoryBounded
<1>2. TypeOK /\ HistoryBounded /\ [Next]_vars => HistoryBounded'
    <2> SUFFICES ASSUME TypeOK, HistoryBounded, [Next]_vars
                 PROVE  HistoryBounded'
        OBVIOUS
    <2> USE MaxHistoryAssumption DEF HistoryBounded
    <2>1. CASE RecordedEdit
        <3>1. Len(undoStack') \in 1 .. MaxHistory
            BY <2>1, RecordedFacts DEF RecordedEdit, PushHistory, TypeOK
        <3>2. Len(redoStack') = 0
            BY <2>1 DEF RecordedEdit, PushHistory
        <3>. QED  BY <3>1, <3>2
    <2>2. CASE RecordedTwice
        <3>1. PICK between \in Diagrams :
                undoStack' = Recorded(Recorded(undoStack, diagram), between)
            BY <2>2 DEF RecordedTwice
        <3>2. Len(undoStack') \in 1 .. MaxHistory
            BY <3>1, RecordedFacts DEF TypeOK
        <3>3. Len(redoStack') = 0
            BY <2>2 DEF RecordedTwice
        <3>. QED  BY <3>2, <3>3
    <2>3. CASE SilentEdit
        BY <2>3 DEF SilentEdit, stacks
    <2>4. CASE Undo
        <3>1. Len(undoStack') = Len(undoStack) - 1
            BY <2>4, PoppedFacts DEF Undo, TypeOK
        <3>2. Len(redoStack') = Len(redoStack) + 1
            BY <2>4 DEF Undo, TypeOK
        <3>3. Len(undoStack) \in Nat /\ Len(redoStack) \in Nat
            BY DEF TypeOK
        <3>. QED  BY <3>1, <3>2, <3>3
    <2>5. CASE Redo
        <3>1. Len(redoStack') = Len(redoStack) - 1
            BY <2>5, PoppedFacts DEF Redo, TypeOK
        <3>2. Len(undoStack') = Len(undoStack) + 1
            BY <2>5 DEF Redo, TypeOK
        <3>3. Len(undoStack) \in Nat /\ Len(redoStack) \in Nat
            BY DEF TypeOK
        <3>. QED  BY <3>1, <3>2, <3>3
    <2>6. CASE Replace
        <3>1. Len(undoStack') = 0 /\ Len(redoStack') = 0
            BY <2>6 DEF Replace, ClearHistory
        <3>. QED  BY <3>1
    <2>7. CASE UNCHANGED vars
        BY <2>7 DEF vars
    <2>. QED
        BY <2>1, <2>2, <2>3, <2>4, <2>5, <2>6, <2>7 DEF Next
<1>. QED  BY <1>1, <1>2, TypeCorrect, PTL DEF Spec
-----------------------------------------------------------------------------
(* The timeline of an undo stack, a canvas and a redo stack. *)
Line(undo, d, redo) == undo \o <<d>> \o Reverse(redo)

(* A stack turned upside down. *)
LEMMA ReverseFacts ==
    ASSUME NEW S, NEW s \in Seq(S)
    PROVE  /\ Reverse(s) \in Seq(S) /\ Len(Reverse(s)) = Len(s)
           /\ \A i \in 1 .. Len(s) : Reverse(s)[i] = s[Len(s) - i + 1]
<1>1. Len(s) \in Nat /\ \A i \in 1 .. Len(s) : Len(s) - i + 1 \in 1 .. Len(s) /\ s[Len(s) - i + 1] \in S
    OBVIOUS
<1>2. Reverse(s) \in [1 .. Len(s) -> S]
    BY <1>1 DEF Reverse
<1>. QED  BY <1>1, <1>2 DEF Reverse

(* The timeline entry by entry. *)
LEMMA LineFacts ==
    ASSUME NEW S, NEW undo \in Seq(S), NEW d \in S, NEW redo \in Seq(S)
    PROVE  /\ Line(undo, d, redo) \in Seq(S)
           /\ Len(Line(undo, d, redo)) = Len(undo) + 1 + Len(redo)
           /\ \A i \in 1 .. Len(undo) + 1 + Len(redo) :
                Line(undo, d, redo)[i] =
                    IF i <= Len(undo) THEN undo[i]
                    ELSE IF i = Len(undo) + 1 THEN d
                    ELSE redo[Len(redo) - (i - Len(undo) - 1) + 1]
<1>1. Len(undo) \in Nat /\ Len(redo) \in Nat
    OBVIOUS
<1>2. /\ undo \o <<d>> \in Seq(S) /\ Len(undo \o <<d>>) = Len(undo) + 1
      /\ \A i \in 1 .. Len(undo) + 1 :
            (undo \o <<d>>)[i] = IF i <= Len(undo) THEN undo[i] ELSE d
    <2>1. <<d>> \in Seq(S) /\ Len(<<d>>) = 1 /\ <<d>>[1] = d
        OBVIOUS
    <2>2. \A i \in 1 .. Len(undo) + 1 : ~(i <= Len(undo)) => i - Len(undo) = 1
        BY <1>1
    <2>. QED  BY <1>1, <2>1, <2>2, ConcatProperties
<1>3. /\ Reverse(redo) \in Seq(S) /\ Len(Reverse(redo)) = Len(redo)
      /\ \A i \in 1 .. Len(redo) : Reverse(redo)[i] = redo[Len(redo) - i + 1]
    BY ReverseFacts
<1> DEFINE past == undo \o <<d>>
           future == Reverse(redo)
<1>4. /\ past \o future \in Seq(S) /\ Len(past \o future) = Len(past) + Len(future)
      /\ \A i \in 1 .. Len(past) + Len(future) :
            (past \o future)[i] = IF i <= Len(past) THEN past[i] ELSE future[i - Len(past)]
    <2>1. past \in Seq(S) /\ future \in Seq(S)
        BY <1>2, <1>3
    <2> HIDE DEF past, future
    <2>. QED  BY <2>1, ConcatProperties
<1>5. Line(undo, d, redo) = past \o future
    BY DEF Line
<1>6. /\ Len(past) = Len(undo) + 1 /\ Len(future) = Len(redo)
      /\ \A i \in 1 .. Len(undo) + 1 : past[i] = IF i <= Len(undo) THEN undo[i] ELSE d
      /\ \A i \in 1 .. Len(redo) : future[i] = redo[Len(redo) - i + 1]
    BY <1>2, <1>3
<1> HIDE DEF past, future
<1>7. ASSUME NEW i \in 1 .. Len(undo) + 1 + Len(redo)
      PROVE  (past \o future)[i] =
                IF i <= Len(undo) THEN undo[i]
                ELSE IF i = Len(undo) + 1 THEN d
                ELSE redo[Len(redo) - (i - Len(undo) - 1) + 1]
    <2>1. CASE i <= Len(undo) + 1
        <3>1. (past \o future)[i] = past[i]
            BY <1>1, <1>4, <1>6, <2>1
        <3>. QED  BY <1>1, <1>6, <2>1, <3>1
    <2>2. CASE ~(i <= Len(undo) + 1)
        <3>1. (past \o future)[i] = future[i - (Len(undo) + 1)]
            BY <1>1, <1>4, <1>6, <2>2
        <3>2. i - (Len(undo) + 1) \in 1 .. Len(redo) /\ i - (Len(undo) + 1) = i - Len(undo) - 1
            BY <1>1, <2>2
        <3>3. future[i - (Len(undo) + 1)] = redo[Len(redo) - (i - (Len(undo) + 1)) + 1]
            BY <1>6, <3>2
        <3>. QED  BY <1>1, <2>2, <3>1, <3>2, <3>3
    <2>. QED  BY <2>1, <2>2
<1>. QED  BY <1>1, <1>4, <1>5, <1>6, <1>7

(* Its length alone. *)
LEMMA LineType ==
    ASSUME NEW S, NEW undo \in Seq(S), NEW d \in S, NEW redo \in Seq(S)
    PROVE  /\ Line(undo, d, redo) \in Seq(S)
           /\ Len(Line(undo, d, redo)) = Len(undo) + 1 + Len(redo)
BY LineFacts

(* One entry of the timeline. *)
LEMMA LineEntry ==
    ASSUME NEW S, NEW undo \in Seq(S), NEW d \in S, NEW redo \in Seq(S),
           NEW i \in 1 .. Len(undo) + 1 + Len(redo)
    PROVE  Line(undo, d, redo)[i] =
                IF i <= Len(undo) THEN undo[i]
                ELSE IF i = Len(undo) + 1 THEN d
                ELSE redo[Len(redo) - (i - Len(undo) - 1) + 1]
BY LineFacts

(* What pushHistory leaves of a stack: its youngest snapshots, then the new *)
(* one.                                                                     *)
LEMMA RecordedEntries ==
    ASSUME NEW S, NEW stack \in Seq(S), NEW snapshot \in S
    PROVE  /\ Recorded(stack, snapshot) \in Seq(S)
           /\ Len(Recorded(stack, snapshot)) =
                IF Len(stack) + 1 > MaxHistory THEN MaxHistory ELSE Len(stack) + 1
           /\ \A i \in 1 .. Len(Recorded(stack, snapshot)) :
                Recorded(stack, snapshot)[i] =
                    IF i = Len(Recorded(stack, snapshot)) THEN snapshot
                    ELSE stack[i + (Len(stack) + 1 - Len(Recorded(stack, snapshot)))]
<1> USE MaxHistoryAssumption
<1> DEFINE longer == Append(stack, snapshot)
<1>1. /\ longer \in Seq(S) /\ Len(longer) = Len(stack) + 1 /\ Len(stack) \in Nat
      /\ \A i \in 1 .. Len(stack) + 1 :
            longer[i] = IF i = Len(stack) + 1 THEN snapshot ELSE stack[i]
    OBVIOUS
<1>2. Recorded(stack, snapshot) \in Seq(S)
    BY RecordedFacts
<1>3. CASE Len(longer) > MaxHistory
    <2> DEFINE first == Len(longer) - MaxHistory + 1
    <2>1. Recorded(stack, snapshot) = SubSeq(longer, first, Len(longer))
        BY <1>3 DEF Recorded
    <2>2. /\ first \in Int /\ Len(longer) \in Int /\ first <= Len(longer)
          /\ Len(longer) - first + 1 = MaxHistory
          /\ \A i \in first .. Len(longer) : i \in 1 .. Len(longer)
          /\ first = Len(stack) + 2 - MaxHistory
        BY <1>1, <1>3
    <2> HIDE DEF longer, first
    <2>3. /\ Len(SubSeq(longer, first, Len(longer))) = MaxHistory
          /\ \A i \in 1 .. MaxHistory :
                SubSeq(longer, first, Len(longer))[i] = longer[first + i - 1]
        <3>1. \A i \in first .. Len(longer) : longer[i] \in S
            BY <1>1, <2>2
        <3>. QED  BY <2>2, <3>1, SubSeqProperties
    <2>4. ASSUME NEW i \in 1 .. MaxHistory
          PROVE  longer[first + i - 1] =
                    IF i = MaxHistory THEN snapshot ELSE stack[i + (Len(stack) + 1 - MaxHistory)]
        <3>1. first + i - 1 = i + (Len(stack) + 1 - MaxHistory)
            BY <1>1, <2>2
        <3>2. first + i - 1 \in 1 .. Len(stack) + 1
            BY <1>1, <1>3, <2>2
        <3>3. first + i - 1 = Len(stack) + 1 <=> i = MaxHistory
            BY <1>1, <2>2
        <3>. QED  BY <1>1, <3>1, <3>2, <3>3
    <2>. QED  BY <1>1, <1>2, <1>3, <2>1, <2>3, <2>4
<1>4. CASE ~(Len(longer) > MaxHistory)
    <2>1. Recorded(stack, snapshot) = longer
        BY <1>4 DEF Recorded
    <2> HIDE DEF longer
    <2>2. ASSUME NEW i \in 1 .. Len(stack)
          PROVE  i + (Len(stack) + 1 - (Len(stack) + 1)) = i
        BY <1>1
    <2>. QED  BY <1>1, <1>4, <2>1, <2>2
<1>. QED  BY <1>3, <1>4

(* What the timeline keeps of a longer one: its end. *)
LEMMA KeptEntries ==
    ASSUME NEW S, NEW line \in Seq(S)
    PROVE  /\ Timeline!Kept(line) \in Seq(S)
           /\ Len(Timeline!Kept(line)) =
                IF Len(line) > MaxHistory + 1 THEN MaxHistory + 1 ELSE Len(line)
           /\ \A i \in 1 .. Len(Timeline!Kept(line)) :
                Timeline!Kept(line)[i] = line[i + (Len(line) - Len(Timeline!Kept(line)))]
<1> USE MaxHistoryAssumption
<1>1. Len(line) \in Nat /\ \A i \in 1 .. Len(line) : line[i] \in S
    OBVIOUS
<1>2. CASE Len(line) > MaxHistory + 1
    <2> DEFINE first == Len(line) - MaxHistory
    <2>1. Timeline!Kept(line) = SubSeq(line, first, Len(line))
        BY <1>2 DEF Timeline!Kept
    <2>2. /\ first \in Int /\ Len(line) \in Int /\ first <= Len(line)
          /\ Len(line) - first + 1 = MaxHistory + 1
          /\ \A i \in first .. Len(line) : line[i] \in S
        BY <1>1, <1>2
    <2>3. \A i \in 1 .. MaxHistory + 1 : first + i - 1 = i + (Len(line) - (MaxHistory + 1))
        BY <1>1
    <2> HIDE DEF first
    <2>4. /\ SubSeq(line, first, Len(line)) \in Seq(S)
          /\ Len(SubSeq(line, first, Len(line))) = MaxHistory + 1
          /\ \A i \in 1 .. MaxHistory + 1 :
                SubSeq(line, first, Len(line))[i] = line[first + i - 1]
        BY <2>2, SubSeqProperties
    <2>. QED  BY <1>2, <2>1, <2>3, <2>4
<1>3. CASE ~(Len(line) > MaxHistory + 1)
    <2>1. Timeline!Kept(line) = line
        BY <1>3 DEF Timeline!Kept
    <2>2. \A i \in 1 .. Len(line) : i + (Len(line) - Len(line)) = i
        BY <1>1
    <2>. QED  BY <1>1, <1>3, <2>1, <2>2
<1>. QED  BY <1>2, <1>3

(* Up to the cursor, the timeline is the undo stack and the canvas. *)
LEMMA PastEntries ==
    ASSUME NEW S, NEW undo \in Seq(S), NEW d \in S, NEW redo \in Seq(S)
    PROVE  /\ SubSeq(Line(undo, d, redo), 1, Len(undo) + 1) \in Seq(S)
           /\ Len(SubSeq(Line(undo, d, redo), 1, Len(undo) + 1)) = Len(undo) + 1
           /\ \A i \in 1 .. Len(undo) + 1 :
                SubSeq(Line(undo, d, redo), 1, Len(undo) + 1)[i] =
                    IF i <= Len(undo) THEN undo[i] ELSE d
<1> DEFINE line == Line(undo, d, redo)
           last == Len(undo) + 1
<1>1. /\ line \in Seq(S) /\ Len(line) = Len(undo) + 1 + Len(redo)
      /\ \A i \in 1 .. Len(undo) + 1 + Len(redo) :
            i <= Len(undo) + 1 => line[i] = IF i <= Len(undo) THEN undo[i] ELSE d
    <2>1. line \in Seq(S) /\ Len(line) = Len(undo) + 1 + Len(redo)
        BY LineFacts
    <2>2. ASSUME NEW i \in 1 .. Len(undo) + 1 + Len(redo), i <= Len(undo) + 1
          PROVE  line[i] = IF i <= Len(undo) THEN undo[i] ELSE d
        <3>1. ~(i <= Len(undo)) => i = Len(undo) + 1
            BY <2>2
        <3>2. line[i] = IF i <= Len(undo) THEN undo[i] ELSE IF i = Len(undo) + 1 THEN d
                        ELSE redo[Len(redo) - (i - Len(undo) - 1) + 1]
            BY LineFacts
        <3>. QED  BY <3>1, <3>2
    <2>. QED  BY <2>1, <2>2
<1>2. /\ Len(undo) \in Nat /\ Len(redo) \in Nat /\ last \in Int /\ 1 <= last /\ last - 1 + 1 = last
      /\ \A i \in 1 .. last : i \in 1 .. Len(undo) + 1 + Len(redo) /\ i <= Len(undo) + 1 /\ 1 + i - 1 = i
    OBVIOUS
<1>3. \A i \in 1 .. last : line[i] \in S
    BY <1>1, <1>2
<1>4. /\ SubSeq(line, 1, last) \in Seq(S) /\ Len(SubSeq(line, 1, last)) = last
      /\ \A i \in 1 .. last : SubSeq(line, 1, last)[i] = line[1 + i - 1]
    <2>1. 1 \in Int
        OBVIOUS
    <2> HIDE DEF line, last
    <2>. QED  BY <1>2, <1>3, <2>1, SubSeqProperties
<1>. QED  BY <1>1, <1>2, <1>4

-----------------------------------------------------------------------------
(* One lemma for each thing a step may do to the timeline. *)

(* Recording cuts the stack where the timeline is cut. *)
LEMMA EditLine ==
    ASSUME NEW S, NEW undo \in Seq(S), NEW shown \in S, NEW redo \in Seq(S), NEW new \in S
    PROVE  Line(Recorded(undo, shown), new, <<>>) =
             Timeline!Kept(Append(SubSeq(Line(undo, shown, redo), 1, Len(undo) + 1), new))
<1> USE MaxHistoryAssumption
<1> DEFINE stack == Recorded(undo, shown)
           past == SubSeq(Line(undo, shown, redo), 1, Len(undo) + 1)
           longer == Append(past, new)
           none == <<>>
           left == Line(stack, new, none)
           right == Timeline!Kept(longer)
<1>1. /\ past \in Seq(S) /\ Len(past) = Len(undo) + 1
      /\ \A i \in 1 .. Len(undo) + 1 : past[i] = IF i <= Len(undo) THEN undo[i] ELSE shown
    BY PastEntries
<1>2. Len(undo) \in Nat /\ none \in Seq(S) /\ Len(none) = 0
    OBVIOUS
<1>3. /\ stack \in Seq(S)
      /\ Len(stack) = IF Len(undo) + 1 > MaxHistory THEN MaxHistory ELSE Len(undo) + 1
      /\ \A i \in 1 .. Len(stack) :
            stack[i] = IF i = Len(stack) THEN shown ELSE undo[i + (Len(undo) + 1 - Len(stack))]
    BY RecordedEntries
<1> HIDE DEF stack, past, none
<1>4. /\ longer \in Seq(S) /\ Len(longer) = Len(undo) + 2
      /\ \A i \in 1 .. Len(undo) + 2 : longer[i] = IF i = Len(undo) + 2 THEN new ELSE past[i]
    BY <1>1, <1>2
<1> HIDE DEF longer
<1>5. /\ right \in Seq(S)
      /\ Len(right) = IF Len(longer) > MaxHistory + 1 THEN MaxHistory + 1 ELSE Len(longer)
      /\ \A i \in 1 .. Len(right) : right[i] = longer[i + (Len(longer) - Len(right))]
    BY <1>4, KeptEntries
<1>6. /\ left \in Seq(S) /\ Len(left) = Len(stack) + 1 + Len(none)
      /\ \A i \in 1 .. Len(stack) + 1 + Len(none) :
            left[i] = IF i <= Len(stack) THEN stack[i]
                      ELSE IF i = Len(stack) + 1 THEN new
                      ELSE none[Len(none) - (i - Len(stack) - 1) + 1]
    <2>1. stack \in Seq(S) /\ none \in Seq(S)
        BY <1>2, <1>3
    <2>. QED  BY <2>1, LineFacts
<1> HIDE DEF left, right
<1>7. /\ Len(stack) \in Nat /\ Len(stack) <= Len(undo) + 1
      /\ Len(right) = Len(stack) + 1 /\ Len(left) = Len(stack) + 1
      /\ Len(longer) - Len(right) = Len(undo) + 1 - Len(stack)
    <2>1. Len(stack) \in Nat /\ Len(stack) <= Len(undo) + 1
        BY <1>2, <1>3
    <2>2. Len(right) = Len(stack) + 1
        BY <1>2, <1>3, <1>4, <1>5
    <2>3. Len(left) = Len(stack) + 1
        BY <1>2, <1>6, <2>1
    <2>. QED  BY <1>2, <1>4, <2>1, <2>2, <2>3
<1>8. ASSUME NEW i \in 1 .. Len(stack) + 1  PROVE left[i] = right[i]
    <2> DEFINE j == i + (Len(undo) + 1 - Len(stack))
    <2>1. j \in 1 .. Len(undo) + 2 /\ j = i + (Len(longer) - Len(right))
        BY <1>2, <1>7
    <2>2. right[i] = longer[j]
        BY <1>5, <1>7, <2>1
    <2>3. longer[j] = IF j = Len(undo) + 2 THEN new ELSE past[j]
        BY <1>4, <2>1
    <2>4. CASE i = Len(stack) + 1
        <3>1. left[i] = new
            BY <1>6, <1>7, <2>4
        <3>2. j = Len(undo) + 2
            BY <1>2, <1>7, <2>4
        <3>. QED  BY <2>2, <2>3, <3>1, <3>2
    <2>5. CASE i # Len(stack) + 1
        <3>1. i \in 1 .. Len(stack) /\ j \in 1 .. Len(undo) + 1
            BY <1>2, <1>7, <2>1, <2>5
        <3>2. left[i] = stack[i]
            BY <1>6, <1>7, <3>1
        <3>3. stack[i] = IF i = Len(stack) THEN shown ELSE undo[j]
            BY <1>3, <3>1
        <3>4. past[j] = IF j <= Len(undo) THEN undo[j] ELSE shown
            BY <1>1, <3>1
        <3>5. i = Len(stack) <=> ~(j <= Len(undo))
            BY <1>2, <1>7, <3>1
        <3>6. j # Len(undo) + 2
            BY <1>2, <3>1
        <3>. QED  BY <2>2, <2>3, <3>2, <3>3, <3>4, <3>5, <3>6
    <2>. QED  BY <2>4, <2>5
<1>9. left = right
    BY <1>5, <1>6, <1>7, <1>8, SeqEqual
<1>. QED  BY <1>9 DEF left, right, stack, longer, past, none

(* Cutting first does not change what is kept after one more entry. *)
LEMMA KeptTwice ==
    ASSUME NEW S, NEW line \in Seq(S), NEW new \in S
    PROVE  Timeline!Kept(Append(Timeline!Kept(line), new)) = Timeline!Kept(Append(line, new))
<1> USE MaxHistoryAssumption
<1> DEFINE cut == Timeline!Kept(line)
           short == Append(cut, new)
           long == Append(line, new)
           left == Timeline!Kept(short)
           right == Timeline!Kept(long)
<1>1. /\ cut \in Seq(S)
      /\ Len(cut) = IF Len(line) > MaxHistory + 1 THEN MaxHistory + 1 ELSE Len(line)
      /\ \A i \in 1 .. Len(cut) : cut[i] = line[i + (Len(line) - Len(cut))]
    BY KeptEntries
<1>2. Len(line) \in Nat
    OBVIOUS
<1> HIDE DEF cut
<1>3. Len(cut) \in Nat /\ Len(cut) <= Len(line)
    BY <1>1, <1>2
<1>4. /\ short \in Seq(S) /\ Len(short) = Len(cut) + 1
      /\ \A i \in 1 .. Len(cut) + 1 : short[i] = IF i = Len(cut) + 1 THEN new ELSE cut[i]
    BY <1>1
<1>5. /\ long \in Seq(S) /\ Len(long) = Len(line) + 1
      /\ \A i \in 1 .. Len(line) + 1 : long[i] = IF i = Len(line) + 1 THEN new ELSE line[i]
    OBVIOUS
<1> HIDE DEF short, long
<1>6. /\ left \in Seq(S)
      /\ Len(left) = IF Len(short) > MaxHistory + 1 THEN MaxHistory + 1 ELSE Len(short)
      /\ \A i \in 1 .. Len(left) : left[i] = short[i + (Len(short) - Len(left))]
    BY <1>4, KeptEntries
<1>7. /\ right \in Seq(S)
      /\ Len(right) = IF Len(long) > MaxHistory + 1 THEN MaxHistory + 1 ELSE Len(long)
      /\ \A i \in 1 .. Len(right) : right[i] = long[i + (Len(long) - Len(right))]
    BY <1>5, KeptEntries
<1> HIDE DEF left, right
<1>8. Len(left) \in Nat /\ Len(left) = Len(right) /\ Len(left) <= Len(cut) + 1
    <2>1. CASE Len(line) > MaxHistory
        <3>1. Len(right) = MaxHistory + 1
            BY <1>2, <1>5, <1>7, <2>1
        <3>2. Len(left) = MaxHistory + 1 /\ MaxHistory <= Len(cut)
            BY <1>1, <1>2, <1>4, <1>6, <2>1
        <3>. QED  BY <1>3, <3>1, <3>2
    <2>2. CASE ~(Len(line) > MaxHistory)
        <3>1. Len(right) = Len(line) + 1
            BY <1>2, <1>5, <1>7, <2>2
        <3>2. Len(left) = Len(line) + 1 /\ Len(cut) = Len(line)
            BY <1>1, <1>2, <1>4, <1>6, <2>2
        <3>. QED  BY <1>2, <3>1, <3>2
    <2>. QED  BY <2>1, <2>2
<1>9. ASSUME NEW i \in 1 .. Len(left)  PROVE left[i] = right[i]
    <2> DEFINE j == i + (Len(cut) + 1 - Len(left))
               k == i + (Len(line) + 1 - Len(left))
    <2>1. j \in 1 .. Len(cut) + 1 /\ k \in 1 .. Len(line) + 1
        BY <1>2, <1>3, <1>8
    <2>2. left[i] = short[j]
        <3>1. left[i] = short[i + (Len(short) - Len(left))]
            BY <1>6
        <3>2. i + (Len(short) - Len(left)) = j
            BY <1>3, <1>4, <1>8
        <3>. QED  BY <3>1, <3>2
    <2>3. right[i] = long[k]
        <3>1. right[i] = long[i + (Len(long) - Len(right))]
            BY <1>7, <1>8
        <3>2. i + (Len(long) - Len(right)) = k
            BY <1>2, <1>5, <1>8
        <3>. QED  BY <3>1, <3>2
    <2>4. j = Len(cut) + 1 <=> k = Len(line) + 1
        BY <1>2, <1>3, <1>8
    <2>5. CASE j = Len(cut) + 1
        BY <1>4, <1>5, <2>1, <2>2, <2>3, <2>4, <2>5
    <2>6. CASE j # Len(cut) + 1
        <3>1. j \in 1 .. Len(cut) /\ j + (Len(line) - Len(cut)) = k
            BY <1>2, <1>3, <1>8, <2>1, <2>6
        <3>2. cut[j] = line[k]
            BY <1>1, <3>1
        <3> HIDE DEF j, k
        <3>. QED  BY <1>4, <1>5, <2>1, <2>2, <2>3, <2>4, <2>6, <3>2
    <2>. QED  BY <2>5, <2>6
<1>10. left = right
    BY <1>6, <1>7, <1>8, <1>9, SeqEqual
<1>. QED  BY <1>10 DEF left, right, short, long, cut

(* An entry goes from one stack to the other; the timeline stays. *)
LEMMA StepLine ==
    ASSUME NEW S, NEW undo \in Seq(S), undo # <<>>, NEW shown \in S, NEW redo \in Seq(S)
    PROVE  Line(Popped(undo), Top(undo), Append(redo, shown)) = Line(undo, shown, redo)
<1> DEFINE less == Popped(undo)
           top == Top(undo)
           more == Append(redo, shown)
           left == Line(less, top, more)
           right == Line(undo, shown, redo)
<1>1. Len(undo) \in Nat \ {0} /\ Len(redo) \in Nat
    OBVIOUS
<1>2. /\ more \in Seq(S) /\ Len(more) = Len(redo) + 1
      /\ \A i \in 1 .. Len(redo) + 1 : more[i] = IF i = Len(redo) + 1 THEN shown ELSE redo[i]
    OBVIOUS
<1>3. less \in Seq(S) /\ Len(less) = Len(undo) - 1 /\ top \in S /\ top = undo[Len(undo)]
    BY PoppedFacts DEF Top
<1>4. ASSUME NEW i \in 1 .. Len(undo) - 1  PROVE less[i] = undo[i]
    BY <1>1 DEF Popped
<1> HIDE DEF less, top, more
<1>5. /\ left \in Seq(S) /\ Len(left) = Len(less) + 1 + Len(more)
      /\ \A i \in 1 .. Len(less) + 1 + Len(more) :
            left[i] = IF i <= Len(less) THEN less[i]
                      ELSE IF i = Len(less) + 1 THEN top
                      ELSE more[Len(more) - (i - Len(less) - 1) + 1]
    <2>1. less \in Seq(S) /\ top \in S /\ more \in Seq(S)
        BY <1>2, <1>3
    <2>. QED  BY <2>1, LineFacts
<1>6. /\ right \in Seq(S) /\ Len(right) = Len(undo) + 1 + Len(redo)
      /\ \A i \in 1 .. Len(undo) + 1 + Len(redo) :
            right[i] = IF i <= Len(undo) THEN undo[i]
                       ELSE IF i = Len(undo) + 1 THEN shown
                       ELSE redo[Len(redo) - (i - Len(undo) - 1) + 1]
    BY LineFacts
<1> HIDE DEF left, right
<1>7. Len(left) = Len(right) /\ Len(right) \in Nat
    BY <1>1, <1>2, <1>3, <1>5, <1>6
<1>8. ASSUME NEW i \in 1 .. Len(left)  PROVE left[i] = right[i]
    <2>1. i \in 1 .. Len(less) + 1 + Len(more) /\ i \in 1 .. Len(undo) + 1 + Len(redo)
        BY <1>5, <1>6, <1>7
    <2>2. CASE i <= Len(undo) - 1
        <3>1. i \in 1 .. Len(undo) - 1 /\ i <= Len(less) /\ i <= Len(undo)
            BY <1>1, <1>3, <2>1, <2>2
        <3>2. left[i] = less[i] /\ right[i] = undo[i]
            BY <1>5, <1>6, <2>1, <3>1
        <3>. QED  BY <1>4, <3>1, <3>2
    <2>3. CASE i = Len(undo)
        BY <1>1, <1>3, <1>5, <1>6, <2>1, <2>3
    <2>4. CASE i > Len(undo)
        <3> DEFINE j == Len(more) - (i - Len(less) - 1) + 1
        <3>1. /\ j \in 1 .. Len(redo) + 1 /\ (j = Len(redo) + 1 <=> i = Len(undo) + 1)
              /\ j = Len(redo) - (i - Len(undo) - 1) + 1
            <4>1. Len(more) = Len(redo) + 1 /\ Len(less) = Len(undo) - 1
                BY <1>2, <1>3
            <4>2. j = Len(redo) + 1 - (i - Len(undo)) + 1
                BY <1>1, <4>1
            <4>3. i \in Len(undo) + 1 .. Len(undo) + 1 + Len(redo)
                BY <1>1, <2>1, <2>4
            <4> HIDE DEF j
            <4>. QED  BY <1>1, <4>2, <4>3
        <3>2. left[i] = more[j]
            BY <1>1, <1>3, <1>5, <2>1, <2>4
        <3>3. right[i] = IF i = Len(undo) + 1 THEN shown ELSE redo[j]
            BY <1>1, <1>6, <2>1, <2>4, <3>1
        <3> HIDE DEF j
        <3>. QED  BY <1>2, <3>1, <3>2, <3>3
    <2>. QED  BY <1>1, <1>6, <1>7, <2>2, <2>3, <2>4
<1>9. left = right
    BY <1>5, <1>6, <1>7, <1>8, SeqEqual
<1>. QED  BY <1>9 DEF left, right, less, top, more

-----------------------------------------------------------------------------

(* The refinement mapping in the terms of the lemmas. *)
entries == Line(undoStack, diagram, redoStack)

(* The cursor of a well-typed history stands on the diagram that is shown. *)
LEMMA Cursor ==
    ASSUME TypeOK
    PROVE  /\ entries \in Seq(Diagrams) /\ Len(entries) = Len(undoStack) + 1 + Len(redoStack)
           /\ Len(undoStack) \in Nat /\ Len(redoStack) \in Nat
           /\ entries[Len(undoStack) + 1] = diagram
<1>1. undoStack \in Seq(Diagrams) /\ redoStack \in Seq(Diagrams) /\ diagram \in Diagrams
    BY DEF TypeOK
<1>2. Len(undoStack) \in Nat /\ Len(redoStack) \in Nat
    BY <1>1
<1>3. entries \in Seq(Diagrams) /\ Len(entries) = Len(undoStack) + 1 + Len(redoStack)
    BY <1>1, LineType DEF entries
<1>4. Len(undoStack) + 1 \in 1 .. Len(undoStack) + 1 + Len(redoStack)
      /\ ~(Len(undoStack) + 1 <= Len(undoStack))
    BY <1>2
<1>5. entries[Len(undoStack) + 1] = diagram
    <2> DEFINE i == Len(undoStack) + 1
    <2>1. i \in 1 .. Len(undoStack) + 1 + Len(redoStack) /\ ~(i <= Len(undoStack))
        BY <1>4
    <2> HIDE DEF i
    <2>2. Line(undoStack, diagram, redoStack)[i] =
                IF i <= Len(undoStack) THEN undoStack[i]
                ELSE IF i = Len(undoStack) + 1 THEN diagram
                ELSE redoStack[Len(redoStack) - (i - Len(undoStack) - 1) + 1]
        BY <1>1, <2>1, LineEntry
    <2>. QED  BY <2>1, <2>2 DEF entries, i
<1>. QED  BY <1>2, <1>3, <1>5

(* An edit, recorded once, adds one entry and cuts the future off. *)
LEMMA EditStep ==
    ASSUME TypeOK, RecordedEdit
    PROVE  Timeline!Edit
<1>1. /\ undoStack' = Recorded(undoStack, diagram) /\ redoStack' = <<>>
      /\ diagram' \in Diagrams
    BY DEF RecordedEdit, PushHistory
<1>2. entries' = Timeline!Kept(Append(SubSeq(entries, 1, Len(undoStack) + 1), diagram'))
    BY <1>1, EditLine DEF TypeOK, entries
<1>3. Len(undoStack') + 1 = Len(entries')
    <2>1. undoStack' \in Seq(Diagrams) /\ redoStack' \in Seq(Diagrams)
        BY <1>1, RecordedFacts DEF TypeOK
    <2>2. Len(entries') = Len(undoStack') + 1 + Len(redoStack')
        BY <1>1, <2>1, LineType DEF entries
    <2>. QED  BY <1>1, <2>1, <2>2
<1>4. Timeline!Extended(Append(Timeline!Past, diagram'))
    BY <1>2, <1>3 DEF Timeline!Extended, Timeline!Past, entries, Line
<1>. QED  BY <1>1, <1>4 DEF Timeline!Edit

(* Recorded twice, it adds two. *)
LEMMA EditTwiceStep ==
    ASSUME TypeOK, RecordedTwice
    PROVE  Timeline!EditTwice
<1>1. PICK between \in Diagrams :
        /\ undoStack' = Recorded(Recorded(undoStack, diagram), between)
        /\ redoStack' = <<>> /\ diagram' \in Diagrams
    BY DEF RecordedTwice
<1> DEFINE once == Recorded(undoStack, diagram)
           past == SubSeq(entries, 1, Len(undoStack) + 1)
           middle == Line(once, between, <<>>)
<1>2. undoStack \in Seq(Diagrams) /\ redoStack \in Seq(Diagrams) /\ diagram \in Diagrams
      /\ <<>> \in Seq(Diagrams)
    BY DEF TypeOK
<1>3. once \in Seq(Diagrams) /\ Len(once) \in Nat
    BY <1>2, RecordedFacts
<1>4. past \in Seq(Diagrams)
    BY <1>2, PastEntries DEF entries
<1>5. middle = Timeline!Kept(Append(past, between))
    BY <1>2, EditLine DEF entries
<1>6. entries' = Timeline!Kept(Append(SubSeq(middle, 1, Len(once) + 1), diagram'))
    <2>1. entries' = Line(Recorded(once, between), diagram', <<>>)
        BY <1>1 DEF entries
    <2> HIDE DEF once
    <2>2. Line(Recorded(once, between), diagram', <<>>) =
            Timeline!Kept(Append(SubSeq(middle, 1, Len(once) + 1), diagram'))
        BY <1>1, <1>2, <1>3, EditLine
    <2>. QED  BY <2>1, <2>2
<1>7. SubSeq(middle, 1, Len(once) + 1) = middle
    <2>1. middle \in Seq(Diagrams) /\ Len(middle) = Len(once) + 1 + Len(<<>>)
        <3> HIDE DEF once
        <3>. QED  BY <1>1, <1>2, <1>3, LineType
    <2>2. Len(middle) = Len(once) + 1
        BY <1>3, <2>1
    <2>. QED  BY <2>1, <2>2, SubSeqFull
<1> HIDE DEF once, past, middle
<1>8. entries' = Timeline!Kept(past \o <<between, diagram'>>)
    <2>1. Append(past, between) \in Seq(Diagrams)
        BY <1>4
    <2>2. entries' = Timeline!Kept(Append(Append(past, between), diagram'))
        BY <1>1, <1>5, <1>6, <1>7, <2>1, KeptTwice
    <2>3. Append(Append(past, between), diagram') = past \o <<between, diagram'>>
        BY <1>1, <1>4
    <2>. QED  BY <2>2, <2>3
<1>9. Len(undoStack') + 1 = Len(entries')
    <2>1. undoStack' \in Seq(Diagrams)
        BY <1>1, <1>3, RecordedFacts DEF once
    <2>2. Len(entries') = Len(undoStack') + 1 + Len(redoStack')
        BY <1>1, <1>2, <2>1, LineType DEF entries
    <2>. QED  BY <1>1, <2>1, <2>2
<1>10. Timeline!Extended(Timeline!Past \o <<between, diagram'>>)
    BY <1>8, <1>9 DEF Timeline!Extended, Timeline!Past, entries, Line, past
<1>. QED  BY <1>1, <1>10 DEF Timeline!EditTwice

(* A change the history does not see amends the shown entry. *)
LEMMA AmendStep ==
    ASSUME TypeOK, SilentEdit
    PROVE  Timeline!Amend
<1>1. /\ undoStack' = undoStack /\ redoStack' = redoStack /\ diagram' \in Diagrams
      /\ undoStack \in Seq(Diagrams) /\ redoStack \in Seq(Diagrams) /\ diagram \in Diagrams
    BY DEF SilentEdit, stacks, TypeOK
<1> DEFINE amended == [entries EXCEPT ![Len(undoStack) + 1] = diagram']
<1>2. entries \in Seq(Diagrams) /\ Len(entries) = Len(undoStack) + 1 + Len(redoStack)
      /\ Len(undoStack) \in Nat /\ Len(redoStack) \in Nat
    BY Cursor
<1>3. /\ entries' \in Seq(Diagrams) /\ Len(entries') = Len(entries)
      /\ \A i \in 1 .. Len(entries) :
            entries'[i] = IF i = Len(undoStack) + 1 THEN diagram' ELSE entries[i]
    <2>1. entries' = Line(undoStack, diagram', redoStack)
        BY <1>1 DEF entries
    <2>2. /\ entries' \in Seq(Diagrams) /\ Len(entries') = Len(undoStack) + 1 + Len(redoStack)
        BY <1>1, <2>1, LineType
    <2>3. ASSUME NEW i \in 1 .. Len(undoStack) + 1 + Len(redoStack)
          PROVE  entries'[i] = IF i = Len(undoStack) + 1 THEN diagram' ELSE entries[i]
        <3>1. entries'[i] = IF i <= Len(undoStack) THEN undoStack[i]
                            ELSE IF i = Len(undoStack) + 1 THEN diagram'
                            ELSE redoStack[Len(redoStack) - (i - Len(undoStack) - 1) + 1]
            BY <1>1, <2>1, LineEntry
        <3>2. entries[i] = IF i <= Len(undoStack) THEN undoStack[i]
                           ELSE IF i = Len(undoStack) + 1 THEN diagram
                           ELSE redoStack[Len(redoStack) - (i - Len(undoStack) - 1) + 1]
            BY <1>1, LineEntry DEF entries
        <3>. QED  BY <1>2, <3>1, <3>2
    <2>. QED  BY <1>2, <2>2, <2>3
<1>4. /\ amended \in Seq(Diagrams) /\ Len(amended) = Len(entries)
      /\ \A i \in 1 .. Len(entries) :
            amended[i] = IF i = Len(undoStack) + 1 THEN diagram' ELSE entries[i]
    <2>1. Len(undoStack) + 1 \in 1 .. Len(entries)
        BY <1>2
    <2>. QED  BY <1>1, <1>2, <2>1, ExceptSeq
<1> HIDE DEF amended
<1>5. entries' = amended
    BY <1>3, <1>4, SeqEqual
<1>6. entries' = [entries EXCEPT ![Len(undoStack) + 1] = diagram']
    BY <1>5 DEF amended
<1>. QED  BY <1>1, <1>6 DEF Timeline!Amend, entries, Line

(* Undo steps back; nothing on the timeline moves. *)
LEMMA StepBackStep ==
    ASSUME TypeOK, Undo
    PROVE  Timeline!StepBack
<1>1. /\ undoStack \in Seq(Diagrams) /\ redoStack \in Seq(Diagrams) /\ diagram \in Diagrams
      /\ undoStack # <<>> /\ redoStack' = Append(redoStack, diagram)
      /\ diagram' = Top(undoStack) /\ undoStack' = Popped(undoStack)
    BY DEF TypeOK, Undo
<1>2. entries' = entries
    BY <1>1, StepLine DEF entries
<1>3. /\ Len(undoStack) \in Nat \ {0} /\ Len(undoStack') = Len(undoStack) - 1
    BY <1>1, PoppedFacts
<1>4. Len(undoStack) + 1 > 1 /\ Len(undoStack') + 1 = Len(undoStack) + 1 - 1
    BY <1>3
<1>. QED  BY <1>2, <1>4 DEF Timeline!StepBack, entries, Line

(* Redo steps forward. *)
LEMMA StepForwardStep ==
    ASSUME TypeOK, Redo
    PROVE  Timeline!StepForward
<1>1. /\ undoStack \in Seq(Diagrams) /\ redoStack \in Seq(Diagrams) /\ diagram \in Diagrams
      /\ redoStack # <<>> /\ undoStack' = Append(undoStack, diagram)
      /\ diagram' = Top(redoStack) /\ redoStack' = Popped(redoStack)
    BY DEF TypeOK, Redo
<1>2. /\ undoStack' \in Seq(Diagrams) /\ Len(undoStack') = Len(undoStack) + 1
      /\ undoStack' # <<>> /\ Top(undoStack') = diagram
    BY <1>1 DEF Top
<1>3. redoStack' \in Seq(Diagrams) /\ diagram' \in Diagrams
    BY <1>1, PoppedFacts
<1>4. Popped(undoStack') = undoStack
    <2>1. /\ Popped(undoStack') \in Seq(Diagrams)
          /\ Len(Popped(undoStack')) = Len(undoStack') - 1
        BY <1>2, PoppedFacts
    <2>2. \A i \in 1 .. Len(undoStack) : Popped(undoStack')[i] = undoStack[i]
        BY <1>1, <1>2 DEF Popped
    <2>3. Len(Popped(undoStack')) = Len(undoStack)
        BY <1>1, <1>2, <2>1
    <2>. QED  BY <1>1, <2>1, <2>2, <2>3, SeqEqual
<1>5. Append(redoStack', diagram') = redoStack
    <2>1. Append(redoStack', diagram') \in Seq(Diagrams)
        BY <1>3
    <2>2. Len(redoStack) \in Nat \ {0} /\ Len(redoStack') = Len(redoStack) - 1
        BY <1>1, PoppedFacts
    <2>3. Len(Append(redoStack', diagram')) = Len(redoStack)
        BY <1>3, <2>2
    <2>4. ASSUME NEW i \in 1 .. Len(redoStack)
          PROVE  Append(redoStack', diagram')[i] = redoStack[i]
        <3>1. CASE i = Len(redoStack)
            BY <1>1, <1>3, <2>2, <3>1 DEF Top
        <3>2. CASE i # Len(redoStack)
            <4>1. i \in 1 .. Len(redoStack) - 1
                BY <2>2, <3>2
            <4>2. redoStack'[i] = redoStack[i]
                BY <1>1, <2>2, <4>1 DEF Popped
            <4>. QED  BY <1>3, <2>2, <4>1, <4>2
        <3>. QED  BY <3>1, <3>2
    <2>. QED  BY <1>1, <2>1, <2>3, <2>4, SeqEqual
<1>6. entries' = entries
    <2>1. Line(Popped(undoStack'), Top(undoStack'), Append(redoStack', diagram')) =
            Line(undoStack', diagram', redoStack')
        BY <1>2, <1>3, StepLine
    <2>. QED  BY <1>2, <1>4, <1>5, <2>1 DEF entries
<1>7. Len(undoStack) + 1 < Len(entries)
    <2>1. Len(redoStack) > 0
        BY <1>1
    <2>. QED  BY <2>1, Cursor
<1>. QED  BY <1>2, <1>6, <1>7 DEF Timeline!StepForward, entries, Line

(* A diagram without past and future is a timeline of one entry. *)
LEMMA SingleEntry == \A d \in Diagrams : Line(<<>>, d, <<>>) = <<d>>
<1> SUFFICES ASSUME NEW d \in Diagrams  PROVE Line(<<>>, d, <<>>) = <<d>>
    OBVIOUS
<1>1. <<>> \in Seq(Diagrams) /\ <<d>> \in Seq(Diagrams)
    OBVIOUS
<1>2. Reverse(<<>>) = <<>>
    <2>1. Reverse(<<>>) \in Seq(Diagrams) /\ Len(Reverse(<<>>)) = Len(<<>>)
        BY <1>1, ReverseFacts
    <2>. QED  BY <2>1
<1>3. <<>> \o <<d>> = <<d>> /\ <<d>> \o <<>> = <<d>>
    BY <1>1, ConcatEmptySeq
<1>. QED  BY <1>2, <1>3 DEF Line

(* Undo history, with its two stacks, its limit and its edits that record   *)
(* twice or not at all, is one timeline with a cursor: no undo, redo or     *)
(* edit loses anything but the undone future and the oldest entries.        *)
THEOREM HistoryImplementsTimeline == Spec => ImplementsTimeline
<1>1. Init => Timeline!Init
    <2> SUFFICES ASSUME Init  PROVE Timeline!Init
        OBVIOUS
    <2>1. entries = <<diagram>> /\ diagram \in Diagrams
        BY SingleEntry DEF Init, entries
    <2>2. Len(undoStack) + 1 = 1
        BY DEF Init
    <2>. QED  BY <2>1, <2>2 DEF Timeline!Init, entries, Line
<1>2. TypeOK /\ [Next]_vars => [Timeline!Next]_(Timeline!vars)
    <2> SUFFICES ASSUME TypeOK, [Next]_vars  PROVE [Timeline!Next]_(Timeline!vars)
        OBVIOUS
    <2>1. CASE RecordedEdit
        BY <2>1, EditStep DEF Timeline!Next
    <2>2. CASE RecordedTwice
        BY <2>2, EditTwiceStep DEF Timeline!Next
    <2>3. CASE SilentEdit
        BY <2>3, AmendStep DEF Timeline!Next
    <2>4. CASE Undo
        BY <2>4, StepBackStep DEF Timeline!Next
    <2>5. CASE Redo
        BY <2>5, StepForwardStep DEF Timeline!Next
    <2>6. CASE Replace
        <3>1. entries' = <<diagram'>> /\ diagram' \in Diagrams
            BY <2>6, SingleEntry DEF Replace, ClearHistory, entries
        <3>2. Len(undoStack') + 1 = 1
            BY <2>6 DEF Replace, ClearHistory
        <3>3. Timeline!StartOver
            BY <3>1, <3>2 DEF Timeline!StartOver, entries, Line
        <3>. QED  BY <3>3 DEF Timeline!Next
    <2>7. CASE UNCHANGED vars
        BY <2>7 DEF vars, Timeline!vars
    <2>. QED
        BY <2>1, <2>2, <2>3, <2>4, <2>5, <2>6, <2>7, Zenon DEF Next
<1>. QED  BY <1>1, <1>2, TypeCorrect, PTL DEF Spec, ImplementsTimeline, Timeline!Spec

=============================================================================
