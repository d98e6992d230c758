---------------------------- MODULE ResourceInit ----------------------------
(***************************************************************************)
(* Naming of new blocks.  addCanvasObject gives a block a temporary name   *)
(* and chains a request for its real name and its default configuration    *)
(* onto one promise, so that the requests are sent one after the other.    *)
(* The user edits on while a request is on the wire: renames to any name,  *)
(* copies blocks with the names they have, goes back and forth in the      *)
(* history, loads another diagram.  Nothing handles a rejection of the     *)
(* chain: one rejected request ends it.                                    *)
(***************************************************************************)
EXTENDS Naturals, Sequences, FiniteSets, SequencesExt

CONSTANTS Blocks,      \* the ids that uuid can give out (strings)
          Services,    \* service types (strings)
          Service,     \* Blocks -> Services: the service a block is placed for
          MaxIndex,    \* bound: numbers tried for a default name, one per block
          MaxHistory,  \* bound: undo snapshots kept
          Documents,   \* the diagrams that can be loaded
          Rejections   \* whether a request may reject (an answer that cannot be parsed)

VARIABLES canvas,      \* block -> [name, config], or Absent
          undo, redo,  \* snapshots of the canvas, newest last
          clipboard,   \* the blocks that were copied, as they were
          chain,       \* blocks whose initialisation is chained, oldest first
          asked,       \* the request on the wire, or Idle
          stopped,     \* the chain is rejected: nothing chained after runs
          late         \* blocks that came to their name after the request on the wire was sent

vars == <<canvas, undo, redo, clipboard, chain, asked, stopped, late>>

Absent == [name |-> <<"absent", 0>>, config |-> "unset"]
Idle == [block |-> "idle", existing |-> {}]
Temporary(b) == <<b, 0>>                    \* `${serviceType}-${id.slice(0, 8)}`
Named(s, i) == <<s, i>>                     \* f"{service.value}-{index}"
Names == {Named(s, i) : s \in Services, i \in 1..MaxIndex}
Temporaries == {Temporary(b) : b \in Blocks}
Placed == [name : Names \cup Temporaries, config : {"unset", "default", "user"}]

ASSUME ServiceAssumption == Service \in [Blocks -> Services]
ASSUME NamesAssumption == Blocks \cap (Services \cup {"idle", "absent"}) = {}
ASSUME MaxIndexAssumption == /\ IsFiniteSet(Blocks) /\ MaxIndex \in Nat
                             /\ Cardinality(Blocks) <= MaxIndex
ASSUME MaxHistoryAssumption == MaxHistory \in Nat \ {0}
ASSUME DocumentsAssumption == Documents \subseteq [Blocks -> Placed \cup {Absent}]
ASSUME FlagAssumption == Rejections \in BOOLEAN

In(c) == {b \in Blocks : c[b] # Absent}
Present == In(canvas)
NamesBut(b) == {canvas[o].name : o \in Present \ {b}}

(* Fault: the number after the count of the names in use. *)
FaultDefaultName(s, existing) == Named(s, Cardinality(existing \cap Names) + 1)

(* The first number that no existing name uses. *)
DefaultName(s, existing) ==
  Named(s, CHOOSE i \in 1..MaxIndex : /\ Named(s, i) \notin existing
                                      /\ \A j \in 1..(i-1) : Named(s, j) \in existing)

PushHistory ==
  /\ undo' = IF Len(undo) = MaxHistory THEN Append(Tail(undo), canvas) ELSE Append(undo, canvas)
  /\ redo' = <<>>

(* These blocks got their names now: the request on the wire does not know them. *)
NameNow(S) == late' = IF asked = Idle THEN late ELSE late \cup S
Renamed == {b \in Blocks : canvas'[b].name # canvas[b].name}

Init == /\ canvas = [b \in Blocks |-> Absent]
        /\ undo = <<>> /\ redo = <<>> /\ clipboard = [b \in Blocks |-> Absent]
        /\ chain = <<>> /\ asked = Idle
        /\ stopped = FALSE /\ late = {}

(* A uuid is never given out twice, nor is a name made of it. *)
Fresh(b) ==
  /\ b # asked.block /\ ~Contains(chain, b)
  /\ \A c \in {canvas, clipboard} \cup ToSet(undo) \cup ToSet(redo) \cup Documents :
       c[b] = Absent /\ \A o \in Blocks : c[o].name # Temporary(b)

(* addCanvasObject without a name (the palette). *)
AddBlock(b) ==
  /\ Fresh(b)
  /\ PushHistory
  /\ canvas' = [canvas EXCEPT ![b] = [name |-> Temporary(b), config |-> "unset"]]
  /\ chain' = Append(chain, b)
  /\ UNCHANGED <<clipboard, asked, stopped, late>>

(* Fault: a block that is gone blocks the chain. *)
FaultAskGone ==
  /\ chain # <<>> /\ asked = Idle /\ ~stopped /\ Head(chain) \in Present
  /\ asked' = [block |-> Head(chain), existing |-> NamesBut(Head(chain))]
  /\ chain' = Tail(chain)
  /\ UNCHANGED <<canvas, undo, redo, clipboard, stopped, late>>

(* Fault: the request stays chained while it is sent. *)
FaultAskAgain ==
  /\ chain # <<>> /\ asked = Idle /\ ~stopped
  /\ asked' = [block |-> Head(chain), existing |-> NamesBut(Head(chain))]
  /\ UNCHANGED <<chain, canvas, undo, redo, clipboard, stopped, late>>

(* The head of the chain runs once everything before it has: the names are *)
(* read when its turn comes.                                               *)
Ask ==
  /\ chain # <<>> /\ asked = Idle /\ ~stopped
  /\ asked' = [block |-> Head(chain), existing |-> NamesBut(Head(chain))]
  /\ chain' = Tail(chain)
  /\ UNCHANGED <<canvas, undo, redo, clipboard, stopped, late>>

(* Fault: the answer overwrites what the user typed. *)
FaultApplied(b, name) == [name |-> name, config |-> "default"]

(* The answer is dropped when the block is gone; what the user typed while *)
(* the request was on the wire is kept.                                    *)
Applied(b, name) ==
  [name |-> IF canvas[b].name = Temporary(b) THEN name ELSE canvas[b].name,
   config |-> IF canvas[b].config = "unset" THEN "default" ELSE canvas[b].config]

Answer ==
  /\ asked # Idle
  /\ LET b == asked.block IN
     canvas' = IF b \in Present
               THEN [canvas EXCEPT ![b] = Applied(b, DefaultName(Service[b], asked.existing))]
               ELSE canvas
  /\ asked' = Idle /\ late' = {}
  /\ UNCHANGED <<undo, redo, clipboard, chain, stopped>>

(* result.ok is false: a message is shown and the chain goes on. *)
Refuse == /\ asked # Idle
          /\ asked' = Idle /\ late' = {}
          /\ UNCHANGED <<canvas, undo, redo, clipboard, chain, stopped>>

(* The request rejects; `.then(f)` passes the rejection on to every later link. *)
Reject == /\ Rejections /\ asked # Idle
          /\ asked' = Idle /\ late' = {}
          /\ stopped' = TRUE
          /\ UNCHANGED <<canvas, undo, redo, clipboard, chain>>

(* The name field takes any name, one in use too. *)
Rename(b, n) ==
  /\ b \in Present /\ n \in Names /\ canvas[b].name # n
  /\ canvas' = [canvas EXCEPT ![b].name = n]
  /\ NameNow({b})
  /\ UNCHANGED <<undo, redo, clipboard, chain, asked, stopped>>

EditConfig(b) ==
  /\ b \in Present /\ canvas[b].config # "user"
  /\ canvas' = [canvas EXCEPT ![b].config = "user"]
  /\ UNCHANGED <<undo, redo, clipboard, chain, asked, stopped, late>>

RemoveBlock(b) ==
  /\ b \in Present
  /\ PushHistory
  /\ canvas' = [canvas EXCEPT ![b] = Absent]
  /\ UNCHANGED <<clipboard, chain, asked, stopped, late>>

(* The selected blocks that are still there. *)
Copy(S) ==
  /\ S # {}
  /\ clipboard' = [b \in Blocks |-> IF b \in S THEN canvas[b] ELSE Absent]
  /\ UNCHANGED <<canvas, undo, redo, chain, asked, stopped, late>>

(* Each block of `of' once more under a new id, with the name and the      *)
(* configuration it has.  No initialisation is chained.                    *)
PutCopies(of) ==
  \E new \in SUBSET {b \in Blocks : Fresh(b)} : \E from \in Bijection(new, In(of)) :
    /\ PushHistory
    /\ canvas' = [b \in Blocks |-> IF b \in new THEN of[from[b]] ELSE canvas[b]]
    /\ NameNow(new)
    /\ UNCHANGED <<clipboard, chain, asked, stopped>>

Paste == In(clipboard) # {} /\ PutCopies(clipboard)

Duplicate(S) == S # {} /\ PutCopies([b \in Blocks |-> IF b \in S THEN canvas[b] ELSE Absent])

Undo ==
  /\ undo # <<>>
  /\ canvas' = Last(undo) /\ undo' = Front(undo) /\ redo' = Append(redo, canvas)
  /\ NameNow(Renamed)
  /\ UNCHANGED <<clipboard, chain, asked, stopped>>

Redo ==
  /\ redo # <<>>
  /\ canvas' = Last(redo) /\ redo' = Front(redo) /\ undo' = Append(undo, canvas)
  /\ NameNow(Renamed)
  /\ UNCHANGED <<clipboard, chain, asked, stopped>>

(* loadDiagramState: what is chained and on the wire goes on. *)
Load ==
  /\ canvas' \in Documents
  /\ undo' = <<>> /\ redo' = <<>>
  /\ NameNow(Renamed)
  /\ UNCHANGED <<clipboard, chain, asked, stopped>>

Edit(b) == AddBlock(b) \/ EditConfig(b) \/ RemoveBlock(b) \/ \E n \in Names : Rename(b, n)

Select(S) == Copy(S) \/ Duplicate(S)

Next == \/ Ask \/ Answer \/ Refuse \/ Reject
        \/ Paste \/ Undo \/ Redo \/ Load
        \/ (\E b \in Blocks : Edit(b)) \/ (\E S \in SUBSET Blocks : Select(S))

Spec == Init /\ [][Next]_vars

(* The runtime runs the chain and every request ends; the user is free to stop. *)
FairSpec == Spec /\ WF_vars(Ask) /\ WF_vars(Answer \/ Refuse \/ Reject)
-----------------------------------------------------------------------------
(* Blocks and snapshots have their types, the history keeps its limit over *)
(* both stacks, and a block waits, is asked about, or is done: never two   *)
(* requests for one block.                                                 *)
TypeOK ==
  /\ canvas \in [Blocks -> Placed \cup {Absent}] /\ clipboard \in [Blocks -> Placed \cup {Absent}]
  /\ asked.block \in Blocks \cup {"idle"}
  /\ IsInjective(chain) /\ ~Contains(chain, asked.block)
  /\ Len(undo) + Len(redo) <= MaxHistory

(* The name an answer gives to a block is the name of no other block, but  *)
(* for those that came to theirs (typed, pasted, duplicated, undone,       *)
(* redone, loaded) while the request was on the wire.                      *)
DefaultsAreNew ==
  [][Answer => \A b \in Present : canvas'[b].name # canvas[b].name =>
       \A o \in Present \ ({b} \cup late) : canvas'[o].name # canvas'[b].name]_vars

(* What the user typed survives a late answer, for the name and for the configuration. *)
AnswerKeepsEdits ==
  [][Answer => \A b \in Present :
       /\ canvas[b].config = "user" => canvas'[b].config = "user"
       /\ canvas[b].name # Temporary(b) => canvas'[b].name = canvas[b].name]_vars

(* Every chained initialisation is asked for, unless a request has rejected. *)
ChainDrains == \A b \in Blocks : Contains(chain, b) ~> (~Contains(chain, b) \/ stopped)
=============================================================================
