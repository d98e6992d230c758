------------------------- MODULE ResourceInit_proofs -------------------------
(***************************************************************************)
(* Proofs about ResourceInit, for any blocks, services, documents and      *)
(* history limit.  The argument: the names the request on the wire carries *)
(* are, but for temporary ones and those of late blocks, all the names     *)
(* there are when its answer comes.                                        *)
(***************************************************************************)
EXTENDS ResourceInit, FiniteSetTheorems, NaturalsInduction, WellFoundedInduction, TLAPS

Canvases == [Blocks -> Placed \cup {Absent}]

(* Some number is not used yet. *)
Free(s, existing) == \E i \in 1..MaxIndex : Named(s, i) \notin existing

Shown ==
  /\ canvas \in Canvases /\ clipboard \in Canvases
  /\ undo \in Seq(Canvases) /\ redo \in Seq(Canvases)
  /\ Len(undo) + Len(redo) <= MaxHistory

(* The chain, and the request it has sent. *)
Chained ==
  /\ chain \in Seq(Blocks) /\ IsInjective(chain)
  /\ asked # Idle => /\ asked.block \in Blocks /\ ~Contains(chain, asked.block)
                     /\ Free(Service[asked.block], asked.existing)

(* The request knows every name but the temporary and the late ones. *)
Known ==
  asked # Idle =>
    \A o \in Blocks \ ({asked.block} \cup late) :
      canvas[o] # Absent => canvas[o].name \in asked.existing \cup Temporaries

InitInv == Shown /\ Chained /\ Known
-----------------------------------------------------------------------------
(* One number per block is enough: the others use fewer. *)
LEMMA NumbersSuffice ==
  ASSUME NEW b \in Blocks, canvas \in Canvases, NEW s \in Services
  PROVE  Free(s, NamesBut(b))
<1> SUFFICES ASSUME \A i \in 1..MaxIndex : Named(s, i) \in NamesBut(b) PROVE FALSE
  BY DEF Free
<1> DEFINE holder == [i \in 1..MaxIndex |-> CHOOSE o \in Blocks \ {b} : canvas[o].name = Named(s, i)]
<1>1. \A i \in 1..MaxIndex : holder[i] \in Blocks \ {b} /\ canvas[holder[i]].name = Named(s, i)
  BY DEF NamesBut, Present, In
<1>2. holder \in [1..MaxIndex -> Blocks \ {b}]
  BY <1>1
<1>3. IsFiniteSet(1..MaxIndex) /\ Cardinality(1..MaxIndex) = MaxIndex
  BY MaxIndexAssumption, FS_Interval
<1>4. IsFiniteSet(Blocks \ {b}) /\ Cardinality(Blocks \ {b}) = Cardinality(Blocks) - 1
  BY MaxIndexAssumption, FS_RemoveElement
<1>5. Cardinality(Blocks) \in Nat
  BY MaxIndexAssumption, FS_CardinalityType
<1>6. Cardinality(Blocks \ {b}) < Cardinality(1..MaxIndex)
  BY <1>3, <1>4, <1>5, MaxIndexAssumption
<1> HIDE DEF holder
<1>7. \E i, j \in 1..MaxIndex : i # j /\ holder[i] = holder[j]
  BY <1>2, <1>3, <1>4, <1>6, FS_PigeonHole
<1>8. PICK i, j \in 1..MaxIndex : i # j /\ holder[i] = holder[j]
  BY <1>7
<1>9. Named(s, i) = Named(s, j)
  BY <1>1, <1>8
<1>. QED  BY <1>8, <1>9 DEF Named

(* generate_default_name finds a number that no existing name uses. *)
LEMMA DefaultNameIsNew ==
  ASSUME NEW s \in Services, NEW existing, Free(s, existing)
  PROVE  DefaultName(s, existing) \in Names \ existing
<1> DEFINE T == {i \in 1..MaxIndex : Named(s, i) \notin existing}
<1>1. T \subseteq Nat /\ T # {}
  BY DEF Free
<1>2. PICK i \in T : \A j \in T : ~(<<j, i>> \in OpToRel(<, Nat))
  BY <1>1, NatLessThanWellFounded, WFMin
<1>3. \A j \in T : ~(j < i)
  BY <1>1, <1>2 DEF OpToRel
<1>4. /\ i \in 1..MaxIndex /\ Named(s, i) \notin existing
      /\ \A j \in 1..(i-1) : Named(s, j) \in existing
  <2>1. MaxIndex \in Nat
    BY MaxIndexAssumption
  <2>. QED  BY <1>3, <2>1
<1>. QED  BY <1>4 DEF DefaultName, Names
-----------------------------------------------------------------------------
(* A canvas changed at one place is a canvas. *)
LEMMA CanvasWith ==
  ASSUME NEW c \in Canvases, NEW b \in Blocks, NEW e \in Placed \cup {Absent}
  PROVE  /\ [c EXCEPT ![b] = e] \in Canvases
         /\ [c EXCEPT ![b] = e][b] = e
         /\ \A o \in Blocks \ {b} : [c EXCEPT ![b] = e][o] = c[o]
BY DEF Canvases

(* What is absent has no name that anything can have. *)
LEMMA AbsentApart ==
  Absent.name \notin Names \cup Temporaries /\ Absent \notin Placed
<1>1. Absent.name \notin Names \cup Temporaries
  BY NamesAssumption DEF Absent, Names, Named, Temporaries, Temporary
<1>. QED  BY <1>1 DEF Absent, Placed

(* Temporary names are no default names. *)
LEMMA TemporaryApart == Names \cap Temporaries = {}
BY NamesAssumption DEF Temporaries, Temporary, Names, Named

(* A step that puts no name on a block, but temporary ones and those of    *)
(* late blocks, leaves what the request knows.                             *)
LEMMA StillKnown ==
  ASSUME Known, asked' = asked,
         asked # Idle =>
           /\ late \subseteq late'
           /\ \A o \in Blocks \ late' : canvas'[o] # Absent =>
                \/ canvas'[o].name \in Temporaries
                \/ canvas[o] # Absent /\ canvas'[o].name = canvas[o].name
  PROVE  Known'
BY DEF Known

(* An undo, a redo or a load makes every block late whose name it changes. *)
LEMMA RenamedKnown ==
  ASSUME InitInv, canvas' \in Canvases, asked' = asked, NameNow(Renamed)
  PROVE  Known'
<1> SUFFICES ASSUME asked # Idle, NEW o \in Blocks \ late', canvas'[o] # Absent
             PROVE  canvas[o] # Absent /\ canvas'[o].name = canvas[o].name
  BY StillKnown DEF InitInv, NameNow
<1>1. canvas'[o].name = canvas[o].name
  BY DEF NameNow, Renamed
<1>2. canvas'[o] \in Placed
  BY DEF Canvases
<1>3. canvas'[o].name \in Names \cup Temporaries
  BY <1>2 DEF Placed
<1>. QED  BY <1>1, <1>3, AbsentApart

(* The end of a sequence taken off, and one element put on. *)
LEMMA Popped ==
  ASSUME NEW S, NEW s \in Seq(S), s # <<>>
  PROVE  Last(s) \in S /\ Front(s) \in Seq(S) /\ Len(Front(s)) = Len(s) - 1 /\ Len(s) \in Nat \ {0}
<1>1. Len(s) \in Nat \ {0}
  OBVIOUS
<1>2. Len(s) - 1 \in 0..Len(s)
  BY <1>1
<1> PICK k \in 0..Len(s) : k = Len(s) - 1
  BY <1>2
<1>3. Front(s) = [i \in 1..k |-> s[i]]
  BY DEF Front
<1>. QED  BY <1>1, <1>3 DEF Last

(* PushHistory keeps the limit over both stacks. *)
LEMMA Pushed ==
  ASSUME Shown, PushHistory
  PROVE  /\ undo' \in Seq(Canvases) /\ redo' \in Seq(Canvases)
         /\ Len(undo') + Len(redo') <= MaxHistory
<1>1. /\ undo \in Seq(Canvases) /\ canvas \in Canvases /\ Len(undo) \in Nat /\ Len(redo) \in Nat
      /\ Len(undo) <= MaxHistory /\ MaxHistory \in Nat \ {0}
  BY MaxHistoryAssumption DEF Shown
<1>2. redo' = <<>> /\ redo' \in Seq(Canvases) /\ Len(redo') = 0
  BY DEF PushHistory
<1>3. CASE Len(undo) = MaxHistory
  <2>1. undo # <<>> /\ undo' = Append(Tail(undo), canvas)
    BY <1>1, <1>3 DEF PushHistory
  <2> DEFINE rest == Tail(undo)
  <2>2. rest \in Seq(Canvases) /\ Len(rest) = Len(undo) - 1
    BY <1>1, <2>1
  <2> HIDE DEF rest
  <2>3. undo' = Append(rest, canvas)
    BY <2>1 DEF rest
  <2>. QED  BY <1>1, <1>2, <1>3, <2>2, <2>3
<1>4. CASE Len(undo) # MaxHistory
  <2>1. undo' = Append(undo, canvas)
    BY <1>4 DEF PushHistory
  <2>. QED  BY <1>1, <1>2, <1>4, <2>1
<1>. QED  BY <1>3, <1>4
-----------------------------------------------------------------------------
(* Placing a block gives it a temporary name and chains it once. *)
LEMMA AddBlockKeeps == ASSUME InitInv, NEW b \in Blocks, AddBlock(b) PROVE InitInv'
<1> USE DEF InitInv
<1> DEFINE e == [name |-> Temporary(b), config |-> "unset"]
<1>1. /\ Fresh(b) /\ PushHistory /\ canvas' = [canvas EXCEPT ![b] = e] /\ chain' = Append(chain, b)
      /\ UNCHANGED <<clipboard, asked, stopped, late>> /\ canvas \in Canvases
  BY DEF AddBlock, Shown
<1>2. e \in Placed /\ e.name \in Temporaries
  BY DEF Placed, Temporaries
<1>3. Shown'
  BY <1>1, <1>2, Pushed, CanvasWith DEF Shown
<1>4. Chained'
  <2>1. chain \in Seq(Blocks) /\ ~Contains(chain, b) /\ b # asked.block /\ IsInjective(chain)
    BY <1>1 DEF Chained, Fresh
  <2>2. chain' \in Seq(Blocks) /\ Len(chain') = Len(chain) + 1
        /\ \A i \in 1..Len(chain') : chain'[i] = IF i <= Len(chain) THEN chain[i] ELSE b
    BY <1>1, <2>1
  <2>3. IsInjective(chain')
    BY <2>1, <2>2 DEF IsInjective, Contains
  <2>4. asked # Idle => ~Contains(chain', asked.block)
    BY <2>1, <2>2 DEF Contains, Chained
  <2>. QED  BY <1>1, <2>2, <2>3, <2>4 DEF Chained
<1>5. Known'
  <2>1. canvas'[b] = e /\ \A o \in Blocks \ {b} : canvas'[o] = canvas[o]
    BY <1>1, <1>2, CanvasWith
  <2> HIDE DEF e
  <2>. QED  BY <1>1, <1>2, <2>1, StillKnown
<1>. QED  BY <1>3, <1>4, <1>5

(* Removing a block frees its name, and leaves its request to its fate. *)
LEMMA RemoveBlockKeeps == ASSUME InitInv, NEW b \in Blocks, RemoveBlock(b) PROVE InitInv'
<1> USE DEF InitInv
<1>1. /\ PushHistory /\ canvas' = [canvas EXCEPT ![b] = Absent]
      /\ UNCHANGED <<clipboard, chain, asked, stopped, late>> /\ canvas \in Canvases
  BY DEF RemoveBlock, Shown
<1>2. Shown'
  BY <1>1, Pushed, CanvasWith DEF Shown
<1>3. Chained'
  BY <1>1 DEF Chained
<1>4. canvas'[b] = Absent /\ \A o \in Blocks \ {b} : canvas'[o] = canvas[o]
  BY <1>1, CanvasWith
<1>. QED  BY <1>1, <1>2, <1>3, <1>4, StillKnown

(* Editing a configuration leaves the names alone. *)
LEMMA EditConfigKeeps == ASSUME InitInv, NEW b \in Blocks, EditConfig(b) PROVE InitInv'
<1> USE DEF InitInv
<1>1. /\ canvas' = [canvas EXCEPT ![b].config = "user"] /\ canvas[b] # Absent
      /\ UNCHANGED <<undo, redo, clipboard, chain, asked, stopped, late>> /\ canvas \in Canvases
  BY DEF EditConfig, Shown, Present, In
<1> PICK e : e = [canvas[b] EXCEPT !.config = "user"]
  OBVIOUS
<1>2. e \in Placed /\ e.name = canvas[b].name
  BY <1>1 DEF Canvases, Placed
<1>3. canvas' = [canvas EXCEPT ![b] = e]
  BY <1>1
<1>4. canvas' \in Canvases /\ canvas'[b] = e /\ \A o \in Blocks \ {b} : canvas'[o] = canvas[o]
  <2>1. canvas \in Canvases
    BY DEF Shown
  <2>2. /\ [canvas EXCEPT ![b] = e] \in Canvases /\ [canvas EXCEPT ![b] = e][b] = e
        /\ \A o \in Blocks \ {b} : [canvas EXCEPT ![b] = e][o] = canvas[o]
    BY <1>2, <2>1, CanvasWith
  <2>. QED  BY <1>3, <2>2
<1>5. Shown' /\ Chained'
  BY <1>1, <1>4 DEF Shown, Chained
<1>. QED  BY <1>1, <1>2, <1>4, <1>5, StillKnown

(* A name typed while a request is on the wire makes its block late. *)
LEMMA RenameKeeps == ASSUME InitInv, NEW b \in Blocks, NEW n \in Names, Rename(b, n) PROVE InitInv'
<1> USE DEF InitInv
<1>1. /\ canvas' = [canvas EXCEPT ![b].name = n] /\ canvas[b] # Absent /\ NameNow({b})
      /\ UNCHANGED <<undo, redo, clipboard, chain, asked, stopped>> /\ canvas \in Canvases
  BY DEF Rename, Shown, Present, In
<1> PICK e : e = [canvas[b] EXCEPT !.name = n]
  OBVIOUS
<1>2. e \in Placed
  BY <1>1 DEF Canvases, Placed
<1>3. canvas' = [canvas EXCEPT ![b] = e]
  BY <1>1
<1>4. canvas' \in Canvases /\ \A o \in Blocks \ {b} : canvas'[o] = canvas[o]
  <2>1. canvas \in Canvases
    BY DEF Shown
  <2>2. /\ [canvas EXCEPT ![b] = e] \in Canvases /\ [canvas EXCEPT ![b] = e][b] = e
        /\ \A o \in Blocks \ {b} : [canvas EXCEPT ![b] = e][o] = canvas[o]
    BY <1>2, <2>1, CanvasWith
  <2>. QED  BY <1>3, <2>2
<1>5. Shown' /\ Chained'
  BY <1>1, <1>4 DEF Shown, Chained
<1>. QED  BY <1>1, <1>4, <1>5, StillKnown DEF NameNow

(* Copying fills the clipboard only. *)
LEMMA CopyKeeps == ASSUME InitInv, NEW S \in SUBSET Blocks, Copy(S) PROVE InitInv'
<1> USE DEF InitInv
<1>1. UNCHANGED <<canvas, undo, redo, chain, asked, stopped, late>>
  BY DEF Copy
<1>2. clipboard' \in Canvases
  BY DEF Copy, Shown, Canvases
<1>. QED  BY <1>1, <1>2 DEF Shown, Chained, Known

(* The copies come with names the request may not know, and are late. *)
LEMMA PutCopiesKeeps == ASSUME InitInv, NEW of \in Canvases, PutCopies(of) PROVE InitInv'
<1> USE DEF InitInv
<1> PICK new \in SUBSET {b \in Blocks : Fresh(b)} : \E from \in Bijection(new, In(of)) :
         /\ PushHistory
         /\ canvas' = [b \in Blocks |-> IF b \in new THEN of[from[b]] ELSE canvas[b]]
         /\ NameNow(new)
         /\ UNCHANGED <<clipboard, chain, asked, stopped>>
  BY DEF PutCopies
<1> PICK from \in Bijection(new, In(of)) :
         /\ PushHistory
         /\ canvas' = [b \in Blocks |-> IF b \in new THEN of[from[b]] ELSE canvas[b]]
         /\ NameNow(new)
         /\ UNCHANGED <<clipboard, chain, asked, stopped>>
  OBVIOUS
<1>1. from \in [new -> In(of)]
  BY DEF Bijection, Injection
<1>2. canvas' \in Canvases
  BY <1>1 DEF Shown, Canvases, In
<1>3. Shown'
  BY <1>2, Pushed DEF Shown
<1>4. Chained'
  BY DEF Chained
<1>. QED  BY <1>3, <1>4, StillKnown DEF NameNow

(* A paste and a duplicate are copies of blocks there are or were. *)
LEMMA CopiesKeep ==
  ASSUME InitInv, Paste \/ \E S \in SUBSET Blocks : Duplicate(S) PROVE InitInv'
<1>1. CASE Paste
  BY <1>1, PutCopiesKeeps DEF Paste, InitInv, Shown
<1>2. ASSUME NEW S \in SUBSET Blocks, Duplicate(S) PROVE InitInv'
  <2> DEFINE of == [b \in Blocks |-> IF b \in S THEN canvas[b] ELSE Absent]
  <2>1. of \in Canvases
    BY DEF InitInv, Shown, Canvases
  <2>2. PutCopies(of)
    BY <1>2 DEF Duplicate
  <2> HIDE DEF of
  <2>. QED  BY <2>1, <2>2, PutCopiesKeeps
<1>. QED  BY <1>1, <1>2

(* So can an undo bring names back that the request does not know. *)
LEMMA UndoKeeps == ASSUME InitInv, Undo PROVE InitInv'
<1> USE DEF InitInv
<1>1. /\ undo \in Seq(Canvases) /\ undo # <<>> /\ redo \in Seq(Canvases) /\ canvas \in Canvases
      /\ canvas' = Last(undo) /\ undo' = Front(undo) /\ redo' = Append(redo, canvas)
      /\ NameNow(Renamed) /\ UNCHANGED <<clipboard, chain, asked, stopped>>
  BY DEF Undo, Shown
<1>2. canvas' \in Canvases /\ undo' \in Seq(Canvases) /\ Len(undo') = Len(undo) - 1 /\ Len(undo) \in Nat \ {0}
  BY <1>1, Popped
<1>3. redo' \in Seq(Canvases) /\ Len(redo') = Len(redo) + 1 /\ Len(redo) \in Nat
  BY <1>1
<1>4. Shown'
  BY <1>1, <1>2, <1>3, MaxHistoryAssumption DEF Shown
<1>5. Chained'
  BY <1>1 DEF Chained
<1>. QED  BY <1>1, <1>2, <1>4, <1>5, RenamedKnown

(* And so can a redo. *)
LEMMA RedoKeeps == ASSUME InitInv, Redo PROVE InitInv'
<1> USE DEF InitInv
<1>1. /\ redo \in Seq(Canvases) /\ redo # <<>> /\ undo \in Seq(Canvases) /\ canvas \in Canvases
      /\ canvas' = Last(redo) /\ redo' = Front(redo) /\ undo' = Append(undo, canvas)
      /\ NameNow(Renamed) /\ UNCHANGED <<clipboard, chain, asked, stopped>>
  BY DEF Redo, Shown
<1>2. canvas' \in Canvases /\ redo' \in Seq(Canvases) /\ Len(redo') = Len(redo) - 1 /\ Len(redo) \in Nat \ {0}
  BY <1>1, Popped
<1>3. undo' \in Seq(Canvases) /\ Len(undo') = Len(undo) + 1 /\ Len(undo) \in Nat
  BY <1>1
<1>4. Shown'
  BY <1>1, <1>2, <1>3, MaxHistoryAssumption DEF Shown
<1>5. Chained'
  BY <1>1 DEF Chained
<1>. QED  BY <1>1, <1>2, <1>4, <1>5, RenamedKnown

(* A loaded diagram brings its own names. *)
LEMMA LoadKeeps == ASSUME InitInv, Load PROVE InitInv'
<1> USE DEF InitInv
<1>1. canvas' \in Canvases /\ undo' = <<>> /\ redo' = <<>> /\ NameNow(Renamed)
      /\ UNCHANGED <<clipboard, chain, asked, stopped>>
  BY DocumentsAssumption DEF Load, Canvases
<1>2. Shown' /\ Chained'
  BY <1>1, MaxHistoryAssumption DEF Shown, Chained
<1>. QED  BY <1>1, <1>2, RenamedKnown

(* A request that is sent knows the names of its moment. *)
LEMMA AskKeeps == ASSUME InitInv, Ask PROVE InitInv'
<1> USE DEF InitInv
<1>1. /\ chain \in Seq(Blocks) /\ chain # <<>> /\ asked = Idle /\ ~stopped /\ IsInjective(chain)
      /\ chain' = Tail(chain) /\ UNCHANGED <<canvas, undo, redo, clipboard, stopped, late>>
      /\ canvas \in Canvases
  BY DEF Ask, Chained, Shown
<1> PICK b \in Blocks : b = Head(chain)
  BY <1>1
<1>2. asked' = [block |-> b, existing |-> NamesBut(b)]
  BY DEF Ask
<1>3. asked'.block = b /\ asked'.existing = NamesBut(b)
  BY <1>2
<1>4. /\ chain' \in Seq(Blocks) /\ Len(chain') = Len(chain) - 1
      /\ \A i \in 1..Len(chain') : chain'[i] = chain[i + 1]
  BY <1>1
<1>5. IsInjective(chain') /\ ~Contains(chain', b)
  BY <1>1, <1>4 DEF IsInjective, Contains
<1>6. Free(Service[b], NamesBut(b))
  BY <1>1, NumbersSuffice, ServiceAssumption
<1>7. Chained'
  BY <1>1, <1>3, <1>4, <1>5, <1>6 DEF Chained
<1>8. Known'
  BY <1>1, <1>3 DEF Known, NamesBut, Present, In
<1>9. Shown'
  BY <1>1 DEF Shown
<1>. QED  BY <1>7, <1>8, <1>9

(* What an answer leaves on the canvas: the block that was asked for has a *)
(* name the request did not know, or keeps the one it has.                 *)
LEMMA AnswerFacts ==
  ASSUME InitInv, Answer, NEW b \in Blocks, b = asked.block, canvas[b] # Absent
  PROVE  \E e \in Placed : /\ canvas' = [canvas EXCEPT ![b] = e]
                           /\ e.name = canvas[b].name \/ e.name \in Names \ asked.existing
                           /\ canvas[b].name # Temporary(b) => e.name = canvas[b].name
                           /\ canvas[b].config = "user" => e.config = "user"
<1> PICK name : name = DefaultName(Service[b], asked.existing)
  OBVIOUS
<1>1. name \in Names \ asked.existing
  BY DefaultNameIsNew, ServiceAssumption DEF InitInv, Chained, Answer
<1>2. canvas[b] \in Placed
  BY DEF InitInv, Shown, Canvases
<1> PICK e : e = Applied(b, name)
  OBVIOUS
<1>3. e \in Placed
  BY <1>1, <1>2 DEF Applied, Placed
<1>4. /\ e.name = canvas[b].name \/ e.name = name
      /\ canvas[b].name # Temporary(b) => e.name = canvas[b].name
      /\ canvas[b].config = "user" => e.config = "user"
  BY DEF Applied
<1>5. canvas' = [canvas EXCEPT ![b] = e]
  BY DEF Answer, Present, In
<1>. QED  BY <1>1, <1>3, <1>4, <1>5

(* An answer changes one block at most. *)
LEMMA AnswerElsewhere ==
  ASSUME InitInv, Answer
  PROVE  canvas' \in Canvases /\ \A o \in Blocks \ {asked.block} : canvas'[o] = canvas[o]
<1> PICK b \in Blocks : b = asked.block
  BY DEF Answer, InitInv, Chained
<1>1. canvas \in Canvases
  BY DEF InitInv, Shown
<1>2. CASE canvas[b] = Absent
  BY <1>1, <1>2 DEF Answer, Present, In
<1>3. CASE canvas[b] # Absent
  <2>1. PICK e \in Placed : canvas' = [canvas EXCEPT ![b] = e]
    BY <1>3, AnswerFacts
  <2>2. /\ [canvas EXCEPT ![b] = e] \in Canvases
        /\ \A o \in Blocks \ {b} : [canvas EXCEPT ![b] = e][o] = canvas[o]
    BY <1>1, CanvasWith
  <2>. QED  BY <2>1, <2>2
<1>. QED  BY <1>2, <1>3

(* After an answer nothing is on the wire. *)
LEMMA AnswerKeeps == ASSUME InitInv, Answer PROVE InitInv'
<1>1. asked' = Idle /\ UNCHANGED <<undo, redo, clipboard, chain, stopped>>
  BY DEF Answer
<1>. QED  BY <1>1, AnswerElsewhere DEF InitInv, Shown, Chained, Known

(* Every reachable state satisfies the invariant. *)
LEMMA Inductive == Spec => []InitInv
<1>1. Init => InitInv
  <2> SUFFICES ASSUME Init PROVE InitInv
    OBVIOUS
  <2>1. canvas \in Canvases /\ clipboard \in Canvases
    BY DEF Init, Canvases
  <2>2. undo = <<>> /\ redo = <<>> /\ chain = <<>> /\ asked = Idle
    BY DEF Init
  <2>3. IsInjective(chain)
    BY <2>2 DEF IsInjective
  <2>4. /\ undo \in Seq(Canvases) /\ Len(undo) = 0 /\ redo \in Seq(Canvases) /\ Len(redo) = 0
        /\ chain \in Seq(Blocks) /\ MaxHistory \in Nat \ {0}
    BY <2>2, MaxHistoryAssumption
  <2>5. Shown
    BY <2>1, <2>4 DEF Shown
  <2>6. Chained /\ Known
    BY <2>2, <2>3, <2>4 DEF Chained, Known
  <2>. QED  BY <2>5, <2>6 DEF InitInv
<1>2. InitInv /\ [Next]_vars => InitInv'
  <2> SUFFICES ASSUME InitInv, [Next]_vars PROVE InitInv'
    OBVIOUS
  <2>1. CASE Refuse \/ Reject
    <3>1. asked' = Idle /\ UNCHANGED <<canvas, undo, redo, clipboard, chain>>
      BY <2>1 DEF Refuse, Reject
    <3>. QED  BY <3>1 DEF InitInv, Shown, Chained, Known
  <2>2. CASE UNCHANGED vars
    BY <2>2 DEF vars, InitInv, Shown, Chained, Known
  <2>3. ASSUME NEW b \in Blocks, Edit(b) PROVE InitInv'
    BY <2>3, AddBlockKeeps, EditConfigKeeps, RemoveBlockKeeps, RenameKeeps DEF Edit
  <2>4. ASSUME NEW S \in SUBSET Blocks, Select(S) PROVE InitInv'
    BY <2>4, CopyKeeps, CopiesKeep DEF Select
  <2>. QED  BY <2>1, <2>2, <2>3, <2>4, AskKeeps, AnswerKeeps, CopiesKeep, UndoKeeps, RedoKeeps, LoadKeeps DEF Next
<1>. QED  BY <1>1, <1>2, PTL DEF Spec
-----------------------------------------------------------------------------
(* Blocks and snapshots have their types, the history keeps its limit over *)
(* both stacks, and no block is asked about twice at a time.               *)
THEOREM ResourceTypeCorrect == Spec => []TypeOK
<1>1. InitInv => TypeOK
  <2> SUFFICES ASSUME InitInv PROVE TypeOK
    OBVIOUS
  <2>1. ~Contains(chain, asked.block) /\ asked.block \in Blocks \cup {"idle"}
    <3>1. CASE asked = Idle
      BY <3>1, NamesAssumption DEF InitInv, Chained, Idle, Contains
    <3>2. CASE asked # Idle
      BY <3>2 DEF InitInv, Chained
    <3>. QED  BY <3>1, <3>2
  <2>. QED  BY <2>1 DEF TypeOK, InitInv, Shown, Chained, Canvases
<1>. QED  BY <1>1, Inductive, PTL

(* The name an answer gives to a block is the name of no other block, but  *)
(* for those that came to theirs while the request was on the wire:        *)
(* through removal, copies, undo, redo and loading, and however many       *)
(* requests wait in the chain.                                             *)
THEOREM DefaultsNew == Spec => DefaultsAreNew
<1> DEFINE New == Answer => \A b \in Present : canvas'[b].name # canvas[b].name =>
             \A o \in Present \ ({b} \cup late) : canvas'[o].name # canvas'[b].name
<1>1. InitInv => New
  <2> SUFFICES ASSUME InitInv, Answer, NEW b \in Present, canvas'[b].name # canvas[b].name,
                      NEW o \in Present \ ({b} \cup late)
               PROVE  canvas'[o].name # canvas'[b].name
    OBVIOUS
  <2>1. /\ b \in Blocks /\ canvas[b] # Absent /\ o \in Blocks /\ canvas[o] # Absent
        /\ canvas \in Canvases /\ asked # Idle
    BY DEF Present, In, InitInv, Shown, Answer
  <2>2. b = asked.block
    BY <2>1, AnswerElsewhere
  <2>3. PICK e \in Placed : /\ canvas' = [canvas EXCEPT ![b] = e]
                            /\ e.name = canvas[b].name \/ e.name \in Names \ asked.existing
    BY <2>1, <2>2, AnswerFacts
  <2>4. canvas'[b] = e /\ canvas'[o] = canvas[o]
    BY <2>1, <2>3, CanvasWith
  <2>5. canvas[o].name \in asked.existing \cup Temporaries
    BY <2>1, <2>2 DEF InitInv, Known
  <2>. QED  BY <2>3, <2>4, <2>5, TemporaryApart
<1> HIDE DEF New
<1>2. Spec => [][New]_vars
  BY <1>1, Inductive, PTL DEF Spec
<1>. QED  BY <1>2, PTL DEF New, DefaultsAreNew

(* What the user typed survives a late answer, for the name and for the    *)
(* configuration.                                                          *)
THEOREM EditsKept == Spec => AnswerKeepsEdits
<1> DEFINE Kept == Answer => \A b \in Present :
             /\ canvas[b].config = "user" => canvas'[b].config = "user"
             /\ canvas[b].name # Temporary(b) => canvas'[b].name = canvas[b].name
<1>1. InitInv => Kept
  <2> SUFFICES ASSUME InitInv, Answer, NEW b \in Blocks, canvas[b] # Absent
               PROVE  /\ canvas[b].config = "user" => canvas'[b].config = "user"
                      /\ canvas[b].name # Temporary(b) => canvas'[b].name = canvas[b].name
    BY DEF Present, In
  <2>1. CASE b = asked.block
    <3>1. PICK e \in Placed : /\ canvas' = [canvas EXCEPT ![b] = e]
                              /\ canvas[b].name # Temporary(b) => e.name = canvas[b].name
                              /\ canvas[b].config = "user" => e.config = "user"
      BY <2>1, AnswerFacts
    <3>2. canvas'[b] = e
      BY <3>1, CanvasWith DEF InitInv, Shown
    <3>. QED  BY <3>1, <3>2
  <2>2. CASE b # asked.block
    BY <2>2, AnswerElsewhere
  <2>. QED  BY <2>1, <2>2
<1> HIDE DEF Kept
<1>2. Spec => [][Kept]_vars
  BY <1>1, Inductive, PTL DEF Spec
<1>. QED  BY <1>2, PTL DEF Kept, AnswerKeepsEdits
=============================================================================
