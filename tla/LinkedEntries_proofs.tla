------------------------ MODULE LinkedEntries_proofs ------------------------
(***************************************************************************)
(* Proofs about LinkedEntries, for any connectors, paths, ids and bounds.  *)
(* The argument: an operation that no edit overtook carries the routes the *)
(* block still has, so what its answer says of one route is said of the    *)
(* block's own list; and the snapshots that undo can bring back were taken *)
(* of lists whose connectors led somewhere.                                *)
(***************************************************************************)
EXTENDS LinkedEntries, SequenceTheorems, TLAPS

RoutePaths == Paths \cup {""}
RouteNames == RoutePaths \cup {Gone}
Route == [id : EntryIds, path : RoutePaths, target : Range(Target) \cup {""}, methods : Methods]
Snapshot == [entries : SUBSET Route, links : [Links -> RouteNames]]

(* A check is about a connector, the others about a path, and only a removal *)
(* is about no connector.                                                    *)
Asks(do, c, p) == /\ do # "remove" => c \in Links
                  /\ do # "check" => p \in Paths
Kinds == {"check", "create", "update", "remove"}
Waiting == {o \in [do : Kinds, link : Links \cup {"any"}, path : RoutePaths, methods : Methods] :
              Asks(o.do, o.link, o.path)}
Sent == {r \in [do : Kinds, link : Links \cup {"any"}, path : RoutePaths, methods : Methods,
                entries : SUBSET Route, links : [Links -> RouteNames]] : Asks(r.do, r.link, r.path)}

LinkedTypeOK ==
  /\ entries \in SUBSET Route
  /\ links \in [Links -> RouteNames]
  /\ panel = Closed \/ \E E \in SUBSET Route : panel = <<E>>
  /\ operations \in Seq(Waiting)
  /\ request = NoOperation \/ request \in Sent
  /\ snapshots \in Seq(Snapshot)
  /\ disturbed \in BOOLEAN /\ edits \in Nat /\ loose \in BOOLEAN

(* A stack that grows or is cut at its old end keeps what its elements are. *)
LEMMA GrownStack ==
  ASSUME NEW S, NEW s \in Seq(S), NEW last \in S
  PROVE  Append(s, last) \in Seq(S) /\ Tail(Append(s, last)) \in Seq(S)
<1>1. Append(s, last) \in Seq(S) /\ Append(s, last) # <<>>
  BY AppendProperties
<1>. QED  BY <1>1, HeadTailProperties

(* What is recorded is the routes and connectors as they are. *)
LEMMA RecordKeeps ==
  ASSUME NEW S, snapshots \in Seq(S), [entries |-> entries, links |-> links] \in S, RecordEntries
  PROVE  snapshots' \in Seq(S)
BY GrownStack DEF RecordEntries

(* The newest element of a stack, and what it leaves. *)
LEMMA LastAndFront ==
  ASSUME NEW S, NEW s \in Seq(S), s # <<>>
  PROVE  Last(s) \in S /\ Front(s) \in Seq(S)
<1>1. Len(s) \in 1 .. Len(s)
  OBVIOUS
<1>. QED  BY <1>1 DEF Last, Front

(* What an operation takes with it. *)
LEMMA TakenSent ==
  ASSUME entries' \in SUBSET Route, links' \in [Links -> RouteNames], NEW op \in Waiting
  PROVE  Taken(op) \in Sent
BY DEF Taken, Sent, Waiting

(* An operation that is queued is sent at once or waits. *)
LEMMA QueueTypes ==
  ASSUME LinkedTypeOK, entries' \in SUBSET Route, links' \in [Links -> RouteNames],
         NEW op \in Waiting, Queue(op)
  PROVE  /\ operations' \in Seq(Waiting)
         /\ request' = NoOperation \/ request' \in Sent
         /\ disturbed' \in BOOLEAN
<1>1. CASE request = NoOperation
  BY <1>1, TakenSent DEF Queue, LinkedTypeOK
<1>2. CASE request # NoOperation
  BY <1>2 DEF Queue, LinkedTypeOK
<1>. QED  BY <1>1, <1>2

(* The next operation takes the diagram as the answer leaves it. *)
LEMMA NextTurnTypes ==
  ASSUME LinkedTypeOK, entries' \in SUBSET Route, links' \in [Links -> RouteNames], NextTurn
  PROVE  /\ operations' \in Seq(Waiting)
         /\ request' = NoOperation \/ request' \in Sent
         /\ disturbed' \in BOOLEAN
<1>1. CASE operations = <<>>
  BY <1>1 DEF NextTurn, LinkedTypeOK
<1>2. CASE operations # <<>>
  <2>1. Head(operations) \in Waiting /\ Tail(operations) \in Seq(Waiting)
    BY <1>2 DEF LinkedTypeOK
  <2>2. Taken(Head(operations)) \in Sent
    BY <2>1, TakenSent
  <2>. QED  BY <1>2, <2>1, <2>2 DEF NextTurn
<1>. QED  BY <1>1, <1>2

(* What the panel of the block writes back is a list of routes. *)
LEMMA SyncTypes ==
  ASSUME LinkedTypeOK, NEW copy \in SUBSET Route, SyncToCanvas(copy), edits' \in Nat
  PROVE  LinkedTypeOK'
BY DEF LinkedTypeOK, SyncToCanvas, Disturb, Doubled, Unled, Closed

(* The operations the panels ask for. *)
LEMMA OperationTypes ==
  ASSUME NEW c \in Links, NEW p \in Paths, NEW m \in Methods
  PROVE  /\ Operation("check", c, "", Plain) \in Waiting
         /\ Operation("create", c, p, m) \in Waiting
         /\ Operation("update", c, p, m) \in Waiting
<1>1. Plain \in Methods
  BY LinkedAssumption
<1>. QED  BY <1>1 DEF Operation, Waiting, Kinds, RoutePaths, Asks

(* Each edit of the user keeps the types. *)
LEMMA EditTypes ==
  ASSUME LinkedTypeOK, EditEntries, edits' = edits + 1
  PROVE  LinkedTypeOK'
<1>0. edits' \in Nat /\ [entries |-> entries, links |-> links] \in Snapshot
  BY DEF LinkedTypeOK, Snapshot
<1>1. ASSUME NEW c \in Links, AddConnector(c)  PROVE LinkedTypeOK'
  <2>1. snapshots' \in Seq(Snapshot)
    BY <1>0, <1>1, RecordKeeps DEF AddConnector, LinkedTypeOK
  <2>2. entries' \in SUBSET Route /\ links' \in [Links -> RouteNames]
    BY <1>1 DEF AddConnector, LinkedTypeOK, RouteNames, RoutePaths
  <2>3. Operation("check", c, "", Plain) \in Waiting
    BY OperationTypes, LinkedAssumption
  <2>. QED  BY <1>0, <1>1, <2>1, <2>2, <2>3, QueueTypes DEF AddConnector, LinkedTypeOK
<1>2. ASSUME NEW c \in Links, RemoveConnector(c)  PROVE LinkedTypeOK'
  <2>1. snapshots' \in Seq(Snapshot)
    BY <1>0, <1>2, RecordKeeps DEF RemoveConnector, LinkedTypeOK
  <2>. QED  BY <1>0, <1>2, <2>1 DEF RemoveConnector, LinkedTypeOK, RouteNames
<1>3. ASSUME NEW c \in Links, NEW p \in Paths, SelectPath(c, p)  PROVE LinkedTypeOK'
  <2>1. snapshots' \in Seq(Snapshot)
    BY <1>0, <1>3, RecordKeeps DEF SelectPath, LinkedTypeOK
  <2>. QED  BY <1>0, <1>3, <2>1 DEF SelectPath, Disturb, LinkedTypeOK, RouteNames, RoutePaths
<1>4. ASSUME NEW c \in Links, NEW p \in Paths, NEW m \in Methods,
             CreateLinkedEntry(c, p, m) \/ UpdateLinkedEntry(c, p, m)
      PROVE  LinkedTypeOK'
  <2>1. PICK do \in {"create", "update"} : Queue(Operation(do, c, p, m))
    BY <1>4 DEF CreateLinkedEntry, UpdateLinkedEntry
  <2>2. Operation(do, c, p, m) \in Waiting
    BY OperationTypes
  <2>3. UNCHANGED <<entries, links, panel, snapshots, loose>>
    BY <1>4 DEF CreateLinkedEntry, UpdateLinkedEntry
  <2>. QED  BY <1>0, <2>1, <2>2, <2>3, QueueTypes DEF LinkedTypeOK
<1>5. CASE OpenPanel \/ ClosePanel
  BY <1>0, <1>5 DEF OpenPanel, ClosePanel, LinkedTypeOK, Closed
<1>6. CASE AddRoute
  <2>1. PICK i \in EntryIds :
          SyncToCanvas(panel[1] \cup {[id |-> i, path |-> Root, target |-> "", methods |-> Plain]})
    BY <1>6 DEF AddRoute
  <2>. panel # Closed
    BY <1>6 DEF AddRoute
  <2>2. panel[1] \in SUBSET Route
    BY DEF LinkedTypeOK
  <2>3. [id |-> i, path |-> Root, target |-> "", methods |-> Plain] \in Route
    BY LinkedAssumption DEF Route, RoutePaths
  <2>. QED  BY <1>0, <2>1, <2>2, <2>3, SyncTypes
<1>7. ASSUME panel # Closed, NEW e \in panel[1], UpdateRoute(e)  PROVE LinkedTypeOK'
  <2>1. panel[1] \in SUBSET Route
    BY <1>7 DEF LinkedTypeOK
  <2>2. PICK f \in Route : SyncToCanvas((panel[1] \ {e}) \cup {f})
    <3>1. \A p \in Paths \cup {""} : [e EXCEPT !.path = p] \in Route
      BY <1>7, <2>1 DEF Route, RoutePaths
    <3>2. \A m \in Methods : [e EXCEPT !.methods = m] \in Route
      BY <1>7, <2>1 DEF Route, RoutePaths
    <3>. QED  BY <1>7, <3>1, <3>2 DEF UpdateRoute
  <2>. QED  BY <1>0, <2>1, <2>2, SyncTypes
<1>8. ASSUME panel # Closed, NEW e \in panel[1], RemoveRoute(e)  PROVE LinkedTypeOK'
  <2>1. panel[1] \in SUBSET Route
    BY <1>8 DEF LinkedTypeOK
  <2>2. CASE e.path = ""
    BY <1>0, <1>8, <2>1, <2>2, SyncTypes DEF RemoveRoute
  <2>3. CASE e.path # ""
    <3>1. Operation("remove", "any", e.path, Plain) \in Waiting
      BY <1>8, <2>1, <2>3, LinkedAssumption DEF Operation, Waiting, Kinds, RoutePaths, Asks, Route
    <3>. QED  BY <1>0, <1>8, <2>1, <2>3, <3>1, QueueTypes DEF RemoveRoute, LinkedTypeOK
  <2>. QED  BY <2>2, <2>3
<1>9. CASE UndoEntries
  <2>1. Last(snapshots) \in Snapshot /\ Front(snapshots) \in Seq(Snapshot)
    BY <1>9, LastAndFront DEF UndoEntries, LinkedTypeOK
  <2>. QED  BY <1>0, <1>9, <2>1 DEF UndoEntries, Disturb, LinkedTypeOK, Snapshot
<1>. QED  BY <1>1, <1>2, <1>3, <1>4, <1>5, <1>6, <1>7, <1>8, <1>9 DEF EditEntries

(* What an answer is: the request is one that was sent, and of a known kind. *)
LEMMA SentRequest ==
  ASSUME LinkedTypeOK, request # NoOperation
  PROVE  /\ request \in Sent /\ request.do \in Kinds
         /\ request.entries \in SUBSET Route /\ request.links \in [Links -> RouteNames]
         /\ Asks(request.do, request.link, request.path)
         /\ request.methods \in Methods
BY DEF LinkedTypeOK, Sent

(* What the backend makes of the routes it was sent. *)
LEMMA AnswerTypes ==
  ASSUME LinkedTypeOK, AnswerOperation, edits' = edits
  PROVE  LinkedTypeOK'
<1>0. /\ request \in Sent /\ request.do \in Kinds
      /\ request.entries \in SUBSET Route /\ request.links \in [Links -> RouteNames]
      /\ Asks(request.do, request.link, request.path)
      /\ request.methods \in Methods
  BY SentRequest DEF AnswerOperation
<1>1. entries' \in SUBSET Route /\ links' \in [Links -> RouteNames]
  <2>1. CASE request.do = "create"
    <3>1. request.link \in Links /\ request.path \in Paths
      BY <1>0, <2>1 DEF Asks
    <3>2. PICK i \in EntryIds : entries' = request.entries \cup {New(i)}
      BY <2>1 DEF AnswerOperation
    <3>3. New(i) \in Route
      BY <1>0, <3>1, LinkedAssumption DEF New, Route, RoutePaths, Range
    <3>4. links' = IF request.link \in Drawn THEN [links EXCEPT ![request.link] = request.path] ELSE links
      BY <2>1 DEF AnswerOperation
    <3>. QED  BY <1>0, <3>1, <3>2, <3>3, <3>4 DEF LinkedTypeOK, RouteNames, RoutePaths
  <2>2. CASE request.do = "update"
    <3>1. entries' = Updated(request.entries) /\ links' = links
      BY <2>2 DEF AnswerOperation
    <3>2. Updated(request.entries) \in SUBSET Route
      BY <1>0 DEF Updated, Route
    <3>. QED  BY <3>1, <3>2 DEF LinkedTypeOK
  <2>3. CASE request.do = "remove"
    <3>1. entries' = Without(request.entries)
      BY <2>3 DEF AnswerOperation
    <3>2. PICK c \in Links : links' = [d \in Links |-> Take(d, Cleared(c))]
      BY <2>3 DEF AnswerOperation, Linked
    <3>3. Cleared(c) \in [Links -> RouteNames]
      BY <1>0 DEF Cleared, RouteNames, RoutePaths
    <3>. QED  BY <1>0, <3>1, <3>2, <3>3 DEF LinkedTypeOK, Take, Without
  <2>4. CASE request.do = "check"
    BY <1>0, <2>4 DEF AnswerOperation, Take, LinkedTypeOK
  <2>. QED  BY <1>0, <2>1, <2>2, <2>3, <2>4 DEF Kinds
<1>2. snapshots' \in Seq(Snapshot)
  <2>1. [entries |-> entries, links |-> links] \in Snapshot
    BY DEF LinkedTypeOK, Snapshot
  <2>. QED  BY <2>1, RecordKeeps DEF AnswerOperation, LinkedTypeOK
<1>. QED  BY <1>1, <1>2, NextTurnTypes DEF AnswerOperation, LinkedTypeOK

(* Routes, operations, requests and snapshots are what they should be. *)
THEOREM LinkedTypeCorrect == LinkedSpec => []LinkedTypeOK
<1>1. ASSUME LinkedInit  PROVE LinkedTypeOK
  <2>1. links \in [Links -> RouteNames]
    BY <1>1 DEF LinkedInit, RouteNames
  <2>2. operations \in Seq(Waiting) /\ snapshots \in Seq(Snapshot)
    BY <1>1 DEF LinkedInit
  <2>. QED  BY <1>1, <2>1, <2>2 DEF LinkedInit, LinkedTypeOK
<1>2. ASSUME LinkedTypeOK, [LinkedNext]_linkedVars  PROVE LinkedTypeOK'
  <2>1. CASE EditEntries /\ edits' = edits + 1
    BY <1>2, <2>1, EditTypes
  <2>2. CASE AnswerOperation /\ edits' = edits
    BY <1>2, <2>2, AnswerTypes
  <2>3. CASE (RefuseOperation \/ RejectOperation) /\ edits' = edits
    <3>1. entries' \in SUBSET Route /\ links' \in [Links -> RouteNames]
      BY <1>2, <2>3 DEF RefuseOperation, RejectOperation, LinkedTypeOK, RouteNames
    <3>2. NextTurn /\ UNCHANGED <<panel, snapshots, loose>>
      BY <2>3 DEF RefuseOperation, RejectOperation
    <3>. QED  BY <1>2, <2>3, <3>1, <3>2, NextTurnTypes DEF LinkedTypeOK
  <2>4. CASE UNCHANGED linkedVars
    BY <1>2, <2>4 DEF LinkedTypeOK, linkedVars
  <2>. QED  BY <1>2, <2>1, <2>2, <2>3, <2>4 DEF LinkedNext
<1>. QED  BY <1>1, <1>2, PTL DEF LinkedSpec
-----------------------------------------------------------------------------
(* An operation that no edit overtook carries the routes of the block and    *)
(* what the connectors that are still there name; only a connector drawn     *)
(* since then is unknown to it.                                              *)
UpToDate ==
  request # NoOperation /\ ~disturbed =>
    /\ request.entries = entries
    /\ \A c \in Links : \/ links[c] \in {Gone, request.links[c]}
                        \/ request.links[c] = Gone /\ links[c] = ""

(* What an operation takes when its turn comes is up to date. *)
LEMMA TakenUpToDate ==
  ASSUME NEW op, request' = Taken(op)
  PROVE  UpToDate'
<1>1. request'.entries = entries' /\ request'.links = links'
  BY DEF Taken
<1>. QED  BY <1>1 DEF UpToDate

(* The next turn: nothing waits, or the diagram is taken now. *)
LEMMA NextTurnUpToDate ==
  ASSUME NextTurn
  PROVE  UpToDate'
<1>1. CASE operations = <<>>
  BY <1>1 DEF NextTurn, UpToDate
<1>2. CASE operations # <<>>
  BY <1>2, TakenUpToDate DEF NextTurn
<1>. QED  BY <1>1, <1>2

(* An operation that waits leaves the one on the wire as it was. *)
LEMMA QueueUpToDate ==
  ASSUME UpToDate, NEW op, Queue(op), UNCHANGED <<entries, links>>
  PROVE  UpToDate'
<1>1. CASE request = NoOperation
  BY <1>1, TakenUpToDate DEF Queue
<1>2. CASE request # NoOperation
  BY <1>2 DEF Queue, UpToDate
<1>. QED  BY <1>1, <1>2

(* Every step keeps the operation on the wire up to date, or marks it. *)
LEMMA UpToDateKept ==
  ASSUME LinkedTypeOK, UpToDate, [LinkedNext]_linkedVars
  PROVE  UpToDate'
<1>1. ASSUME NEW c \in Links, AddConnector(c)  PROVE UpToDate'
  <2>1. Queue(Operation("check", c, "", Plain))
    BY <1>1 DEF AddConnector
  <2>2. CASE request = NoOperation
    BY <2>1, <2>2, TakenUpToDate DEF Queue
  <2>3. CASE request # NoOperation
    <3>1. UNCHANGED <<request, disturbed, entries>>
      BY <1>1, <2>1, <2>3 DEF Queue, AddConnector
    <3>2. request.links[c] = Gone
      BY <1>1, <2>3 DEF AddConnector, Mentioned
    <3>3. links' = [links EXCEPT ![c] = ""]
      BY <1>1 DEF AddConnector
    <3>. QED  BY <3>1, <3>2, <3>3 DEF UpToDate, LinkedTypeOK
  <2>. QED  BY <2>2, <2>3
<1>2. ASSUME NEW c \in Links, RemoveConnector(c)  PROVE UpToDate'
  BY <1>2 DEF RemoveConnector, UpToDate, LinkedTypeOK
<1>3. ASSUME NEW c \in Links, NEW p \in Paths, SelectPath(c, p)  PROVE UpToDate'
  BY <1>3 DEF SelectPath, Disturb, UpToDate
<1>4. ASSUME NEW c \in Links, NEW p \in Paths, NEW m \in Methods,
             CreateLinkedEntry(c, p, m) \/ UpdateLinkedEntry(c, p, m)
      PROVE  UpToDate'
  BY <1>4, QueueUpToDate DEF CreateLinkedEntry, UpdateLinkedEntry
<1>5. CASE OpenPanel \/ ClosePanel
  BY <1>5 DEF OpenPanel, ClosePanel, UpToDate
<1>6. ASSUME NEW copy, SyncToCanvas(copy)  PROVE UpToDate'
  BY <1>6 DEF SyncToCanvas, Disturb, UpToDate
<1>7. ASSUME NEW e, RemoveRoute(e)  PROVE UpToDate'
  BY <1>6, <1>7, QueueUpToDate DEF RemoveRoute
<1>8. CASE UndoEntries
  BY <1>8 DEF UndoEntries, Disturb, UpToDate
<1>9. CASE AnswerOperation \/ RefuseOperation \/ RejectOperation
  BY <1>9, NextTurnUpToDate DEF AnswerOperation, RefuseOperation, RejectOperation
<1>10. CASE UNCHANGED linkedVars
  BY <1>10 DEF linkedVars, UpToDate
<1>11. AddRoute => UpToDate'
  BY <1>6 DEF AddRoute
<1>12. ASSUME NEW e, UpdateRoute(e)  PROVE UpToDate'
  BY <1>6, <1>12 DEF UpdateRoute
<1>. QED
  BY <1>1, <1>2, <1>3, <1>4, <1>5, <1>7, <1>8, <1>9, <1>10, <1>11, <1>12 DEF LinkedNext, EditEntries

(* A route that is created gets an id no route of the block has. *)
LEMMA NewRoute ==
  ASSUME NEW i, i \notin Used, request # NoOperation
  PROVE  New(i) \notin request.entries /\ New(i).path = request.path
<1>1. New(i).id = i /\ New(i).path = request.path
  BY DEF New
<1>2. i \notin Known(request.entries)
  BY DEF Used
<1>. QED  BY <1>1, <1>2 DEF Known

(* An answer that nothing overtook changes the one route it is about. *)
LEMMA AnswerChangesOne ==
  ASSUME LinkedTypeOK, UpToDate, AnswerOperation, ~disturbed
  PROVE  /\ request.do = "create" =>
              \E e \in entries' : entries' \ {e} = entries /\ e.path = request.path
         /\ request.do = "update" => entries' = Updated(entries)
         /\ request.do = "remove" => entries' = Without(entries)
         /\ request.do = "check" => entries' = entries
<1>1. request # NoOperation /\ request.entries = entries
  BY DEF UpToDate, AnswerOperation
<1>2. ASSUME request.do = "create"
      PROVE  \E e \in entries' : entries' \ {e} = entries /\ e.path = request.path
  <2>1. PICK i \in EntryIds \ Used : entries' = request.entries \cup {New(i)}
    BY <1>2 DEF AnswerOperation
  <2>2. New(i) \notin request.entries /\ New(i).path = request.path
    BY <1>1, <2>1, NewRoute
  <2>. QED  BY <1>1, <2>1, <2>2
<1>. QED  BY <1>1, <1>2 DEF AnswerOperation

(* Operations asked for in quick succession keep what the ones before them   *)
(* did, for any number of them that wait.                                    *)
THEOREM EditsSurvive == LinkedSpec => LinkedEditsSurvive
<1>1. LinkedInit => UpToDate
  BY DEF LinkedInit, UpToDate
<1>2. ASSUME LinkedTypeOK, UpToDate, [LinkedNext]_linkedVars  PROVE UpToDate'
  BY <1>2, UpToDateKept
<1>3. ASSUME LinkedTypeOK, UpToDate, AnswerOperation, ~disturbed
      PROVE  CASE request.do = "create" ->
                    \E e \in entries' : entries' \ {e} = entries /\ e.path = request.path
               [] request.do = "update" -> entries' = Updated(entries)
               [] request.do = "remove" -> entries' = Without(entries)
               [] OTHER -> entries' = entries
  <2>1. request.do \in Kinds
    BY <1>3, SentRequest DEF AnswerOperation
  <2>. QED  BY <1>3, <2>1, AnswerChangesOne DEF Kinds
<1>. QED  BY <1>1, <1>2, <1>3, LinkedTypeCorrect, PTL DEF LinkedSpec, LinkedEditsSurvive
-----------------------------------------------------------------------------
(* A path names one route, and every connector names a route to its own end. *)
Single(E) == \A e, f \in E : e.path = f.path /\ e.path # "" => e = f
Leads(E, L) == \A c \in Links : L[c] \notin {"", Gone} => Owned(E, c, L[c])
Sound(E, L) == Single(E) /\ Leads(E, L)

SoundSnapshot == {s \in Snapshot : Sound(s.entries, s.links)}

(* That holds of the block and of every snapshot undo can bring back. *)
SoundThroughout == ~loose => Sound(entries, links) /\ snapshots \in Seq(SoundSnapshot)

(* A snapshot of a sound block is sound. *)
LEMMA RecordsSound ==
  ASSUME LinkedTypeOK, Sound(entries, links), snapshots \in Seq(SoundSnapshot), RecordEntries
  PROVE  snapshots' \in Seq(SoundSnapshot)
<1>1. [entries |-> entries, links |-> links] \in SoundSnapshot
  BY DEF LinkedTypeOK, Snapshot, SoundSnapshot
<1>. QED  BY <1>1, RecordKeeps

(* Saying something else of the routes of a path leaves paths and ends. *)
LEMMA UpdatedSound ==
  ASSUME LinkedTypeOK, request # NoOperation,
         NEW E \in SUBSET Route, NEW L, Sound(E, L)
  PROVE  Sound(Updated(E), L)
<1> DEFINE u(e) == IF e.path = request.path THEN [e EXCEPT !.methods = request.methods] ELSE e
<1>1. \A e \in E : u(e).path = e.path /\ u(e).target = e.target
  BY DEF Route
<1>2. Updated(E) = {u(e) : e \in E}
  BY DEF Updated
<1>3. Single(Updated(E))
  <2>. HIDE DEF u
  <2>. SUFFICES ASSUME NEW e \in E, NEW f \in E, u(e).path = u(f).path, u(e).path # ""
                PROVE  u(e) = u(f)
    BY <1>2 DEF Single
  <2>. QED  BY <1>1 DEF Single, Sound
<1>4. Leads(Updated(E), L)
  <2>. HIDE DEF u
  <2>. QED  BY <1>1, <1>2 DEF Leads, Sound, Owned
<1>. QED  BY <1>3, <1>4 DEF Sound

(* A route of a path no other has. *)
LEMMA CreatedSound ==
  ASSUME NEW E, NEW L, Sound(E, L), NEW new, \A e \in E : e.path # new.path
  PROVE  Single(E \cup {new}) /\ Leads(E \cup {new}, L)
BY DEF Sound, Single, Leads, Owned

(* Only the connector whose route is removed named it: it leads to the same  *)
(* block, and one connector leads to each.                                   *)
LEMMA OnlyLinkNamed ==
  ASSUME NEW E, Single(E), NEW p, p # "", NEW c \in Links, NEW d \in Links,
         Owned(E, c, p), Owned(E, d, p)
  PROVE  c = d
<1>1. PICK e \in E : e.path = p /\ e.target = Target[c]
  BY DEF Owned
<1>2. PICK f \in E : f.path = p /\ f.target = Target[d]
  BY DEF Owned
<1>3. Target[c] = Target[d]
  BY <1>1, <1>2 DEF Single
<1>. QED  BY <1>3, LinkedAssumption DEF IsInjective

(* Routes of other paths stay. *)
LEMMA WithoutSound ==
  ASSUME NEW E, NEW L, Single(E), NEW M,
         \A c \in Links : M[c] \notin {"", Gone} => Owned(E, c, M[c]) /\ M[c] # request.path
  PROVE  Sound(Without(E), M)
BY DEF Sound, Single, Leads, Owned, Without

(* An answer that nothing overtook leaves the block sound. *)
LEMMA AnswerSound ==
  ASSUME LinkedTypeOK, UpToDate, AnswerOperation, ~disturbed, Sound(entries, links)
  PROVE  Sound(entries', links')
<1>1. /\ request # NoOperation /\ request.entries = entries
      /\ \A c \in Links : \/ links[c] \in {Gone, request.links[c]}
                          \/ request.links[c] = Gone /\ links[c] = ""
  BY DEF UpToDate, AnswerOperation
<1>2. /\ request.do \in Kinds /\ request.links \in [Links -> RouteNames]
      /\ Asks(request.do, request.link, request.path)
      /\ entries \in SUBSET Route /\ links \in [Links -> RouteNames]
  BY <1>1, SentRequest DEF LinkedTypeOK
<1>3. CASE request.do = "create"
  <2>1. PICK i \in EntryIds : entries' = entries \cup {New(i)}
    BY <1>1, <1>3 DEF AnswerOperation
  <2>2. request.link \in Links /\ request.path \in Paths
    BY <1>2, <1>3 DEF Asks
  <2>3. New(i).path = request.path /\ New(i).target = Target[request.link]
    BY DEF New
  <2>4. \A e \in entries : e.path # request.path
    BY <1>1, <1>3 DEF AnswerOperation, Refused, RoutesNamed
  <2>5. Single(entries') /\ Leads(entries', links)
    BY <2>1, <2>3, <2>4, CreatedSound
  <2>6. links' = IF request.link \in Drawn THEN [links EXCEPT ![request.link] = request.path] ELSE links
    BY <1>3 DEF AnswerOperation
  <2>7. Owned(entries', request.link, request.path)
    BY <2>1, <2>3 DEF Owned
  <2>8. Leads(entries', links')
    BY <1>2, <2>2, <2>5, <2>6, <2>7 DEF Leads
  <2>. QED  BY <2>5, <2>8 DEF Sound
<1>4. CASE request.do = "update"
  <2>1. entries' = Updated(entries) /\ links' = links
    BY <1>1, <1>4 DEF AnswerOperation
  <2>. QED  BY <1>1, <1>2, <2>1, UpdatedSound
<1>5. CASE request.do = "remove"
  <2>1. entries' = Without(entries)
    BY <1>1, <1>5 DEF AnswerOperation
  <2>2. PICK c \in Linked(request.path) : links' = [d \in Links |-> Take(d, Cleared(c))]
    BY <1>5 DEF AnswerOperation
  <2>3. c \in Links /\ Owned(entries, c, request.path)
    BY <1>1, <2>2 DEF Linked, RoutesNamed, Owned
  <2>4. request.path # ""
    BY <1>2, <1>5, LinkedAssumption DEF Asks
  <2>5. ASSUME NEW d \in Links, links'[d] \notin {"", Gone}
        PROVE  links[d] = links'[d] /\ links[d] # request.path
    <3>1. links'[d] = IF links[d] = Gone \/ Cleared(c)[d] = Gone THEN links[d] ELSE Cleared(c)[d]
      BY <2>2 DEF Take
    <3>2. Cleared(c)[d] = IF d = c /\ request.links[d] = request.path THEN "" ELSE request.links[d]
      BY <1>2, <2>3 DEF Cleared
    <3>3. links[d] = request.links[d]
      BY <1>1, <2>5, <3>1, <3>2 DEF Gone
    <3>4. links'[d] = Cleared(c)[d]
      BY <2>5, <3>1, <3>2, <3>3 DEF Gone
    <3>6. links[d] = links'[d] /\ ~(d = c /\ links[d] = request.path)
      BY <2>5, <3>2, <3>3, <3>4
    <3>7. links[d] # request.path
      <4>. SUFFICES ASSUME links[d] = request.path  PROVE FALSE
        OBVIOUS
      <4>1. Owned(entries, d, request.path)
        BY <2>5, <3>6 DEF Sound, Leads
      <4>. QED  BY <2>3, <2>4, <3>6, <4>1, OnlyLinkNamed DEF Sound
    <3>. QED  BY <3>6, <3>7
  <2>. QED  BY <2>1, <2>5, WithoutSound DEF Sound, Leads
<1>6. CASE request.do = "check"
  <2>1. entries' = entries /\ links' = [links EXCEPT ![request.link] = Take(request.link, request.links)]
    BY <1>6 DEF AnswerOperation
  <2>2. request.link \in Links
    BY <1>2, <1>6 DEF Asks
  <2>3. Take(request.link, request.links) = links[request.link]
    BY <1>1, <2>2 DEF Take
  <2>. QED  BY <1>2, <2>1, <2>2, <2>3
<1>. QED  BY <1>2, <1>3, <1>4, <1>5, <1>6 DEF Kinds

(* What the panel of the block writes back is sound unless it is marked. *)
LEMMA SyncSound ==
  ASSUME LinkedTypeOK, SoundThroughout, NEW copy, SyncToCanvas(copy)
  PROVE  SoundThroughout'
<1>. SUFFICES ASSUME ~loose'  PROVE Sound(copy, links) /\ snapshots \in Seq(SoundSnapshot)
  BY DEF SyncToCanvas, SoundThroughout
<1>1. ~loose /\ ~Doubled(copy) /\ ~Unled(copy)
  BY DEF SyncToCanvas
<1>2. Single(copy)
  BY <1>1 DEF Doubled, Single
<1>3. Leads(copy, links)
  BY <1>1 DEF Unled, Drawn, Leads, SoundThroughout, Sound
<1>. QED  BY <1>1, <1>2, <1>3 DEF Sound, SoundThroughout

(* Every step keeps the block and the snapshots sound, or marks why not. *)
LEMMA SoundKept ==
  ASSUME LinkedTypeOK, UpToDate, SoundThroughout, [LinkedNext]_linkedVars
  PROVE  SoundThroughout'
<1>1. ASSUME NEW c \in Links, AddConnector(c)  PROVE SoundThroughout'
  <2>. SUFFICES ASSUME ~loose'  PROVE Sound(entries', links') /\ snapshots' \in Seq(SoundSnapshot)
    BY DEF SoundThroughout
  <2>1. Sound(entries, links) /\ snapshots \in Seq(SoundSnapshot) /\ entries' = entries
    BY <1>1 DEF AddConnector, SoundThroughout
  <2>2. links' = [links EXCEPT ![c] = ""]
    BY <1>1 DEF AddConnector
  <2>3. Sound(entries', links')
    BY <2>1, <2>2 DEF Sound, Leads, LinkedTypeOK
  <2>. QED  BY <1>1, <2>1, <2>3, RecordsSound DEF AddConnector
<1>2. ASSUME NEW c \in Links, RemoveConnector(c)  PROVE SoundThroughout'
  <2>. SUFFICES ASSUME ~loose'  PROVE Sound(entries', links') /\ snapshots' \in Seq(SoundSnapshot)
    BY DEF SoundThroughout
  <2>1. Sound(entries, links) /\ snapshots \in Seq(SoundSnapshot) /\ entries' = entries
    BY <1>2 DEF RemoveConnector, SoundThroughout
  <2>2. links' = [links EXCEPT ![c] = Gone]
    BY <1>2 DEF RemoveConnector
  <2>3. Sound(entries', links')
    BY <2>1, <2>2 DEF Sound, Leads, LinkedTypeOK
  <2>. QED  BY <1>2, <2>1, <2>3, RecordsSound DEF RemoveConnector
<1>3. ASSUME NEW c \in Links, NEW p \in Paths, SelectPath(c, p)  PROVE SoundThroughout'
  <2>. SUFFICES ASSUME ~loose'  PROVE Sound(entries', links') /\ snapshots' \in Seq(SoundSnapshot)
    BY DEF SoundThroughout
  <2>1. Sound(entries, links) /\ snapshots \in Seq(SoundSnapshot) /\ entries' = entries
    BY <1>3 DEF SelectPath, SoundThroughout
  <2>2. links' = [links EXCEPT ![c] = p] /\ Owned(entries, c, p)
    BY <1>3 DEF SelectPath
  <2>3. Sound(entries', links')
    BY <2>1, <2>2 DEF Sound, Leads, LinkedTypeOK
  <2>. QED  BY <1>3, <2>1, <2>3, RecordsSound DEF SelectPath
<1>4. CASE UNCHANGED <<entries, links, snapshots, loose>>
  BY <1>4 DEF SoundThroughout
<1>5. ASSUME NEW c, NEW p, NEW m, CreateLinkedEntry(c, p, m) \/ UpdateLinkedEntry(c, p, m)
      PROVE  SoundThroughout'
  BY <1>4, <1>5 DEF CreateLinkedEntry, UpdateLinkedEntry
<1>6. CASE OpenPanel \/ ClosePanel \/ RejectOperation
  BY <1>4, <1>6 DEF OpenPanel, ClosePanel, RejectOperation
<1>7. CASE AddRoute
  BY <1>7, SyncSound DEF AddRoute
<1>8. ASSUME NEW e, UpdateRoute(e)  PROVE SoundThroughout'
  BY <1>8, SyncSound DEF UpdateRoute
<1>9. ASSUME NEW e, RemoveRoute(e)  PROVE SoundThroughout'
  BY <1>4, <1>9, SyncSound DEF RemoveRoute
<1>10. CASE UndoEntries
  <2>. SUFFICES ASSUME ~loose'  PROVE Sound(entries', links') /\ snapshots' \in Seq(SoundSnapshot)
    BY DEF SoundThroughout
  <2>1. snapshots \in Seq(SoundSnapshot) /\ snapshots # <<>>
    BY <1>10 DEF UndoEntries, SoundThroughout
  <2>2. Last(snapshots) \in SoundSnapshot /\ Front(snapshots) \in Seq(SoundSnapshot)
    BY <2>1, LastAndFront
  <2>. QED  BY <1>10, <2>2 DEF UndoEntries, SoundSnapshot
<1>11. CASE AnswerOperation
  <2>. SUFFICES ASSUME ~loose'  PROVE Sound(entries', links') /\ snapshots' \in Seq(SoundSnapshot)
    BY DEF SoundThroughout
  <2>1. ~loose /\ ~disturbed
    BY <1>11 DEF AnswerOperation
  <2>2. Sound(entries, links) /\ snapshots \in Seq(SoundSnapshot)
    BY <2>1 DEF SoundThroughout
  <2>3. Sound(entries', links')
    BY <1>11, <2>1, <2>2, AnswerSound
  <2>. QED  BY <1>11, <2>2, <2>3, RecordsSound DEF AnswerOperation
<1>12. CASE RefuseOperation
  <2>. SUFFICES ASSUME ~loose'  PROVE Sound(entries', links') /\ snapshots' \in Seq(SoundSnapshot)
    BY DEF SoundThroughout
  <2>1. Sound(entries, links) /\ snapshots' \in Seq(SoundSnapshot) /\ entries' = entries
    BY <1>12 DEF RefuseOperation, SoundThroughout
  <2>2. links' = links \/ links' = [links EXCEPT ![request.link] = Gone]
    BY <1>12 DEF RefuseOperation
  <2>. QED  BY <2>1, <2>2 DEF Sound, Leads, LinkedTypeOK
<1>13. CASE UNCHANGED linkedVars
  BY <1>4, <1>13 DEF linkedVars
<1>. QED
  BY <1>1, <1>2, <1>3, <1>5, <1>6, <1>7, <1>8, <1>9, <1>10, <1>11, <1>12, <1>13
  DEF LinkedNext, EditEntries

(* A connector names a route of its block that leads to its other end, for   *)
(* any number of connectors, paths, waiting operations and snapshots, unless *)
(* an edit overtook an answer or the panels broke the link themselves.       *)
THEOREM ConnectorsLead == LinkedSpec => []LinksLead
<1>1. LinkedInit => UpToDate /\ SoundThroughout
  <2>. SUFFICES ASSUME LinkedInit  PROVE UpToDate /\ SoundThroughout
    OBVIOUS
  <2>1. snapshots \in Seq(SoundSnapshot)
    BY DEF LinkedInit
  <2>2. Sound(entries, links)
    BY DEF LinkedInit, Sound, Single, Leads
  <2>3. UpToDate
    BY DEF LinkedInit, UpToDate
  <2>. QED  BY <2>1, <2>2, <2>3 DEF SoundThroughout
<1>2. ASSUME LinkedTypeOK, UpToDate, SoundThroughout, [LinkedNext]_linkedVars
      PROVE  UpToDate' /\ SoundThroughout'
  BY <1>2, UpToDateKept, SoundKept
<1>3. SoundThroughout => LinksLead
  BY DEF SoundThroughout, Sound, Leads, LinksLead, Drawn
<1>. QED  BY <1>1, <1>2, <1>3, LinkedTypeCorrect, PTL DEF LinkedSpec
=============================================================================
