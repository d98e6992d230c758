---------------------------- MODULE LinkedEntries ----------------------------
(***************************************************************************)
(* The routes of an API Gateway block, which two panels edit: that of a    *)
(* connection through requests (an entry and the connection that uses it   *)
(* change together), that of the block through a copy of its own, which it *)
(* writes back whole.  Requests wait in one queue with the checks of new   *)
(* connectors; each answer replaces the whole list.                        *)
(***************************************************************************)
EXTENDS Naturals, Sequences, SequencesExt

CONSTANTS Links,       \* connectors from the block to others
          Target,      \* Links -> the block at the other end
          Paths,       \* paths of routes; "" is none
          Root,        \* the path of a route added in the panel
          EntryIds,    \* ids of routes
          Methods,     \* what else a route says
          Plain,       \* what a route added in the panel says
          MaxQueued,   \* bound: operations that wait
          MaxEdits,    \* bound: what the user does
          MaxSnapshots \* bound: undo snapshots kept

(* One connector leads to each block; no path is the empty one or the mark of *)
(* a connector that is not drawn.                                             *)
ASSUME LinkedAssumption ==
  /\ Root \in Paths /\ Plain \in Methods
  /\ {"", "gone"} \cap Paths = {}
  /\ DOMAIN Target = Links /\ IsInjective(Target)

VARIABLES entries,     \* config.routes of the block: [id, path, target, methods]
          links,       \* Links -> route_path of the connector, "", or Gone
          panel,       \* <<the copy of the block's panel>>, or Closed
          operations,  \* operations that wait for their turn
          request,     \* the operation on the wire and the diagram it took, or NoOperation
          snapshots,   \* undo: [entries, links], newest last
          disturbed,   \* an edit came between the request and its answer
          edits,       \* what the user has done so far
          loose        \* why a connector may name a route that is not there

linkedVars == <<entries, links, panel, operations, request, snapshots, disturbed, edits, loose>>

Gone == "gone"
Closed == <<>>
NoOperation == [do |-> "idle"]

Drawn == {c \in Links : links[c] # Gone}
(* A route of the path that leads to the connector's other end. *)
Owned(E, c, p) == \E e \in E : e.path = p /\ e.target = Target[c]
PathsOf(E) == {e.path : e \in E}
Known(E) == {e.id : e \in E}
Used == UNION {Known(entries), IF panel = Closed THEN {} ELSE Known(panel[1]),
               IF request = NoOperation THEN {} ELSE Known(request.entries),
               UNION {Known(snapshots[i].entries) : i \in DOMAIN snapshots}}

LinkedInit ==
  /\ entries = {} /\ links = [c \in Links |-> Gone] /\ panel = Closed
  /\ operations = <<>> /\ request = NoOperation /\ snapshots = <<>>
  /\ disturbed = FALSE /\ edits = 0 /\ loose = FALSE
-----------------------------------------------------------------------------
(* queueConnectionOperation: an operation takes the diagram when its turn    *)
(* comes, which is after the answer before it has been applied.              *)

(* Fault: the next operation takes the diagram before the answer is applied. *)
FaultTaken(op) == [do |-> op.do, link |-> op.link, path |-> op.path, methods |-> op.methods,
                   entries |-> entries, links |-> links]

Taken(op) == [do |-> op.do, link |-> op.link, path |-> op.path, methods |-> op.methods,
              entries |-> entries', links |-> links']

Queue(op) ==
  IF request = NoOperation THEN request' = Taken(op) /\ disturbed' = FALSE /\ UNCHANGED operations
  ELSE /\ Len(operations) < MaxQueued
       /\ operations' = Append(operations, op) /\ UNCHANGED <<request, disturbed>>

NextTurn ==
  /\ disturbed' = FALSE
  /\ IF operations = <<>> THEN request' = NoOperation /\ UNCHANGED operations
     ELSE request' = Taken(Head(operations)) /\ operations' = Tail(operations)

Operation(do, c, p, m) == [do |-> do, link |-> c, path |-> p, methods |-> m]
RecordEntries ==
  snapshots' = LET all == Append(snapshots, [entries |-> entries, links |-> links]) IN
               IF Len(all) > MaxSnapshots THEN Tail(all) ELSE all
Disturb == disturbed' = (request # NoOperation) /\ UNCHANGED <<operations, request>>
-----------------------------------------------------------------------------
(* The panel of a connection. *)

Mentioned(c) == \/ \E i \in DOMAIN operations : operations[i].link = c
                \/ request # NoOperation /\ (request.link = c \/ request.links[c] # Gone)
                \/ \E i \in DOMAIN snapshots : snapshots[i].links[c] # Gone

(* addConnector, and its check. *)
AddConnector(c) ==
  /\ links[c] = Gone /\ ~Mentioned(c)
  /\ RecordEntries
  /\ links' = [links EXCEPT ![c] = ""] /\ UNCHANGED <<entries, panel, loose>>
  /\ Queue(Operation("check", c, "", Plain))

RemoveConnector(c) == /\ c \in Drawn
                      /\ RecordEntries
                      /\ links' = [links EXCEPT ![c] = Gone]
                      /\ UNCHANGED <<entries, panel, operations, request, disturbed, loose>>

(* handleSelectChange: any route of the block may be chosen. *)
SelectPath(c, p) ==
  /\ panel = Closed /\ c \in Drawn /\ p \in PathsOf(entries) \ {"", links[c]}
  /\ RecordEntries
  /\ links' = [links EXCEPT ![c] = p]
  /\ Disturb /\ loose' = (loose \/ ~Owned(entries, c, p))
  /\ UNCHANGED <<entries, panel>>

CreateLinkedEntry(c, p, m) ==
  /\ panel = Closed /\ c \in Drawn
  /\ UNCHANGED <<entries, links, panel, snapshots, loose>>
  /\ Queue(Operation("create", c, p, m))

(* Offered for the routes that lead to the other end. *)
UpdateLinkedEntry(c, p, m) ==
  /\ panel = Closed /\ c \in Drawn /\ Owned(entries, c, p)
  /\ UNCHANGED <<entries, links, panel, snapshots, loose>>
  /\ Queue(Operation("update", c, p, m))
-----------------------------------------------------------------------------
(* The panel of the block. *)

(* initFromConfig, and reset. *)
OpenPanel == /\ panel = Closed /\ panel' = <<entries>>
             /\ UNCHANGED <<entries, links, operations, request, snapshots, disturbed, loose>>
ClosePanel == /\ panel # Closed /\ panel' = Closed
              /\ UNCHANGED <<entries, links, operations, request, snapshots, disturbed, loose>>

(* _syncToCanvas: the copy replaces the list of the block, without history. *)
Doubled(E) == \E e, f \in E : e # f /\ e.path = f.path /\ e.path # ""
Unled(E) == \E c \in Drawn : Owned(entries, c, links[c]) /\ ~Owned(E, c, links[c])
SyncToCanvas(copy) ==
  /\ panel' = <<copy>> /\ entries' = copy
  /\ Disturb /\ loose' = (loose \/ Doubled(copy) \/ Unled(copy))
  /\ UNCHANGED <<links, snapshots>>

AddRoute == /\ panel # Closed
            /\ \E i \in EntryIds \ Used :
                 SyncToCanvas(panel[1] \cup {[id |-> i, path |-> Root, target |-> "", methods |-> Plain]})

UpdateRoute(e) ==
  \E f \in {[e EXCEPT !.path = p] : p \in Paths \cup {""}} \cup {[e EXCEPT !.methods = m] : m \in Methods} :
    e # f /\ SyncToCanvas((panel[1] \ {e}) \cup {f})

(* removeRoute leaves the list of the block to the backend. *)
RemoveRoute(e) ==
  IF e.path = "" THEN SyncToCanvas(panel[1] \ {e})
  ELSE /\ panel' = <<panel[1] \ {e}>>
       /\ UNCHANGED <<entries, links, snapshots, loose>>
       /\ Queue(Operation("remove", "any", e.path, Plain))
-----------------------------------------------------------------------------
(* ConnectionOperationService.apply, on the diagram the request took.        *)

RoutesNamed(p) == {e \in request.entries : e.path = p}
There(c) == c \in Links /\ request.links[c] # Gone

(* _find_linked_connector: a connector to the block that such a route leads to. *)
Linked(p) == {c \in Links : There(c) /\ \E e \in RoutesNamed(p) : e.target = Target[c]}

Refused == CASE request.do = "create" -> ~There(request.link) \/ RoutesNamed(request.path) # {}
             [] request.do = "update" -> ~There(request.link) \/ RoutesNamed(request.path) = {}
             [] request.do = "remove" -> Linked(request.path) = {}
             [] OTHER -> FALSE

(* Fault: the connector keeps naming what was removed. *)
FaultCleared(c) == request.links

Cleared(c) == [request.links EXCEPT ![c] = IF @ = request.path THEN "" ELSE @]

Updated(E) == {IF e.path = request.path THEN [e EXCEPT !.methods = request.methods] ELSE e : e \in E}
Without(E) == {e \in E : e.path # request.path}
New(i) == [id |-> i, path |-> request.path, target |-> Target[request.link], methods |-> request.methods]

(* What the answer does: the list becomes that of the answer, whatever it is *)
(* by now; connectors that are still drawn take over what the answer says.   *)
Take(c, answer) == IF links[c] = Gone \/ answer[c] = Gone THEN links[c] ELSE answer[c]

AnswerOperation ==
  /\ request # NoOperation /\ ~Refused
  /\ CASE request.do = "create" ->
            /\ \E i \in EntryIds \ Used : entries' = request.entries \cup {New(i)}
            /\ links' = IF request.link \in Drawn THEN [links EXCEPT ![request.link] = request.path] ELSE links
       [] request.do = "update" -> entries' = Updated(request.entries) /\ links' = links
       [] request.do = "remove" ->
            /\ entries' = Without(request.entries)
            /\ \E c \in Linked(request.path) : links' = [d \in Links |-> Take(d, Cleared(c))]
       [] request.do = "check" ->
            /\ entries' = entries
            /\ links' = [links EXCEPT ![request.link] = Take(request.link, request.links)]
  /\ IF request.do = "check" THEN UNCHANGED snapshots ELSE RecordEntries
  /\ NextTurn /\ loose' = (loose \/ disturbed)
  /\ UNCHANGED panel

(* The backend refuses, or the connection is not one it knows. *)
RefuseOperation ==
  /\ request # NoOperation /\ (Refused \/ request.do = "check")
  /\ links' = IF request.do = "check" THEN [links EXCEPT ![request.link] = Gone] ELSE links
  /\ UNCHANGED <<entries, panel, snapshots, loose>> /\ NextTurn

(* The request rejects, or no answer comes: the queue goes on. *)
RejectOperation ==
  /\ request # NoOperation
  /\ UNCHANGED <<entries, links, panel, snapshots, loose>> /\ NextTurn

UndoEntries ==
  /\ snapshots # <<>>
  /\ entries' = Last(snapshots).entries /\ links' = Last(snapshots).links
  /\ snapshots' = Front(snapshots)
  /\ Disturb /\ UNCHANGED <<panel, loose>>

EditEntries ==
  \/ \E c \in Links : AddConnector(c) \/ RemoveConnector(c)
  \/ \E c \in Links, p \in Paths :
       SelectPath(c, p) \/ \E m \in Methods : CreateLinkedEntry(c, p, m) \/ UpdateLinkedEntry(c, p, m)
  \/ OpenPanel \/ ClosePanel \/ AddRoute
  \/ panel # Closed /\ \E e \in panel[1] : UpdateRoute(e) \/ RemoveRoute(e)
  \/ UndoEntries

LinkedNext ==
  \/ EditEntries /\ edits < MaxEdits /\ edits' = edits + 1
  \/ (AnswerOperation \/ RefuseOperation \/ RejectOperation) /\ edits' = edits

LinkedSpec == LinkedInit /\ [][LinkedNext]_linkedVars
-----------------------------------------------------------------------------
(* Operations asked for in quick succession keep what the ones before them   *)
(* did: an answer changes exactly the route it is about, unless the user     *)
(* edited the routes while it was on its way.                                *)
LinkedEditsSurvive ==
  [][AnswerOperation /\ ~disturbed =>
       CASE request.do = "create" -> \E e \in entries' : entries' \ {e} = entries /\ e.path = request.path
         [] request.do = "update" -> entries' = Updated(entries)
         [] request.do = "remove" -> entries' = Without(entries)
         [] OTHER -> entries' = entries]_linkedVars

(* A connector names a route of its block that leads to its other end,       *)
(* through every order of creating, removing, drawing and undoing, unless an *)
(* edit overtook an answer, the block's panel took the route away, gave its  *)
(* path to another or to two, or the user chose the route of another block.  *)
LinksLead == ~loose => \A c \in Drawn : links[c] # "" => Owned(entries, c, links[c])

(* apigw-config-store: removing a route updates the block. *)
RemovedIsGone ==
  [][(AnswerOperation \/ RefuseOperation) /\ request.do = "remove" => entries' = Without(entries)]_linkedVars
=============================================================================
