------------------------- MODULE DiagramPersistence -------------------------
(***************************************************************************)
(* Saving and loading diagrams: one browser (its canvas, its record id, its *)
(* cookie), the session middleware and the diagram endpoints over a        *)
(* repository.  A request crosses the network, is given a session, is      *)
(* checked for ownership, is applied, and is answered; requests of one     *)
(* browser overlap, because nothing in the editor waits for the last one.  *)
(***************************************************************************)
EXTENDS Naturals, FiniteSets, FiniteSetsExt

CONSTANTS Ids,          \* diagram ids that uuid can give out
          Sessions,     \* session ids that uuid can give out
          Documents,    \* bound: diagrams the user works on, 1..Documents
          Versions,     \* versions of one document told apart
          MaxRequests,  \* bound: requests sent
          Interleaved,  \* several backend processes share the tables
          None          \* no id, no session

ASSUME NoneAssumption == None \notin Ids \cup Sessions
ASSUME InterleavedAssumption == Interleaved \in BOOLEAN

VARIABLES canvas,       \* what is drawn: [doc, version]
          current,      \* currentDiagramId
          jar,          \* the session cookie of the browser
          wire,         \* requests between the call and its answer
          sent,         \* requests sent
          users,        \* sessions the backend knows
          records,      \* Ids -> [owner, content], Unused or Deleted
          written,      \* everything ever stored: [id, content]
          told,         \* everything the user was told is stored
          raced         \* a second session was created, or the cookie got lost

client == <<canvas, current, jar>>
server == <<users, records, written>>
vars == <<canvas, current, jar, wire, sent, users, records, written, told, raced>>

Unused == [owner |-> None, content |-> [doc |-> 0, version |-> 0]]
Deleted == [owner |-> None, content |-> [doc |-> 0, version |-> 1]]
Contents == [doc : 1..Documents, version : Versions]
Held(id) == records[id] \notin {Unused, Deleted}
First == CHOOSE v \in Versions : \A w \in Versions : v <= w

ASSUME DocumentsAssumption == Documents \in Nat \ {0} /\ First \in Versions

Init ==
  /\ canvas = [doc |-> 1, version |-> First] /\ current = None /\ jar = None
  /\ wire = {} /\ sent = 0
  /\ users = {} /\ records = [id \in Ids |-> Unused]
  /\ written = {} /\ told = {} /\ raced = FALSE
-----------------------------------------------------------------------------
(* The editor. *)

Edit(v) == /\ canvas.version # v
           /\ canvas' = [canvas EXCEPT !.version = v]
           /\ UNCHANGED <<current, jar, wire, sent, users, records, written, told, raced>>

NewDocuments ==
  {d \in 1..Documents : d # canvas.doc /\ \A r \in wire : r.body.doc # d
                        /\ \A w \in written : w.content.doc # d}

(* NewDiagramDialog, and the import of a file: currentDiagramId is kept. *)
NewDiagram ==
  /\ \E d \in NewDocuments : canvas' = [doc |-> d, version |-> First]
  /\ UNCHANGED <<current, jar, wire, sent, users, records, written, told, raced>>

Call(op, id) ==
  [n |-> sent + 1, op |-> op, id |-> id, body |-> canvas, cookie |-> jar,
   session |-> None, fresh |-> FALSE, step |-> "sent", ok |-> FALSE, error |-> "none"]

Send(op, id) == /\ sent < MaxRequests
                /\ sent' = sent + 1
                /\ wire' = wire \cup {Call(op, id)}
                /\ UNCHANGED <<canvas, current, jar, users, records, written, told, raced>>

(* handleSave: an update when a record is current, a new record otherwise. *)
Save == IF current # None THEN Send("update", current) ELSE Send("create", None)

(* handleLoad asks for the list first, and loads the first entry of the answer. *)
List == Send("list", None)
Delete(id) == Held(id) /\ records[id].owner = jar /\ Send("delete", id)
-----------------------------------------------------------------------------
(* The backend. *)

Step(r, s) == wire' = (wire \ {r}) \cup {s}

(* One process runs a handler to its end before it looks at another request. *)
Free == Interleaved \/ \A r \in wire : r.step # "owned"

(* Fault: the cookie is set only when the request carried an old one. *)
FaultOpened(r, s) == [r EXCEPT !.step = "open", !.session = s, !.fresh = (r.cookie # None)]

Opened(r, s) == [r EXCEPT !.step = "open", !.session = s, !.fresh = TRUE]

(* SessionMiddleware.dispatch *)
OpenSession(r) ==
  /\ Free /\ r.step = "sent"
  /\ IF r.cookie \in users
     THEN /\ Step(r, [r EXCEPT !.step = "open", !.session = r.cookie])
          /\ UNCHANGED <<users, raced>>
     ELSE /\ \E s \in Sessions \ users : users' = users \cup {s} /\ Step(r, Opened(r, s))
          /\ raced' = (raced \/ users # {})
  /\ UNCHANGED <<client, sent, records, written, told>>

Done(r) == [r EXCEPT !.step = "done", !.ok = TRUE]
Failed(r, e) == [r EXCEPT !.step = "done", !.error = e]

Write(id, owner, content) ==
  /\ records' = [records EXCEPT ![id] = [owner |-> owner, content |-> content]]
  /\ written' = written \cup {[id |-> id, content |-> content]}

CreateDiagram(r) ==
  /\ Free /\ r.step = "open" /\ r.op = "create"
  /\ \E id \in {i \in Ids : records[i] = Unused} :
       Write(id, r.session, r.body) /\ Step(r, [Done(r) EXCEPT !.id = id])
  /\ UNCHANGED <<client, sent, users, told, raced>>

(* list_diagrams: the answer names one of the records of the session, or none. *)
ListDiagrams(r) ==
  /\ Free /\ r.step = "open" /\ r.op = "list"
  /\ LET mine == {i \in Ids : Held(i) /\ records[i].owner = r.session} IN
     \E id \in IF mine = {} THEN {None} ELSE mine : Step(r, [Done(r) EXCEPT !.id = id])
  /\ UNCHANGED <<client, sent, server, told, raced>>

(* Fault: any session may use any record. *)
FaultMayUse(r) == Held(r.id)

MayUse(r) == Held(r.id) /\ records[r.id].owner = r.session

(* verify_ownership: 404, 403, or the record read here (which a load answers with). *)
VerifyOwnership(r) ==
  /\ Free /\ r.step = "open" /\ r.op \in {"update", "load", "delete"}
  /\ Step(r, CASE ~Held(r.id)                 -> Failed(r, "404")
               [] Held(r.id) /\ ~MayUse(r)    -> Failed(r, "403")
               [] MayUse(r) /\ r.op = "load"  -> [Done(r) EXCEPT !.body = records[r.id].content]
               [] OTHER                       -> [r EXCEPT !.step = "owned"])
  /\ UNCHANGED <<client, sent, server, told, raced>>

(* Fault: the update has no condition, and stores under an id that is gone. *)
FaultUpdateDiagram(r) ==
  /\ r.step = "owned" /\ r.op = "update"
  /\ Write(r.id, r.session, r.body) /\ Step(r, Done(r))
  /\ UNCHANGED <<client, sent, users, told, raced>>

(* Fault: the update of a missing record returns False, which the endpoint ignores. *)
FaultIgnoredUpdate(r) ==
  /\ r.step = "owned" /\ r.op = "update"
  /\ IF Held(r.id) THEN Write(r.id, records[r.id].owner, r.body) ELSE UNCHANGED <<records, written>>
  /\ Step(r, Done(r))
  /\ UNCHANGED <<client, sent, users, told, raced>>

(* update_diagram; on a missing record the conditional write raises, which *)
(* nothing catches (the record can only be missing when Interleaved).      *)
UpdateDiagram(r) ==
  /\ r.step = "owned" /\ r.op = "update"
  /\ IF Held(r.id)
     THEN Write(r.id, records[r.id].owner, r.body) /\ Step(r, Done(r))
     ELSE UNCHANGED <<records, written>> /\ Step(r, Failed(r, "raised"))
  /\ UNCHANGED <<client, sent, users, told, raced>>

(* Fault: the id of a deleted record can be given out again. *)
FaultDeleteDiagram(r) ==
  /\ r.step = "owned" /\ r.op = "delete"
  /\ records' = [records EXCEPT ![r.id] = Unused]
  /\ Step(r, Done(r))
  /\ UNCHANGED <<client, sent, users, written, told, raced>>

(* delete_diagram answers 204 whether or not the record was still there. *)
DeleteDiagram(r) ==
  /\ r.step = "owned" /\ r.op = "delete"
  /\ records' = [records EXCEPT ![r.id] = Deleted]
  /\ Step(r, Done(r))
  /\ UNCHANGED <<client, sent, users, written, told, raced>>
-----------------------------------------------------------------------------
(* The answer reaches the browser: its cookie first, then what awaits it. *)

Cookie(r) == jar' = IF r.fresh THEN r.session ELSE jar
Told(r) == told' = told \cup {[id |-> r.id, content |-> r.body]}

Saved(r) == /\ r.op = "create" /\ current' = r.id /\ Told(r)
            /\ UNCHANGED <<canvas, sent, raced>>

Updated(r) == r.op = "update" /\ Told(r) /\ UNCHANGED <<canvas, current, sent, raced>>

(* Fault: the record becomes the current one and its diagram is not shown. *)
FaultLoaded(r) == /\ r.op = "load" /\ canvas' = canvas /\ current' = r.id
                  /\ UNCHANGED <<sent, told, raced>>

Loaded(r) == /\ r.op = "load" /\ canvas' = r.body /\ current' = r.id
             /\ UNCHANGED <<sent, told, raced>>

Forgot(r) == /\ r.op = "delete" /\ current' = (IF current = r.id THEN None ELSE current)
             /\ UNCHANGED <<canvas, sent, told, raced>>

Deliver(r) ==
  /\ r.step = "done" /\ r.ok /\ r.op # "list"
  /\ Cookie(r) /\ wire' = wire \ {r}
  /\ Saved(r) \/ Updated(r) \/ Loaded(r) \/ Forgot(r)
  /\ UNCHANGED server

(* The list arrives: the first diagram is asked for in the same turn. *)
DeliverList(r) ==
  /\ r.step = "done" /\ r.ok /\ r.op = "list"
  /\ Cookie(r)
  /\ IF r.id = None
     THEN wire' = wire \ {r} /\ sent' = sent
     ELSE /\ wire' = (wire \ {r}) \cup {[Call("load", r.id) EXCEPT !.cookie = jar']}
          /\ sent' = sent + 1
  /\ UNCHANGED <<canvas, current, server, told, raced>>

Refused(r) == /\ r.step = "done" /\ ~r.ok
              /\ Cookie(r) /\ wire' = wire \ {r}
              /\ UNCHANGED <<canvas, current, sent, server, told, raced>>

(* The request or its answer is lost: fetch throws, a message is shown. *)
Lose(r) == /\ r.step \in {"sent", "done"} /\ wire' = wire \ {r}
           /\ raced' = (raced \/ r.fresh)
           /\ UNCHANGED <<client, sent, server, told>>

User == (\E v \in Versions : Edit(v)) \/ NewDiagram \/ Save \/ List \/ (\E id \in Ids : Delete(id))
Backend(r) == \/ OpenSession(r) \/ CreateDiagram(r) \/ ListDiagrams(r) \/ VerifyOwnership(r)
              \/ UpdateDiagram(r) \/ DeleteDiagram(r)
Network(r) == Deliver(r) \/ DeliverList(r) \/ Refused(r) \/ Lose(r)

Next == User \/ \E r \in wire : Backend(r) \/ Network(r)
Spec == Init /\ [][Next]_vars
-----------------------------------------------------------------------------
(* Ids and sessions in use were given out by the backend. *)
TypeOK ==
  /\ canvas \in Contents /\ current \in Ids \cup {None} /\ jar \in users \cup {None}
  /\ \A id \in Ids : Held(id) => records[id].owner \in users /\ records[id].content \in Contents
  /\ \A r \in wire : r.session \in users \cup {None} /\ r.n <= sent
  /\ current # None => records[current] # Unused

(* Whatever the user was told is saved has been stored, under that id: a   *)
(* record deleted between the ownership check and the write is reported.   *)
ToldMeansStored == told \subseteq written

(* Every record of this browser can still be listed with its cookie, unless *)
(* two requests were sent before the first cookie came back or the answer  *)
(* that carried it was lost.                                               *)
SavedIsListedUnlessRaced == wire = {} /\ ~raced => \A id \in Ids : Held(id) => records[id].owner = jar

(* The canvas shows the document of the current record, where the next save *)
(* goes.  Two steps part them: a new diagram keeps currentDiagramId, and   *)
(* the answer to a first save sets it although another document is shown by *)
(* now.  Nothing else does, and a load brings them together again.         *)
Shows(id) == \/ records[id] = Deleted
             \/ \E w \in written : w.id = id /\ w.content.doc = canvas.doc
Joined == current # None => Shows(current)
OtherSaved == \E r \in wire : Deliver(r) /\ r.op = "create" /\ r.body.doc # canvas.doc
CanvasIsCurrent ==
  [][/\ Joined => Joined' \/ NewDiagram \/ OtherSaved
     /\ (\E r \in wire : Deliver(r) /\ r.op = "load") => Joined']_vars

(* Nobody but its owner sees, changes or deletes a record. *)
OnlyOwners ==
  \A r \in wire : r.op \in {"update", "load", "delete"} /\ (r.step = "owned" \/ r.ok)
                  /\ Held(r.id) => records[r.id].owner = r.session

Library == INSTANCE DiagramLibrary WITH shelf <- records, Owners <- Sessions

(* The endpoints implement the library. *)
ImplementsLibrary == Library!Spec
=============================================================================
