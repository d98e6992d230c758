--------------------------- MODULE DiagramLibrary ---------------------------
(***************************************************************************)
(* What the diagram endpoints promise: a library of records, each of which *)
(* belongs for ever to the session that created it.  Identifiers are never *)
(* given out twice, not even after a deletion.                             *)
(***************************************************************************)
CONSTANTS Ids, Owners, Contents,
          Unused, Deleted   \* what an identifier stands for besides a record

VARIABLE shelf              \* Ids -> record, Unused or Deleted

Record == [owner : Owners, content : Contents]

(* A record is not a mark. *)
MarksApart == {Unused, Deleted} \cap Record = {} /\ Unused # Deleted

Held(id) == shelf[id] \notin {Unused, Deleted}

Init == shelf = [id \in Ids |-> Unused]

Create(id) == /\ shelf[id] = Unused
              /\ \E r \in Record : shelf' = [shelf EXCEPT ![id] = r]

Update(id) == /\ Held(id)
              /\ \E c \in Contents : shelf' = [shelf EXCEPT ![id].content = c]

Delete(id) == /\ Held(id)
              /\ shelf' = [shelf EXCEPT ![id] = Deleted]

Next == \E id \in Ids : Create(id) \/ Update(id) \/ Delete(id)
Spec == Init /\ [][Next]_shelf
-----------------------------------------------------------------------------
(* The shelf holds records and marks only. *)
TypeOK == shelf \in [Ids -> Record \cup {Unused, Deleted}]

(* An identifier that was deleted stays deleted. *)
DeletedForGood == [][\A id \in Ids : shelf[id] = Deleted => shelf'[id] = Deleted]_shelf

(* A record keeps its owner as long as it is held. *)
OwnersForGood ==
  [][\A id \in Ids : Held(id) /\ shelf'[id] # Deleted => shelf'[id].owner = shelf[id].owner]_shelf
=============================================================================
