---------------------- MODULE DiagramPersistence_proofs ----------------------
(***************************************************************************)
(* Proofs about DiagramPersistence, for any number of sessions, documents, *)
(* versions and requests on the wire, with one backend process or several. *)
(* What a request may rely on never gets lost (Grows), so every step only  *)
(* has to account for the request it changes.                              *)
(***************************************************************************)
EXTENDS DiagramPersistence, TLAPS

Stored == [id : Ids, content : Contents]

(* The backend: its records are what sessions of its own stored. *)
Server ==
  /\ users \subseteq Sessions /\ written \subseteq Stored
  /\ records \in [Ids -> [owner : users, content : Contents] \cup {Unused, Deleted}]
  /\ \A id \in Ids : Held(id) => [id |-> id, content |-> records[id].content] \in written

(* The browser. *)
Browser ==
  /\ canvas \in Contents /\ current \in Ids \cup {None} /\ jar \in users \cup {None} /\ sent \in Nat
  /\ current # None => records[current] # Unused
  /\ raced \in BOOLEAN

ById == {"update", "load", "delete"}
Errors == {"none", "404", "403", "raised"}
Request ==
  [n : Nat, op : ById \cup {"create", "list"}, id : Ids \cup {None}, body : Contents,
   cookie : Sessions \cup {None}, session : Sessions \cup {None}, fresh : BOOLEAN,
   step : {"sent", "open", "owned", "done"}, ok : BOOLEAN, error : Errors]

(* How far a request is. *)
Staged(r) ==
  /\ r.n <= sent /\ r.session \in users \cup {None}
  /\ r.op \in ById => r.id \in Ids
  /\ r.step = "sent" => ~r.fresh
  /\ r.step \in {"open", "owned"} \/ r.fresh => r.session \in users
  /\ r.step = "owned" => r.op \in {"update", "delete"}
  /\ r.ok => r.step = "done"

(* A request that passed the ownership check keeps its right to the record. *)
Passed(r) == r.op \in ById /\ (r.step = "owned" \/ r.ok)
Entitled(r) ==
  Passed(r) => /\ records[r.id] # Unused
               /\ Held(r.id) => records[r.id].owner = r.session

(* An answer speaks of what was stored. *)
Truthful(r) ==
  r.ok /\ r.op \in {"create", "update", "load"} =>
    /\ r.id \in Ids /\ records[r.id] # Unused
    /\ [id |-> r.id, content |-> r.body] \in written

Sound(r) == Staged(r) /\ Entitled(r) /\ Truthful(r)
Wire == wire \subseteq Request /\ \A r \in wire : Sound(r)

(* A session that was given out is in the jar or on its way there. *)
Cookies ==
  ~raced => /\ \A s, t \in users : s = t
            /\ users # {} => jar \in users \/ \E r \in wire : r.fresh

PersistenceInv == Server /\ Browser /\ Wire /\ ToldMeansStored

-----------------------------------------------------------------------------
(* Unused and Deleted are no records of a session. *)
LEMMA MarksAreNoRecords ==
  ASSUME NEW S \in SUBSET Sessions
  PROVE  /\ Unused \notin [owner : S, content : Contents]
         /\ Deleted \notin [owner : S, content : Contents]
         /\ Unused # Deleted
BY NoneAssumption DEF Unused, Deleted

(* What is held is a record. *)
LEMMA HeldIsRecord ==
  ASSUME Server, NEW id \in Ids, Held(id)
  PROVE  /\ records[id] \in [owner : users, content : Contents]
         /\ records[id].owner \in users /\ records[id].content \in Contents
<1>1. records[id] \in [owner : users, content : Contents]
  BY DEF Server, Held
<1>. QED  BY <1>1

(* What requests rely on is not lost by a step. *)
Grows ==
  /\ users \subseteq users' /\ written \subseteq written' /\ sent <= sent'
  /\ \A id \in Ids :
       records[id] # Unused =>
         /\ records'[id] # Unused
         /\ Held(id)' => Held(id) /\ records'[id].owner = records[id].owner

(* What a request may rely on, it may rely on after any such step. *)
LEMMA SoundForGood ==
  ASSUME Grows, sent \in Nat, sent' \in Nat, NEW r \in Request, Sound(r)
  PROVE  Sound(r)'
<1>1. r.n \in Nat /\ r.id \in Ids \cup {None} /\ r.op \in ById \cup {"create", "list"}
  BY DEF Request
<1>2. Staged(r)'
  BY <1>1 DEF Grows, Sound, Staged
<1>3. Entitled(r)'
  <2>1. SUFFICES ASSUME Passed(r) PROVE records'[r.id] # Unused /\ (Held(r.id)' => records'[r.id].owner = r.session)
    BY DEF Entitled, Passed
  <2>2. r.id \in Ids
    BY <2>1 DEF Sound, Staged, Passed
  <2>. QED  BY <2>1, <2>2 DEF Grows, Sound, Entitled
<1>4. Truthful(r)'
  BY DEF Grows, Sound, Truthful
<1>. QED  BY <1>2, <1>3, <1>4 DEF Sound

(* Nothing of the backend changes, or only its sessions. *)
LEMMA Resting ==
  ASSUME Server, UNCHANGED <<records, written>>, users \subseteq users', users' \subseteq Sessions,
         sent \in Nat, sent' \in Nat, sent <= sent'
  PROVE  Grows /\ Server'
<1>1. Grows
  BY DEF Grows, Held
<1>2. Server'
  <2>1. [owner : users, content : Contents] \subseteq [owner : users', content : Contents]
    OBVIOUS
  <2>. QED  BY <2>1 DEF Server, Held
<1>. QED  BY <1>1, <1>2

(* A request is replaced by another, or ends. *)
LEMMA WireAfter ==
  ASSUME Wire, Grows, sent \in Nat, sent' \in Nat, NEW r,
         wire' \subseteq wire \cup {r}, r \in wire' => r \in Request /\ Sound(r)'
  PROVE  Wire'
<1>1. \A q \in wire' : q \in Request /\ Sound(q)'
  <2> SUFFICES ASSUME NEW q \in wire' PROVE q \in Request /\ Sound(q)'
    OBVIOUS
  <2>1. CASE q = r
    BY <2>1
  <2>2. CASE q # r
    <3>1. q \in wire /\ q \in Request /\ Sound(q)
      BY <2>2 DEF Wire
    <3>. QED  BY <3>1, SoundForGood
  <2>. QED  BY <2>1, <2>2
<1>. QED  BY <1>1 DEF Wire
-----------------------------------------------------------------------------
(* Nothing is stored and nothing is on the wire at first. *)
LEMMA Starts == Init => PersistenceInv
<1> SUFFICES ASSUME Init PROVE PersistenceInv
  OBVIOUS
<1>1. canvas \in Contents
  BY DocumentsAssumption DEF Init, Contents
<1>2. Server
  BY DEF Init, Server, Held
<1>. QED  BY <1>1, <1>2 DEF Init, PersistenceInv, Browser, Wire, ToldMeansStored

(* What the browser sends is sound. *)
LEMMA CallSound ==
  ASSUME Browser, Server, NEW op \in ById \cup {"create", "list"}, NEW id \in Ids \cup {None},
         op \in ById => id \in Ids, sent' = sent + 1, UNCHANGED <<users, records, written>>,
         NEW r, r = Call(op, id)
  PROVE  r \in Request /\ Sound(r)'
<1>1. jar \in Sessions \cup {None} /\ sent \in Nat /\ sent + 1 \in Nat /\ canvas \in Contents
  BY DEF Browser, Server
<1>2. r \in Request
  <2> PICK n \in Nat, body \in Contents, cookie \in Sessions \cup {None} :
        n = sent + 1 /\ body = canvas /\ cookie = jar
    BY <1>1
  <2>1. r = [n |-> n, op |-> op, id |-> id, body |-> body, cookie |-> cookie, session |-> None,
             fresh |-> FALSE, step |-> "sent", ok |-> FALSE, error |-> "none"]
    BY DEF Call
  <2>. QED  BY <2>1 DEF Request, Errors
<1>3. /\ r.n = sent + 1 /\ r.op = op /\ r.id = id /\ r.session = None /\ r.step = "sent"
      /\ r.fresh = FALSE /\ r.ok = FALSE
  BY DEF Call
<1>4. Staged(r)'
  BY <1>3, <1>1 DEF Staged
<1>5. Entitled(r)' /\ Truthful(r)'
  BY <1>3 DEF Entitled, Passed, Truthful
<1>. QED  BY <1>2, <1>4, <1>5 DEF Sound

(* Drawing and calling keep the invariant. *)
LEMMA UserKeeps ==
  ASSUME PersistenceInv, User PROVE PersistenceInv'
<1> USE DEF PersistenceInv
<1>1. /\ canvas \in Contents /\ current \in Ids \cup {None} /\ sent \in Nat
      /\ UNCHANGED <<users, records, written, told, current, jar, raced>>
  BY DEF User, Edit, NewDiagram, Save, List, Delete, Send, Browser
<1>2. ToldMeansStored'
  BY <1>1 DEF ToldMeansStored
<1>3. CASE \E v \in Versions : Edit(v)
  <2>1. canvas' \in Contents /\ canvas'.doc = canvas.doc /\ UNCHANGED <<wire, sent>>
    BY <1>1, <1>3 DEF Edit, Contents
  <2>2. Server' /\ Grows
    BY <1>1, <2>1, Resting DEF Server
  <2>3. Wire'
    BY <1>1, <2>1 DEF Wire, Sound, Staged, Entitled, Passed, Truthful, Held
  <2>4. Browser'
    BY <1>1, <2>1 DEF Browser
  <2>. QED  BY <1>2, <2>2, <2>3, <2>4
<1>4. CASE NewDiagram
  <2>1. canvas' \in Contents /\ UNCHANGED <<wire, sent>>
    BY <1>4, DocumentsAssumption DEF NewDiagram, NewDocuments, Contents
  <2>2. Server' /\ Grows
    BY <1>1, <2>1, Resting DEF Server
  <2>3. Wire'
    BY <1>1, <2>1 DEF Wire, Sound, Staged, Entitled, Passed, Truthful, Held
  <2>4. Browser'
    BY <1>1, <2>1 DEF Browser
  <2>. QED  BY <1>2, <2>2, <2>3, <2>4
<1>5. CASE Save \/ List \/ \E id \in Ids : Delete(id)
  <2>1. PICK op \in ById \cup {"create", "list"}, id \in Ids \cup {None} :
          Send(op, id) /\ (op \in ById => id \in Ids)
    BY <1>1, <1>5 DEF Save, List, Delete, ById
  <2>2. sent' = sent + 1 /\ wire' = wire \cup {Call(op, id)} /\ UNCHANGED <<canvas>>
    BY <2>1 DEF Send
  <2>3. Server' /\ Grows
    BY <1>1, <2>2, Resting DEF Server
  <2> PICK r : r = Call(op, id)
    OBVIOUS
  <2>4. r \in Request /\ Sound(r)'
    BY <1>1, <2>1, <2>2, CallSound
  <2>5. Wire'
    BY <1>1, <2>2, <2>3, <2>4, WireAfter
  <2>6. Browser'
    BY <1>1, <2>2 DEF Browser
  <2>. QED  BY <1>2, <2>3, <2>5, <2>6
<1>. QED  BY <1>3, <1>4, <1>5 DEF User
-----------------------------------------------------------------------------
(* What a request on the wire is. *)
LEMMA OnTheWire ==
  ASSUME Wire, NEW r \in wire
  PROVE  /\ r \in Request /\ Staged(r) /\ Entitled(r) /\ Truthful(r)
         /\ r.op \in ById \cup {"create", "list"} /\ r.id \in Ids \cup {None} /\ r.body \in Contents
         /\ r.session \in Sessions \cup {None} /\ r.cookie \in Sessions \cup {None}
         /\ r.step \in {"sent", "open", "owned", "done"} /\ r.n \in Nat
<1>1. r \in Request /\ Sound(r)
  BY DEF Wire
<1>. QED  BY <1>1 DEF Request, Sound

(* A step of the backend that writes nothing. *)
LEMMA Answered ==
  ASSUME PersistenceInv, NEW r \in wire, NEW s, Step(r, s), s \in Request, Sound(s)',
         UNCHANGED <<canvas, current, jar, sent, records, written, told>>,
         users \subseteq users', users' \subseteq Sessions, raced' \in BOOLEAN
  PROVE  PersistenceInv'
<1> USE DEF PersistenceInv
<1>1. sent \in Nat /\ sent' \in Nat /\ sent <= sent'
  BY DEF Browser
<1>2. Grows /\ Server'
  BY <1>1, Resting
<1>3. Wire'
  <2>1. wire' \subseteq wire \cup {s} /\ (s \in wire' => s \in Request /\ Sound(s)')
    BY DEF Step
  <2>. QED  BY <1>1, <1>2, <2>1, WireAfter
<1>4. Browser'
  BY DEF Browser
<1>5. ToldMeansStored'
  BY DEF ToldMeansStored
<1>. QED  BY <1>2, <1>3, <1>4, <1>5

(* The session middleware keeps it. *)
LEMMA OpenSessionKeeps ==
  ASSUME PersistenceInv, NEW r \in wire, OpenSession(r) PROVE PersistenceInv'
<1>1. Wire /\ users \subseteq Sessions /\ raced \in BOOLEAN
  BY DEF PersistenceInv, Server, Browser
<1>2. /\ UNCHANGED <<canvas, current, jar, sent, records, written, told>>
      /\ r.step = "sent" /\ raced' \in BOOLEAN /\ r.fresh \in BOOLEAN
  BY <1>1, OnTheWire DEF OpenSession, client, Request
<1>3. CASE r.cookie \in users
  <2> PICK s : s = [r EXCEPT !.step = "open", !.session = r.cookie]
    OBVIOUS
  <2>1. Step(r, s) /\ users' = users
    BY <1>3 DEF OpenSession
  <2>2. s \in Request
    BY <1>1, OnTheWire DEF Request
  <2>3. /\ s.step = "open" /\ s.session = r.cookie /\ s.op = r.op /\ s.id = r.id /\ s.n = r.n
        /\ s.ok = r.ok /\ s.fresh = r.fresh
    BY <1>1, OnTheWire DEF Request
  <2>4. Sound(s)'
    BY <1>1, <1>2, <1>3, <2>1, <2>3, OnTheWire DEF Sound, Staged, Entitled, Passed, Truthful
  <2>. QED  BY <1>1, <1>2, <2>1, <2>2, <2>4, Answered
<1>4. CASE r.cookie \notin users
  <2>1. PICK new \in Sessions \ users : users' = users \cup {new} /\ Step(r, Opened(r, new))
    BY <1>4 DEF OpenSession
  <2> PICK s : s = Opened(r, new)
    OBVIOUS
  <2>2. s \in Request
    BY <1>1, OnTheWire DEF Request, Opened
  <2>3. /\ s.step = "open" /\ s.session = new /\ s.op = r.op /\ s.id = r.id /\ s.n = r.n
        /\ s.ok = r.ok
    BY <1>1, OnTheWire DEF Request, Opened
  <2>4. Sound(s)'
    BY <1>1, <1>2, <2>1, <2>3, OnTheWire DEF Sound, Staged, Entitled, Passed, Truthful
  <2>5. users \subseteq users' /\ users' \subseteq Sessions
    BY <1>1, <2>1
  <2>. QED  BY <1>2, <2>1, <2>2, <2>4, <2>5, Answered
<1>. QED  BY <1>3, <1>4

(* Listing changes nothing. *)
LEMMA ListDiagramsKeeps ==
  ASSUME PersistenceInv, NEW r \in wire, ListDiagrams(r) PROVE PersistenceInv'
<1>1. Wire /\ users \subseteq Sessions /\ raced \in BOOLEAN
  BY DEF PersistenceInv, Server, Browser
<1>2. PICK id \in Ids \cup {None} : Step(r, [Done(r) EXCEPT !.id = id])
  BY DEF ListDiagrams
<1> PICK s : s = [Done(r) EXCEPT !.id = id]
  OBVIOUS
<1>3. /\ UNCHANGED <<canvas, current, jar, sent, records, written, users, raced, told>>
      /\ r.step = "open" /\ r.op = "list"
  BY DEF ListDiagrams, client, server
<1>4. s \in Request
  BY <1>1, OnTheWire DEF Request, Done
<1>5. /\ s.step = "done" /\ s.session = r.session /\ s.op = "list" /\ s.n = r.n /\ s.fresh = r.fresh
  BY <1>1, <1>3, OnTheWire DEF Request, Done
<1>6. Staged(s)'
  BY <1>1, <1>3, <1>5, OnTheWire DEF Staged, ById
<1>7. Entitled(s)' /\ Truthful(s)'
  BY <1>5 DEF Entitled, Passed, Truthful, ById
<1>8. Sound(s)'
  BY <1>6, <1>7 DEF Sound
<1>. QED  BY <1>1, <1>2, <1>3, <1>4, <1>8, Answered

(* The ownership check entitles a request, answers it, or refuses it. *)
LEMMA VerifyOwnershipKeeps ==
  ASSUME PersistenceInv, NEW r \in wire, VerifyOwnership(r) PROVE PersistenceInv'
<1>1. Wire /\ Server /\ users \subseteq Sessions /\ raced \in BOOLEAN
  BY DEF PersistenceInv, Server, Browser
<1>2. /\ UNCHANGED <<canvas, current, jar, sent, records, written, users, raced, told>>
      /\ r.step = "open" /\ r.op \in ById /\ r.id \in Ids /\ r.ok = FALSE
  <2>1. r.op \in ById /\ r.step = "open"
    BY DEF VerifyOwnership, ById
  <2>2. r.id \in Ids /\ r.ok = FALSE
    BY <1>1, <2>1, OnTheWire DEF Staged, Request
  <2>. QED  BY <2>1, <2>2 DEF VerifyOwnership, client, server
<1>3. CASE ~MayUse(r)
  <2>0. Step(r, Failed(r, "404")) \/ Step(r, Failed(r, "403"))
    BY <1>3 DEF VerifyOwnership, MayUse
  <2>1. PICK e \in Errors : Step(r, Failed(r, e))
    BY <2>0 DEF Errors
  <2> PICK s : s = Failed(r, e)
    OBVIOUS
  <2>2. s \in Request
    BY <1>1, OnTheWire DEF Request, Failed
  <2>3. /\ s.step = "done" /\ s.session = r.session /\ s.op = r.op /\ s.id = r.id /\ s.n = r.n
        /\ s.ok = FALSE /\ s.fresh = r.fresh
    BY <1>1, <1>2, OnTheWire DEF Request, Failed
  <2>4. Sound(s)'
    BY <1>1, <1>2, <2>3, OnTheWire DEF Sound, Staged, Entitled, Passed, Truthful
  <2>. QED  BY <1>1, <1>2, <2>1, <2>2, <2>4, Answered
<1>4. CASE MayUse(r) /\ r.op = "load"
  <2> PICK s : s = [Done(r) EXCEPT !.body = records[r.id].content]
    OBVIOUS
  <2>1. Step(r, s)
    BY <1>4 DEF VerifyOwnership, MayUse
  <2>2. /\ records[r.id].content \in Contents /\ records[r.id].owner = r.session /\ records[r.id] # Unused
        /\ [id |-> r.id, content |-> records[r.id].content] \in written
    BY <1>1, <1>2, <1>4, HeldIsRecord DEF MayUse, Server, Held
  <2>3. s \in Request
    BY <1>1, <2>2, OnTheWire DEF Request, Done
  <2>4. /\ s.step = "done" /\ s.session = r.session /\ s.op = "load" /\ s.id = r.id /\ s.n = r.n
        /\ s.body = records[r.id].content /\ s.fresh = r.fresh
    BY <1>1, <1>4, OnTheWire DEF Request, Done
  <2>5. Staged(s)'
    BY <1>1, <1>2, <2>4, OnTheWire DEF Staged
  <2>6. Entitled(s)' /\ Truthful(s)'
    BY <1>2, <2>2, <2>4 DEF Entitled, Passed, Truthful
  <2>7. Sound(s)'
    BY <2>5, <2>6 DEF Sound
  <2>. QED  BY <1>1, <1>2, <2>1, <2>3, <2>7, Answered
<1>5. CASE MayUse(r) /\ r.op # "load"
  <2> PICK s : s = [r EXCEPT !.step = "owned"]
    OBVIOUS
  <2>1. Step(r, s)
    BY <1>5 DEF VerifyOwnership, MayUse
  <2>2. s \in Request
    BY <1>1, OnTheWire DEF Request
  <2>3. /\ s.step = "owned" /\ s.session = r.session /\ s.op = r.op /\ s.id = r.id /\ s.n = r.n
        /\ s.ok = FALSE /\ s.fresh = r.fresh
    BY <1>1, <1>2, OnTheWire DEF Request
  <2>4. Staged(s)'
    BY <1>1, <1>2, <1>5, <2>3, OnTheWire DEF Staged, ById
  <2>5. Entitled(s)' /\ Truthful(s)'
    BY <1>2, <1>5, <2>3 DEF Entitled, Passed, Truthful, MayUse, Held
  <2>6. Sound(s)'
    BY <2>4, <2>5 DEF Sound
  <2>. QED  BY <1>1, <1>2, <2>1, <2>2, <2>6, Answered
<1>. QED  BY <1>3, <1>4, <1>5
-----------------------------------------------------------------------------
(* An owner may write a record of its own, or a new one. *)
Writable(id, owner) == records[id] = Unused \/ (Held(id) /\ records[id].owner = owner)

(* What is written is a record, and a record keeps its owner. *)
LEMMA WriteFacts ==
  ASSUME Server, NEW id \in Ids, NEW owner \in users, NEW content \in Contents,
         Write(id, owner, content), UNCHANGED <<users, sent>>, sent \in Nat,
         Writable(id, owner)
  PROVE  /\ Grows /\ Server'
         /\ records'[id] # Unused /\ [id |-> id, content |-> content] \in written'
         /\ \A i \in Ids : records[i] = Deleted => records'[i] = Deleted
<1> USE DEF Writable
<1> DEFINE record == [owner |-> owner, content |-> content]
<1>1. users \subseteq Sessions /\ record \in [owner : users, content : Contents]
  BY DEF Server
<1>2. record # Unused /\ record # Deleted /\ Unused # Deleted
  BY <1>1, MarksAreNoRecords
<1>3. /\ records' = [records EXCEPT ![id] = record]
      /\ written' = written \cup {[id |-> id, content |-> content]}
      /\ records \in [Ids -> [owner : users, content : Contents] \cup {Unused, Deleted}]
  BY DEF Write, Server
<1>4. /\ records' \in [Ids -> [owner : users, content : Contents] \cup {Unused, Deleted}]
      /\ records'[id] = record
      /\ \A i \in Ids \ {id} : records'[i] = records[i]
  <2> HIDE DEF record
  <2>. QED  BY <1>1, <1>3
<1>5. \A i \in Ids : Held(i)' => [id |-> i, content |-> records'[i].content] \in written'
  <2> SUFFICES ASSUME NEW i \in Ids, Held(i)' PROVE [id |-> i, content |-> records'[i].content] \in written'
    OBVIOUS
  <2>1. CASE i = id
    BY <1>3, <1>4, <2>1
  <2>2. CASE i # id
    BY <1>3, <1>4, <2>2 DEF Server, Held
  <2>. QED  BY <2>1, <2>2
<1>6. Server'
  <2>1. written' \subseteq Stored
    BY <1>3 DEF Server, Stored
  <2>. QED  BY <1>1, <1>4, <1>5, <2>1 DEF Server
<1>7. Grows
  <2>1. ASSUME NEW i \in Ids, records[i] # Unused
        PROVE  /\ records'[i] # Unused
               /\ Held(i)' => Held(i) /\ records'[i].owner = records[i].owner
    <3>1. CASE i = id
      BY <1>2, <1>4, <2>1, <3>1
    <3>2. CASE i # id
      BY <1>4, <2>1, <3>2 DEF Held
    <3>. QED  BY <3>1, <3>2
  <2>. QED  BY <1>3, <2>1 DEF Grows
<1>8. \A i \in Ids : records[i] = Deleted => records'[i] = Deleted
  <2> SUFFICES ASSUME NEW i \in Ids, records[i] = Deleted PROVE records'[i] = Deleted
    OBVIOUS
  <2>1. i # id
    BY <1>2 DEF Held
  <2>. QED  BY <1>4, <2>1
<1>. QED  BY <1>2, <1>3, <1>4, <1>6, <1>7, <1>8

(* A step of the backend that changes records. *)
LEMMA Applied ==
  ASSUME PersistenceInv, NEW r \in wire, NEW s, Step(r, s), s \in Request, Sound(s)', Grows, Server',
         UNCHANGED <<canvas, current, jar, sent, users, told, raced>>,
         \A id \in Ids : records[id] = Deleted => records'[id] = Deleted
  PROVE  PersistenceInv'
<1> USE DEF PersistenceInv
<1>1. sent \in Nat /\ sent' \in Nat /\ current \in Ids \cup {None}
  BY DEF Browser
<1>2. Wire'
  <2>1. wire' \subseteq wire \cup {s} /\ (s \in wire' => s \in Request /\ Sound(s)')
    BY DEF Step
  <2>. QED  BY <1>1, <2>1, WireAfter
<1>3. Browser'
  BY <1>1 DEF Browser, Grows
<1>4. written \subseteq written'
  BY DEF Grows
<1>5. ToldMeansStored'
  BY <1>4 DEF ToldMeansStored
<1>. QED  BY <1>2, <1>3, <1>5

(* A new record belongs to the session of the request. *)
LEMMA CreateDiagramKeeps ==
  ASSUME PersistenceInv, NEW r \in wire, CreateDiagram(r) PROVE PersistenceInv'
<1>1. Wire /\ Server /\ sent \in Nat
  BY DEF PersistenceInv, Browser
<1>2. /\ UNCHANGED <<canvas, current, jar, sent, users, raced, told>>
      /\ r.step = "open" /\ r.op = "create" /\ r.session \in users /\ r.body \in Contents
  BY <1>1, OnTheWire DEF CreateDiagram, client, Staged
<1> DEFINE answer(id) == [Done(r) EXCEPT !.id = id]
<1>3. PICK id \in Ids : records[id] = Unused /\ Write(id, r.session, r.body) /\ Step(r, answer(id))
  BY DEF CreateDiagram
<1> HIDE DEF answer
<1>4. /\ Grows /\ Server' /\ \A i \in Ids : records[i] = Deleted => records'[i] = Deleted
      /\ records'[id] # Unused /\ [id |-> id, content |-> r.body] \in written'
  <2>1. Write(id, r.session, r.body) /\ Writable(id, r.session)
    BY <1>3 DEF Writable
  <2>. QED  BY <1>1, <1>2, <2>1, WriteFacts
<1> USE DEF answer
<1> PICK s : s = answer(id)
  OBVIOUS
<1>5. s \in Request
  BY <1>1, OnTheWire DEF Request, Done
<1>6. /\ s.step = "done" /\ s.session = r.session /\ s.op = "create" /\ s.n = r.n /\ s.fresh = r.fresh
      /\ s.id = id /\ s.body = r.body
  BY <1>1, <1>2, OnTheWire DEF Request, Done
<1>7. Staged(s)'
  BY <1>1, <1>2, <1>6, OnTheWire DEF Staged, ById
<1>8. Entitled(s)' /\ Truthful(s)'
  BY <1>4, <1>6 DEF Entitled, Passed, Truthful, ById
<1>9. Sound(s)'
  BY <1>7, <1>8 DEF Sound
<1>. QED  BY <1>2, <1>3, <1>4, <1>5, <1>9, Applied

(* An update keeps the owner, and answers only for what it wrote. *)
LEMMA UpdateDiagramKeeps ==
  ASSUME PersistenceInv, NEW r \in wire, UpdateDiagram(r) PROVE PersistenceInv'
<1>1. Wire /\ Server /\ sent \in Nat /\ users \subseteq Sessions /\ raced \in BOOLEAN
  BY DEF PersistenceInv, Browser, Server
<1>2. /\ UNCHANGED <<canvas, current, jar, sent, users, raced, told>>
      /\ r.step = "owned" /\ r.op = "update" /\ r.session \in users /\ r.body \in Contents
      /\ r.op \in ById /\ r.id \in Ids
  BY <1>1, OnTheWire DEF UpdateDiagram, client, Staged, ById
<1>3. /\ records[r.id] # Unused
      /\ Held(r.id) => records[r.id].owner = r.session
  BY <1>1, <1>2, OnTheWire DEF Entitled, Passed
<1>4. CASE Held(r.id)
  <2> PICK s : s = Done(r)
    OBVIOUS
  <2>1. Write(r.id, r.session, r.body) /\ Step(r, s)
    BY <1>3, <1>4 DEF UpdateDiagram
  <2>0. Writable(r.id, r.session)
    BY <1>3, <1>4 DEF Writable
  <2>2. /\ Grows /\ Server' /\ \A i \in Ids : records[i] = Deleted => records'[i] = Deleted
        /\ records'[r.id] # Unused /\ [id |-> r.id, content |-> r.body] \in written'
    BY <1>1, <1>2, <2>0, <2>1, WriteFacts
  <2>3. s \in Request
    BY <1>1, OnTheWire DEF Request, Done
  <2>4. /\ s.step = "done" /\ s.session = r.session /\ s.op = "update" /\ s.n = r.n /\ s.fresh = r.fresh
        /\ s.id = r.id /\ s.body = r.body
    BY <1>1, <1>2, OnTheWire DEF Request, Done
  <2>5. Staged(s)'
    BY <1>1, <1>2, <2>4, OnTheWire DEF Staged, ById
  <2>6. Entitled(s)' /\ Truthful(s)'
    BY <1>2, <1>3, <2>2, <2>4 DEF Entitled, Passed, Truthful, ById, Grows
  <2>7. Sound(s)'
    BY <2>5, <2>6 DEF Sound
  <2>. QED  BY <1>2, <2>1, <2>2, <2>3, <2>7, Applied
<1>5. CASE ~Held(r.id)
  <2> PICK s : s = Failed(r, "raised")
    OBVIOUS
  <2>1. Step(r, s) /\ UNCHANGED <<records, written>>
    BY <1>5 DEF UpdateDiagram
  <2>2. s \in Request
    BY <1>1, OnTheWire DEF Request, Failed, Errors
  <2>3. /\ s.step = "done" /\ s.session = r.session /\ s.op = r.op /\ s.id = r.id /\ s.n = r.n
        /\ s.ok = r.ok /\ s.fresh = r.fresh
    BY <1>1, OnTheWire DEF Request, Failed
  <2>4. s.ok = FALSE
    BY <1>1, <1>2, <2>3, OnTheWire DEF Staged, Request
  <2>5. Staged(s)'
    BY <1>1, <1>2, <2>3, OnTheWire DEF Staged
  <2>6. Entitled(s)' /\ Truthful(s)'
    BY <2>3, <2>4 DEF Entitled, Passed, Truthful
  <2>7. Sound(s)'
    BY <2>5, <2>6 DEF Sound
  <2>. QED  BY <1>1, <1>2, <2>1, <2>2, <2>7, Answered
<1>. QED  BY <1>4, <1>5

(* A deletion leaves the others their records. *)
LEMMA DeleteDiagramKeeps ==
  ASSUME PersistenceInv, NEW r \in wire, DeleteDiagram(r) PROVE PersistenceInv'
<1>1. Wire /\ Server /\ sent \in Nat
  BY DEF PersistenceInv, Browser
<1>2. /\ UNCHANGED <<canvas, current, jar, sent, users, written, raced, told>>
      /\ r.step = "owned" /\ r.op = "delete" /\ r.session \in users
      /\ r.op \in ById /\ r.id \in Ids /\ records' = [records EXCEPT ![r.id] = Deleted]
  BY <1>1, OnTheWire DEF DeleteDiagram, client, Staged, ById
<1> PICK s : s = Done(r)
  OBVIOUS
<1>3. Step(r, s)
  BY DEF DeleteDiagram
<1>4. /\ records' \in [Ids -> [owner : users, content : Contents] \cup {Unused, Deleted}]
      /\ records'[r.id] = Deleted /\ Deleted # Unused
      /\ \A i \in Ids \ {r.id} : records'[i] = records[i]
  BY <1>1, <1>2, MarksAreNoRecords DEF Server
<1>5. Grows
  <2>1. ASSUME NEW i \in Ids, records[i] # Unused
        PROVE  /\ records'[i] # Unused
               /\ Held(i)' => Held(i) /\ records'[i].owner = records[i].owner
    BY <1>4, <2>1 DEF Held
  <2>. QED  BY <1>1, <1>2, <2>1 DEF Grows
<1>6. Server'
  <2>1. ASSUME NEW i \in Ids, Held(i)' PROVE [id |-> i, content |-> records'[i].content] \in written'
    BY <1>1, <1>2, <1>4, <2>1 DEF Server, Held
  <2>. QED  BY <1>1, <1>2, <1>4, <2>1 DEF Server
<1>7. s \in Request
  BY <1>1, OnTheWire DEF Request, Done
<1>8. /\ s.step = "done" /\ s.session = r.session /\ s.op = "delete" /\ s.n = r.n /\ s.fresh = r.fresh
      /\ s.id = r.id
  BY <1>1, <1>2, OnTheWire DEF Request, Done
<1>9. Staged(s)'
  BY <1>1, <1>2, <1>8, OnTheWire DEF Staged, ById
<1>10. Entitled(s)' /\ Truthful(s)'
  BY <1>4, <1>8 DEF Entitled, Passed, Truthful, Held
<1>11. Sound(s)'
  BY <1>9, <1>10 DEF Sound
<1>12. \A i \in Ids : records[i] = Deleted => records'[i] = Deleted
  BY <1>4
<1>. QED  BY <1>2, <1>3, <1>5, <1>6, <1>7, <1>11, <1>12, Applied
-----------------------------------------------------------------------------
(* The cookie an answer brings is a session of the backend. *)
LEMMA CookieKeeps ==
  ASSUME Wire, Browser, NEW r \in wire, Cookie(r) PROVE jar' \in users \cup {None}
BY OnTheWire DEF Cookie, Staged, Browser

(* An answer leaves the wire, and the backend does not move. *)
LEMMA Arrived ==
  ASSUME PersistenceInv, NEW r \in wire, wire' = wire \ {r}, UNCHANGED <<users, records, written, sent>>
  PROVE  Server' /\ Wire'
<1>1. Server /\ Wire /\ users \subseteq Sessions /\ sent \in Nat
  BY DEF PersistenceInv, Server, Browser
<1>2. Grows /\ Server'
  BY <1>1, Resting
<1>3. wire' \subseteq wire \cup {r} /\ r \notin wire'
  OBVIOUS
<1>. QED  BY <1>1, <1>2, <1>3, WireAfter

(* An answer that is applied: what it says was stored is stored. *)
LEMMA DeliverKeeps ==
  ASSUME PersistenceInv, NEW r \in wire, Deliver(r) PROVE PersistenceInv'
<1>1. /\ Wire /\ Browser /\ canvas \in Contents /\ current \in Ids \cup {None} /\ told \subseteq written
      /\ raced \in BOOLEAN
  BY DEF PersistenceInv, Browser, ToldMeansStored
<1>2. /\ UNCHANGED <<users, records, written, sent, raced>> /\ wire' = wire \ {r}
      /\ r.step = "done" /\ r.ok /\ Cookie(r)
  BY DEF Deliver, server, Saved, Updated, Loaded, Forgot
<1>3. Server' /\ Wire'
  BY <1>2, Arrived
<1>4. jar' \in users \cup {None}
  BY <1>1, <1>2, CookieKeeps
<1>5. /\ r.body \in Contents /\ Truthful(r)
      /\ r.op \in {"create", "update", "load"} =>
           /\ r.id \in Ids /\ records[r.id] # Unused
           /\ [id |-> r.id, content |-> r.body] \in written
  BY <1>1, <1>2, OnTheWire DEF Truthful
<1>6. CASE Saved(r)
  <2>1. /\ current' = r.id /\ told' = told \cup {[id |-> r.id, content |-> r.body]} /\ r.op = "create"
        /\ canvas' = canvas
    BY <1>6 DEF Saved, Told
  <2>2. Browser'
    BY <1>1, <1>2, <1>4, <1>5, <2>1 DEF Browser
  <2>3. ToldMeansStored'
    BY <1>1, <1>2, <1>5, <2>1 DEF ToldMeansStored
  <2>. QED  BY <1>3, <2>2, <2>3 DEF PersistenceInv
<1>7. CASE Updated(r)
  <2>1. /\ told' = told \cup {[id |-> r.id, content |-> r.body]} /\ r.op = "update"
        /\ UNCHANGED <<canvas, current>>
    BY <1>7 DEF Updated, Told
  <2>2. Browser'
    BY <1>1, <1>2, <1>4, <2>1 DEF Browser
  <2>3. ToldMeansStored'
    BY <1>1, <1>2, <1>5, <2>1 DEF ToldMeansStored
  <2>. QED  BY <1>3, <2>2, <2>3 DEF PersistenceInv
<1>8. CASE Loaded(r)
  <2>1. canvas' = r.body /\ current' = r.id /\ r.op = "load" /\ told' = told
    BY <1>8 DEF Loaded
  <2>2. Browser'
    BY <1>1, <1>2, <1>4, <1>5, <2>1 DEF Browser
  <2>3. ToldMeansStored'
    BY <1>1, <1>2, <2>1 DEF ToldMeansStored
  <2>. QED  BY <1>3, <2>2, <2>3 DEF PersistenceInv
<1>9. CASE Forgot(r)
  <2>1. /\ UNCHANGED <<canvas, told>> /\ (current' = current \/ current' = None)
    BY <1>9 DEF Forgot
  <2>2. Browser'
    BY <1>1, <1>2, <1>4, <2>1 DEF Browser
  <2>3. ToldMeansStored'
    BY <1>1, <1>2, <2>1 DEF ToldMeansStored
  <2>. QED  BY <1>3, <2>2, <2>3 DEF PersistenceInv
<1>. QED  BY <1>6, <1>7, <1>8, <1>9 DEF Deliver

(* The list is answered by a load, or by nothing. *)
LEMMA DeliverListKeeps ==
  ASSUME PersistenceInv, NEW r \in wire, DeliverList(r) PROVE PersistenceInv'
<1> USE DEF PersistenceInv
<1>1. /\ Wire /\ Browser /\ Server /\ canvas \in Contents /\ sent \in Nat /\ users \subseteq Sessions
      /\ r.id \in Ids \cup {None} /\ r.n \in Nat
  BY OnTheWire DEF Browser, Server
<1>2. /\ UNCHANGED <<canvas, current, users, records, written, told, raced>>
      /\ Cookie(r)
  BY DEF DeliverList, server
<1>3. jar' \in users \cup {None}
  BY <1>1, <1>2, CookieKeeps
<1>4. ToldMeansStored'
  BY <1>2 DEF ToldMeansStored
<1>5. CASE r.id = None
  <2>1. wire' = wire \ {r} /\ sent' = sent
    BY <1>5 DEF DeliverList
  <2>2. Server' /\ Wire'
    BY <1>2, <2>1, Arrived
  <2>3. Browser'
    BY <1>1, <1>2, <1>3, <2>1 DEF Browser
  <2>. QED  BY <1>4, <2>2, <2>3
<1>6. CASE r.id # None
  <2> PICK cookie \in Sessions \cup {None} : cookie = jar'
    BY <1>1, <1>3
  <2> PICK s : s = [Call("load", r.id) EXCEPT !.cookie = cookie]
    OBVIOUS
  <2>1. wire' = (wire \ {r}) \cup {s} /\ sent' = sent + 1 /\ r.id \in Ids
    BY <1>1, <1>6 DEF DeliverList
  <2> PICK c : c = Call("load", r.id)
    OBVIOUS
  <2>2. c \in Request /\ Sound(c)'
    BY <1>1, <1>2, <2>1, CallSound DEF ById
  <2>3. s = [c EXCEPT !.cookie = cookie]
    OBVIOUS
  <2>4. s \in Request
    BY <2>2, <2>3 DEF Request
  <2>5. /\ s.n = c.n /\ s.op = c.op /\ s.id = c.id /\ s.session = c.session /\ s.fresh = c.fresh
        /\ s.step = c.step /\ s.ok = c.ok /\ s.body = c.body
    BY <2>2, <2>3 DEF Request
  <2>6. Sound(s)'
    BY <2>2, <2>5 DEF Sound, Staged, Entitled, Passed, Truthful
  <2>7. Grows /\ Server'
    BY <1>1, <1>2, <2>1, Resting
  <2>8. Wire'
    <3>1. wire' \subseteq wire \cup {s} /\ sent' \in Nat
      BY <1>1, <2>1
    <3>. QED  BY <1>1, <2>4, <2>6, <2>7, <3>1, WireAfter
  <2>9. Browser'
    BY <1>1, <1>2, <1>3, <2>1 DEF Browser
  <2>. QED  BY <1>4, <2>7, <2>8, <2>9
<1>. QED  BY <1>5, <1>6

(* A refusal changes nothing but the cookie; a loss, not even that. *)
LEMMA RefusedKeeps ==
  ASSUME PersistenceInv, NEW r \in wire, Refused(r) \/ Lose(r) PROVE PersistenceInv'
<1>1. /\ Wire /\ Browser /\ jar \in users \cup {None} /\ raced \in BOOLEAN /\ r.fresh \in BOOLEAN
  BY OnTheWire DEF PersistenceInv, Browser, Request
<1>2. /\ UNCHANGED <<canvas, current, sent, users, records, written, told>>
      /\ wire' = wire \ {r} /\ raced' \in BOOLEAN
  BY <1>1 DEF Refused, Lose, server, client
<1>3. jar' \in users \cup {None}
  BY <1>1, CookieKeeps DEF Refused, Lose, client
<1>4. Server' /\ Wire'
  BY <1>2, Arrived
<1>5. Browser'
  BY <1>1, <1>2, <1>3 DEF Browser
<1>6. ToldMeansStored'
  BY <1>2 DEF PersistenceInv, ToldMeansStored
<1>. QED  BY <1>4, <1>5, <1>6 DEF PersistenceInv

(* Every reachable state satisfies the invariant. *)
LEMMA Inductive == Spec => []PersistenceInv
<1>1. PersistenceInv /\ [Next]_vars => PersistenceInv'
  <2> SUFFICES ASSUME PersistenceInv, [Next]_vars PROVE PersistenceInv'
    OBVIOUS
  <2>1. CASE User
    BY <2>1, UserKeeps
  <2>2. ASSUME NEW r \in wire, Backend(r) PROVE PersistenceInv'
    BY <2>2, OpenSessionKeeps, CreateDiagramKeeps, ListDiagramsKeeps, VerifyOwnershipKeeps,
       UpdateDiagramKeeps, DeleteDiagramKeeps DEF Backend
  <2>3. ASSUME NEW r \in wire, Network(r) PROVE PersistenceInv'
    BY <2>3, DeliverKeeps, DeliverListKeeps, RefusedKeeps DEF Network
  <2>4. CASE UNCHANGED vars
    BY <2>4 DEF vars, PersistenceInv, Server, Browser, Wire, Sound, Staged, Entitled, Passed, Truthful,
                ToldMeansStored, Held
  <2>. QED  BY <2>1, <2>2, <2>3, <2>4 DEF Next
<1>. QED  BY <1>1, Starts, PTL DEF Spec
-----------------------------------------------------------------------------
(* Ids and sessions in use were given out by the backend. *)
THEOREM TypeCorrect == Spec => []TypeOK
<1>1. PersistenceInv => TypeOK
  <2> SUFFICES ASSUME PersistenceInv PROVE TypeOK
    OBVIOUS
  <2>1. \A id \in Ids : Held(id) => records[id].owner \in users /\ records[id].content \in Contents
    BY HeldIsRecord DEF PersistenceInv
  <2>2. \A r \in wire : r.session \in users \cup {None} /\ r.n <= sent
    BY OnTheWire DEF PersistenceInv, Staged
  <2>. QED  BY <2>1, <2>2 DEF PersistenceInv, Browser, TypeOK
<1>. QED  BY <1>1, Inductive, PTL

(* Whatever the user was told is saved has been stored under that id: the  *)
(* answer of create_diagram and update_diagram never speaks of a write     *)
(* that did not happen, however requests overlap.                          *)
THEOREM ToldIsStored == Spec => []ToldMeansStored
<1>1. PersistenceInv => ToldMeansStored
  BY DEF PersistenceInv
<1>. QED  BY <1>1, Inductive, PTL

(* What the canvas shows stays the current record's through every step     *)
(* that leaves both alone and stores more.                                 *)
LEMMA StillJoined ==
  ASSUME Browser, Joined, canvas'.doc = canvas.doc, current' = current \/ current' = None,
         written \subseteq written', \A id \in Ids : records[id] = Deleted => records'[id] = Deleted
  PROVE  Joined'
BY DEF Browser, Joined, Shows

(* The backend only adds to what is stored, and a deletion is final. *)
LEMMA BackendAdds ==
  ASSUME Server, Wire, NEW r \in wire, Backend(r)
  PROVE  /\ UNCHANGED <<canvas, current>> /\ written \subseteq written'
         /\ \A id \in Ids : records[id] = Deleted => records'[id] = Deleted
<1>1. Unused # Deleted /\ records \in [Ids -> [owner : users, content : Contents] \cup {Unused, Deleted}]
  BY MarksAreNoRecords DEF Server
<1>2. CASE OpenSession(r) \/ ListDiagrams(r) \/ VerifyOwnership(r)
  BY <1>2 DEF OpenSession, ListDiagrams, VerifyOwnership, client, server
<1>3. CASE CreateDiagram(r)
  <2>1. PICK id \in Ids : records[id] = Unused /\ Write(id, r.session, r.body)
    BY <1>3 DEF CreateDiagram
  <2>. QED  BY <1>1, <1>3, <2>1 DEF CreateDiagram, Write, client
<1>4. CASE UpdateDiagram(r)
  BY <1>1, <1>4 DEF UpdateDiagram, Write, Held, client
<1>5. CASE DeleteDiagram(r)
  BY <1>1, <1>5 DEF DeleteDiagram, client
<1>. QED  BY <1>2, <1>3, <1>4, <1>5 DEF Backend

(* What an answer that sets the current record carries. *)
Carries(r) == \/ r.op = "load"
              \/ r.op = "create" /\ r.body.doc = canvas.doc

(* A load, and the answer to a save of the document that is still shown,   *)
(* bring them together: what they carry was stored under the id they set.  *)
LEMMA DeliverJoins ==
  ASSUME PersistenceInv, NEW r \in wire, Deliver(r), Carries(r)
  PROVE  Joined'
<1> USE DEF Carries
<1>1. [id |-> r.id, content |-> r.body] \in written
  BY OnTheWire DEF PersistenceInv, Truthful, Deliver
<1>2. current' = r.id /\ canvas'.doc = r.body.doc /\ written' = written
  BY DEF Deliver, Saved, Updated, Loaded, Forgot, server
<1> PICK w : w = [id |-> r.id, content |-> r.body]
  OBVIOUS
<1>3. w \in written' /\ w.id = current' /\ w.content.doc = canvas'.doc
  BY <1>1, <1>2
<1>. QED  BY <1>3 DEF Joined, Shows

(* The document shown and the record the next save goes to part in two     *)
(* steps only, however requests overlap: a new diagram is started, or the  *)
(* answer to a first save arrives when another document is shown.  A load  *)
(* always brings them together.                                            *)
THEOREM CurrentIsShown == Spec => CanvasIsCurrent
<1> DEFINE Keeps == /\ Joined => Joined' \/ NewDiagram \/ OtherSaved
                    /\ (\E r \in wire : Deliver(r) /\ r.op = "load") => Joined'
<1>1. PersistenceInv /\ [Next]_vars => Keeps
  <2>6. ASSUME PersistenceInv, NEW r \in wire, Deliver(r), r.op = "load" PROVE Joined'
    <3>1. Carries(r)
      BY <2>6 DEF Carries
    <3>. QED  BY <2>6, <3>1, DeliverJoins
  <2> SUFFICES ASSUME PersistenceInv, [Next]_vars, Joined PROVE Joined' \/ NewDiagram \/ OtherSaved
    BY <2>6
  <2>0. Browser /\ Server /\ Wire
    BY DEF PersistenceInv
  <2>1. CASE UNCHANGED vars
    BY <2>1 DEF vars, Joined, Shows
  <2>2. CASE User
    <3>1. CASE NewDiagram
      BY <3>1
    <3>2. CASE (\E v \in Versions : Edit(v)) \/ Save \/ List \/ \E id \in Ids : Delete(id)
      <4>1. canvas'.doc = canvas.doc /\ UNCHANGED <<current, records, written>>
        BY <2>0, <3>2 DEF Edit, Save, List, Delete, Send, Browser, Contents
      <4>. QED  BY <2>0, <4>1, StillJoined
    <3>. QED  BY <2>2, <3>1, <3>2 DEF User
  <2>3. ASSUME NEW r \in wire, Backend(r) PROVE Joined'
    BY <2>0, <2>3, BackendAdds, StillJoined
  <2>4. ASSUME NEW r \in wire, Deliver(r) PROVE Joined' \/ OtherSaved
    <3>1. CASE Saved(r) \/ Loaded(r)
      <4>1. r.op = "load" \/ r.op = "create"
        BY <3>1 DEF Saved, Loaded
      <4>2. CASE r.op = "create" /\ r.body.doc # canvas.doc
        BY <2>4, <4>2 DEF OtherSaved
      <4>3. CASE r.op = "load" \/ (r.op = "create" /\ r.body.doc = canvas.doc)
        <5>1. Carries(r)
          BY <4>3 DEF Carries
        <5>2. Joined'
          BY <2>4, <5>1, DeliverJoins
        <5>. QED  BY <5>2
      <4>. QED  BY <4>1, <4>2, <4>3
    <3>2. CASE Updated(r) \/ Forgot(r)
      <4>1. canvas' = canvas /\ (current' = current \/ current' = None) /\ UNCHANGED <<records, written>>
        BY <2>4, <3>2 DEF Deliver, Updated, Forgot, server
      <4>. QED  BY <2>0, <4>1, StillJoined
    <3>. QED  BY <2>4, <3>1, <3>2 DEF Deliver
  <2>5. ASSUME NEW r \in wire, DeliverList(r) \/ Refused(r) \/ Lose(r) PROVE Joined'
    <3>1. UNCHANGED <<canvas, current, records, written>>
      BY <2>5 DEF DeliverList, Refused, Lose, client, server
    <3>. QED  BY <2>0, <3>1, StillJoined
  <2>. QED  BY <2>1, <2>2, <2>3, <2>4, <2>5 DEF Next, Network
<1> HIDE DEF Keeps
<1>2. Spec => [][Keeps]_vars
  BY <1>1, Inductive, PTL DEF Spec
<1>. QED  BY <1>2, PTL DEF Keeps, CanvasIsCurrent

(* verify_ownership is enough: what it found holds until the handler ends, *)
(* although other requests run between its read and the handler's write.   *)
THEOREM OwnersOnly == Spec => []OnlyOwners
<1>1. PersistenceInv => OnlyOwners
  <2> SUFFICES ASSUME PersistenceInv, NEW r \in wire, r.op \in {"update", "load", "delete"},
                      r.step = "owned" \/ r.ok, Held(r.id)
               PROVE  records[r.id].owner = r.session
    BY DEF OnlyOwners
  <2>. QED  BY OnTheWire DEF PersistenceInv, Entitled, Passed, ById
<1>. QED  BY <1>1, Inductive, PTL
-----------------------------------------------------------------------------
(* A request that carries a new cookie goes on carrying it. *)
LEMMA FreshStays ==
  ASSUME Cookies, NEW r \in wire, NEW s, Step(r, s), s.fresh = r.fresh, UNCHANGED <<jar, users, raced>>
  PROVE  Cookies'
<1>1. (\E q \in wire : q.fresh) => \E q \in wire' : q.fresh
  BY DEF Step
<1>. QED  BY <1>1 DEF Cookies

(* The handlers keep the cookie a request carries. *)
LEMMA HandlersKeepCookies ==
  ASSUME Wire, Cookies, NEW r \in wire,
         CreateDiagram(r) \/ ListDiagrams(r) \/ VerifyOwnership(r) \/ UpdateDiagram(r) \/ DeleteDiagram(r)
  PROVE  Cookies'
<1>1. r \in Request
  BY OnTheWire
<1>2. UNCHANGED <<jar, users, raced>>
  BY DEF CreateDiagram, ListDiagrams, VerifyOwnership, UpdateDiagram, DeleteDiagram, client, server
<1> DEFINE named(id) == [Done(r) EXCEPT !.id = id]
           loaded == [Done(r) EXCEPT !.body = records[r.id].content]
<1>3. /\ Done(r).fresh = r.fresh /\ \A e : Failed(r, e).fresh = r.fresh
      /\ \A id : named(id).fresh = r.fresh
      /\ loaded.fresh = r.fresh /\ [r EXCEPT !.step = "owned"].fresh = r.fresh
  BY <1>1 DEF Request, Done, Failed
<1>4. CASE CreateDiagram(r) \/ ListDiagrams(r)
  <2>1. \E id : Step(r, named(id))
    BY <1>4 DEF CreateDiagram, ListDiagrams
  <2> HIDE DEF named
  <2>. QED  BY <1>2, <1>3, <2>1, FreshStays
<1>5. CASE VerifyOwnership(r)
  <2>1. \/ Step(r, Failed(r, "404")) \/ Step(r, Failed(r, "403")) \/ Step(r, loaded)
        \/ Step(r, [r EXCEPT !.step = "owned"])
    BY <1>5 DEF VerifyOwnership
  <2> DEFINE owned == [r EXCEPT !.step = "owned"]
  <2>2. /\ Failed(r, "404").fresh = r.fresh /\ Failed(r, "403").fresh = r.fresh
        /\ loaded.fresh = r.fresh /\ owned.fresh = r.fresh
    BY <1>3
  <2>3. Step(r, Failed(r, "404")) \/ Step(r, Failed(r, "403")) \/ Step(r, loaded) \/ Step(r, owned)
    BY <2>1
  <2> HIDE DEF named, loaded, owned
  <2>. QED  BY <1>2, <2>2, <2>3, FreshStays
<1>6. CASE UpdateDiagram(r) \/ DeleteDiagram(r)
  <2>1. Step(r, Done(r)) \/ Step(r, Failed(r, "raised"))
    BY <1>6 DEF UpdateDiagram, DeleteDiagram
  <2> HIDE DEF named, loaded
  <2>. QED  BY <1>2, <1>3, <2>1, FreshStays
<1>. QED  BY <1>4, <1>5, <1>6

(* Until a second session is made, the one session is in the jar or on its *)
(* way there.                                                              *)
LEMMA CookiesKeep ==
  ASSUME PersistenceInv, Cookies, [Next]_vars PROVE Cookies'
<1>1. Wire /\ jar \in users \cup {None} /\ users \subseteq Sessions /\ raced \in BOOLEAN
  BY DEF PersistenceInv, Browser, Server
<1>2. CASE User
  <2>1. UNCHANGED <<jar, users, raced>> /\ wire \subseteq wire'
    BY <1>2 DEF User, Edit, NewDiagram, Save, List, Delete, Send
  <2>. QED  BY <2>1 DEF Cookies
<1>3. ASSUME NEW r \in wire, OpenSession(r) PROVE Cookies'
  <2>0. r \in Request /\ jar' = jar
    BY <1>1, <1>3, OnTheWire DEF OpenSession, client
  <2>1. CASE r.cookie \in users
    <3> PICK s : s = [r EXCEPT !.step = "open", !.session = r.cookie]
      OBVIOUS
    <3>1. Step(r, s) /\ UNCHANGED <<users, raced>>
      BY <1>3, <2>1 DEF OpenSession
    <3>2. s.fresh = r.fresh
      BY <2>0 DEF Request
    <3>. QED  BY <2>0, <3>1, <3>2, FreshStays
  <2>2. CASE r.cookie \notin users
    <3>1. PICK new \in Sessions \ users : users' = users \cup {new} /\ Step(r, Opened(r, new))
      BY <1>3, <2>2 DEF OpenSession
    <3>2. raced' = (raced \/ users # {})
      BY <1>3, <2>2 DEF OpenSession
    <3> PICK s : s = Opened(r, new)
      OBVIOUS
    <3>3. s.fresh = TRUE /\ s \in wire'
      BY <2>0, <3>1 DEF Request, Opened, Step
    <3>4. ~raced' => \A a, b \in users' : a = b
      BY <3>1, <3>2
    <3>. QED  BY <3>3, <3>4 DEF Cookies
  <2>. QED  BY <2>1, <2>2
<1>4. ASSUME NEW r \in wire, Network(r) PROVE Cookies'
  <2>1. users' = users /\ \A q \in wire : q # r => q \in wire'
    BY <1>4 DEF Network, Deliver, DeliverList, Refused, Lose, server
  <2>2. r.fresh => r.session \in users
    BY <1>1, OnTheWire DEF Staged
  <2>3. CASE Cookie(r) /\ raced' = raced
    <3>1. CASE r.fresh
      BY <2>1, <2>2, <2>3, <3>1 DEF Cookie, Cookies
    <3>2. CASE ~r.fresh
      BY <2>1, <2>3, <3>2 DEF Cookie, Cookies
    <3>. QED  BY <3>1, <3>2
  <2>4. CASE jar' = jar /\ raced' = (raced \/ r.fresh)
    BY <2>1, <2>4 DEF Cookies
  <2>. QED  BY <1>4, <2>3, <2>4 DEF Network, Deliver, Saved, Updated, Loaded, Forgot, DeliverList,
                                    Refused, Lose, client
<1>5. CASE UNCHANGED vars
  BY <1>5 DEF vars, Cookies
<1>. QED  BY <1>1, <1>2, <1>3, <1>4, <1>5, HandlersKeepCookies DEF Next, Backend

(* Every record of this browser can still be listed with its cookie,       *)
(* unless two requests were sent before the first cookie came back or the  *)
(* answer that carried it was lost.                                        *)
THEOREM SavedIsListed == Spec => []SavedIsListedUnlessRaced
<1>1. Init => Cookies
  BY DEF Init, Cookies
<1>2. PersistenceInv /\ Cookies /\ [Next]_vars => Cookies'
  BY CookiesKeep
<1>3. PersistenceInv /\ Cookies => SavedIsListedUnlessRaced
  <2> SUFFICES ASSUME PersistenceInv, Cookies, wire = {}, ~raced, NEW id \in Ids, Held(id)
               PROVE  records[id].owner = jar
    BY DEF SavedIsListedUnlessRaced
  <2>1. records[id].owner \in users
    BY HeldIsRecord DEF PersistenceInv
  <2>. QED  BY <2>1 DEF Cookies
<1>. QED  BY <1>1, <1>2, <1>3, Inductive, PTL DEF Spec
-----------------------------------------------------------------------------
(* A write is a creation or an update of the library. *)
LEMMA WriteImplements ==
  ASSUME Server, NEW id \in Ids, NEW owner \in users, NEW content \in Contents,
         Write(id, owner, content), Writable(id, owner)
  PROVE  Library!Next
<1>1. records' = [records EXCEPT ![id] = [owner |-> owner, content |-> content]] /\ owner \in Sessions
  BY DEF Write, Server
<1>2. CASE records[id] = Unused
  <2> PICK r \in Library!Record : r = [owner |-> owner, content |-> content]
    BY <1>1 DEF Library!Record
  <2>1. Library!Create(id)
    BY <1>1, <1>2 DEF Library!Create
  <2>. QED  BY <2>1 DEF Library!Next
<1>3. CASE Held(id) /\ records[id].owner = owner
  <2>1. records[id] \in [owner : users, content : Contents]
    BY <1>3, HeldIsRecord
  <2>2. [records[id] EXCEPT !.content = content] = [owner |-> owner, content |-> content]
    BY <1>3, <2>1
  <2>3. records' = [records EXCEPT ![id] = [records[id] EXCEPT !.content = content]]
    BY <1>1, <2>2
  <2>4. Library!Update(id)
    BY <1>3, <2>3 DEF Library!Update, Library!Held, Held
  <2>. QED  BY <2>4 DEF Library!Next
<1>. QED  BY <1>2, <1>3 DEF Writable

(* The endpoints, with all their requests and sessions, are a library of   *)
(* records that never change hands and of ids that are never given out     *)
(* twice: every step creates, updates or deletes one record, or none.      *)
THEOREM EndpointsImplementLibrary == Spec => ImplementsLibrary
<1>1. Init => Library!Init
  BY DEF Init, Library!Init
<1>2. PersistenceInv /\ [Next]_vars => [Library!Next]_records
  <2> SUFFICES ASSUME PersistenceInv, [Next]_vars PROVE Library!Next \/ records' = records
    OBVIOUS
  <2> Server /\ Wire
    BY DEF PersistenceInv
  <2>1. ASSUME NEW r \in wire, CreateDiagram(r) PROVE Library!Next
    <3> DEFINE answer(id) == [Done(r) EXCEPT !.id = id]
    <3>1. PICK id \in Ids : records[id] = Unused /\ Write(id, r.session, r.body) /\ Step(r, answer(id))
      BY <2>1 DEF CreateDiagram
    <3> HIDE DEF answer
    <3>2. Write(id, r.session, r.body) /\ Writable(id, r.session)
      BY <3>1 DEF Writable
    <3>3. r.session \in users /\ r.body \in Contents
      BY <2>1, OnTheWire DEF CreateDiagram, Staged
    <3>. QED  BY <3>2, <3>3, WriteImplements
  <2>2. ASSUME NEW r \in wire, UpdateDiagram(r) PROVE Library!Next \/ records' = records
    <3>1. r.session \in users /\ r.body \in Contents /\ r.id \in Ids
      BY <2>2, OnTheWire DEF UpdateDiagram, Staged, ById
    <3>2. CASE Held(r.id)
      <4>1. Write(r.id, r.session, r.body) /\ Writable(r.id, r.session)
        BY <2>2, <3>2, OnTheWire DEF UpdateDiagram, Entitled, Passed, Writable, ById
      <4>. QED  BY <3>1, <4>1, WriteImplements
    <3>3. CASE ~Held(r.id)
      BY <2>2, <3>3 DEF UpdateDiagram
    <3>. QED  BY <3>2, <3>3
  <2>3. ASSUME NEW r \in wire, DeleteDiagram(r) PROVE Library!Next \/ records' = records
    <3>1. r.id \in Ids /\ records[r.id] # Unused /\ records' = [records EXCEPT ![r.id] = Deleted]
      BY <2>3, OnTheWire DEF DeleteDiagram, Staged, Entitled, Passed, ById
    <3>2. CASE Held(r.id)
      BY <3>1, <3>2 DEF Library!Next, Library!Delete, Library!Held, Held
    <3>3. CASE records[r.id] = Deleted
      BY <3>1, <3>3 DEF Server
    <3>. QED  BY <3>1, <3>2, <3>3 DEF Held
  <2>4. CASE User
    BY <2>4 DEF User, Edit, NewDiagram, Save, List, Delete, Send
  <2>5. ASSUME NEW r \in wire, Network(r) PROVE records' = records
    BY <2>5 DEF Network, Deliver, DeliverList, Refused, Lose, server
  <2>6. ASSUME NEW r \in wire, OpenSession(r) \/ ListDiagrams(r) \/ VerifyOwnership(r)
        PROVE  records' = records
    BY <2>6 DEF OpenSession, ListDiagrams, VerifyOwnership, server
  <2>7. CASE UNCHANGED vars
    BY <2>7 DEF vars
  <2>. QED  BY <2>1, <2>2, <2>3, <2>4, <2>5, <2>6, <2>7 DEF Next, Backend
<1>. QED  BY <1>1, <1>2, Inductive, PTL DEF Spec, ImplementsLibrary, Library!Spec
=============================================================================
