----------------------- MODULE ConnectionPreview_proofs -----------------------
(***************************************************************************)
(* Proofs about ConnectionPreview, for any connectors, kinds and           *)
(* configurations, and any number of refreshes, answered in any order.     *)
(* The argument: while the timer is not armed nothing was drawn since the  *)
(* last refresh, so the request that carries its number carries what is    *)
(* drawn (Latest); whatever is shown from another request is at least cut  *)
(* down to what was drawn when it arrived (Known).                         *)
(***************************************************************************)
EXTENDS ConnectionPreview, TLAPS

Diagrams == UNION {[D -> Connector] : D \in SUBSET Connectors}

(* Requests are numbered, and previews belong to connectors. *)
Numbered ==
  /\ drawn \in Diagrams /\ DOMAIN previews \subseteq Connectors
  /\ sent \in Nat /\ applied \in 0..sent
  /\ status \in {"idle", "loading", "ready", "unavailable"}
  /\ \A r \in wire : r.n \in 1..sent /\ r.drawn \in Diagrams

(* The last request carries what is drawn. *)
Latest == ~timer => \A r \in wire : r.n = sent => r.drawn = drawn

(* Shown from the last refresh, the previews are those of what is drawn. *)
Shown == ~timer /\ status = "ready" /\ applied = sent => previews = Expected(drawn)

(* Shown from any refresh, they are previews of what is drawn. *)
Known == ~timer /\ status = "ready" => DOMAIN previews \subseteq DOMAIN drawn

PreviewInv == Numbered /\ Latest /\ Shown /\ Known

(* matchConnector keeps nothing that is not drawn, and nothing unasked. *)
LEMMA MatchedDomain ==
  ASSUME NEW d PROVE DOMAIN Matched(d) \subseteq DOMAIN drawn \cap DOMAIN d
BY DEF Matched, Expected, Restrict

(* The answer about what is drawn is what is expected. *)
LEMMA MatchedSame == drawn \in Diagrams => Matched(drawn) = Expected(drawn)
<1> SUFFICES ASSUME drawn \in Diagrams PROVE Matched(drawn) = Expected(drawn)
  OBVIOUS
<1>1. PICK D \in SUBSET Connectors : drawn \in [D -> Connector]
  BY DEF Diagrams
<1> DEFINE S == {i \in DOMAIN drawn \cap DOMAIN drawn : drawn[i].kind = drawn[i].kind}
<1>2. S = DOMAIN drawn
  OBVIOUS
<1>3. Restrict(drawn, S) = drawn
  BY <1>1, <1>2 DEF Restrict
<1>. QED  BY <1>3 DEF Matched

(* No connector, no preview. *)
LEMMA EmptyFacts ==
  Empty \in Diagrams /\ Expected(Empty) = Empty /\ DOMAIN Empty = {}
<1>1. DOMAIN Empty = {}
  BY DEF Empty
<1>2. Empty \in [{} -> Connector]
  BY DEF Empty
<1>3. Expected(Empty) = Empty
  BY <1>1 DEF Expected, Empty
<1>. QED  BY <1>1, <1>2, <1>3 DEF Diagrams

(* A change of the drawing arms the timer. *)
LEMMA ChangedKeeps ==
  ASSUME PreviewInv, NEW d \in Diagrams, Changed(d) PROVE PreviewInv'
<1>1. timer' = TRUE /\ drawn' = d /\ UNCHANGED <<sent, wire, previews, status, applied>>
  BY DEF Changed
<1>2. Numbered'
  BY <1>1 DEF PreviewInv, Numbered
<1>. QED  BY <1>1, <1>2 DEF PreviewInv, Latest, Shown, Known

(* What the user draws is a diagram. *)
LEMMA UserKeeps == ASSUME PreviewInv, User PROVE PreviewInv'
<1>1. PICK D \in SUBSET Connectors : drawn \in [D -> Connector]
  BY DEF PreviewInv, Numbered, Diagrams
<1>2. PICK i \in Connectors : Draw(i) \/ Change(i) \/ Erase(i)
  BY DEF User
<1>3. CASE Draw(i)
  <2>1. PICK c \in Connector :
          Changed([j \in DOMAIN drawn \cup {i} |-> IF j = i THEN c ELSE drawn[j]])
    BY <1>3 DEF Draw
  <2>2. [j \in D \cup {i} |-> IF j = i THEN c ELSE drawn[j]] \in [D \cup {i} -> Connector]
    BY <1>1
  <2>3. [j \in DOMAIN drawn \cup {i} |-> IF j = i THEN c ELSE drawn[j]] \in Diagrams
    BY <1>1, <2>2 DEF Diagrams
  <2>. QED  BY <2>1, <2>3, ChangedKeeps
<1>4. CASE Change(i)
  <2>1. PICK c \in Connector : Changed([drawn EXCEPT ![i] = c])
    BY <1>4 DEF Change
  <2>2. [drawn EXCEPT ![i] = c] \in [D -> Connector]
    BY <1>1
  <2>3. [drawn EXCEPT ![i] = c] \in Diagrams
    BY <2>2 DEF Diagrams
  <2>. QED  BY <2>1, <2>3, ChangedKeeps
<1>5. CASE Erase(i)
  <2>1. Changed(Restrict(drawn, DOMAIN drawn \ {i}))
    BY <1>5 DEF Erase
  <2>2. Restrict(drawn, DOMAIN drawn \ {i}) \in [D \ {i} -> Connector]
    BY <1>1 DEF Restrict
  <2>3. Restrict(drawn, DOMAIN drawn \ {i}) \in Diagrams
    BY <2>2 DEF Diagrams
  <2>. QED  BY <2>1, <2>3, ChangedKeeps
<1>. QED  BY <1>2, <1>3, <1>4, <1>5

(* A refresh takes the drawing as it is, and numbers it last. *)
LEMMA RefreshKeeps == ASSUME PreviewInv, Refresh PROVE PreviewInv'
<1>1. sent \in Nat /\ sent' = sent + 1 /\ drawn' = drawn /\ drawn \in Diagrams
  BY DEF Refresh, PreviewInv, Numbered
<1>2. CASE drawn = Empty
  <2>1. previews' = Empty /\ applied' = sent' /\ wire' = wire
    BY <1>2 DEF Refresh
  <2>2. Numbered'
    BY <1>1, <2>1, <1>2, EmptyFacts DEF PreviewInv, Numbered, Refresh
  <2>3. Latest'
    BY <1>1, <2>1 DEF Latest, PreviewInv, Numbered
  <2>4. Shown' /\ Known'
    BY <1>1, <1>2, <2>1, EmptyFacts DEF Shown, Known
  <2>. QED  BY <2>2, <2>3, <2>4 DEF PreviewInv
<1>3. CASE drawn # Empty
  <2>1. /\ status' = "loading" /\ UNCHANGED <<previews, applied>>
        /\ wire' = wire \cup {[n |-> sent', drawn |-> drawn]}
    BY <1>3 DEF Refresh
  <2>2. Numbered'
    BY <1>1, <2>1 DEF PreviewInv, Numbered
  <2>3. Latest'
    BY <1>1, <2>1 DEF Latest, PreviewInv, Numbered
  <2>4. Shown' /\ Known'
    BY <2>1 DEF Shown, Known
  <2>. QED  BY <2>2, <2>3, <2>4 DEF PreviewInv
<1>. QED  BY <1>2, <1>3

(* However a request ends, what it leaves on the panel is drawn. *)
LEMMA EndsKeeps == ASSUME PreviewInv, NEW r \in wire, Ends(r) PROVE PreviewInv'
<1>1. /\ wire' = wire \ {r} /\ UNCHANGED <<drawn, timer, sent>>
      /\ r.n \in 1..sent /\ sent \in Nat /\ drawn \in Diagrams /\ r.drawn \in Diagrams
  BY DEF Ends, PreviewAnswer, PreviewRefuse, PreviewReject, PreviewInv, Numbered
<1>2. Latest'
  BY <1>1 DEF PreviewInv, Latest
<1>3. CASE PreviewAnswer(r)
  <2>1. previews' = Matched(r.drawn) /\ status' = "ready" /\ applied' = r.n
    BY <1>3 DEF PreviewAnswer
  <2>2. DOMAIN previews' \subseteq DOMAIN drawn
    BY <2>1, MatchedDomain
  <2>3. DOMAIN drawn \subseteq Connectors
    BY <1>1 DEF Diagrams
  <2>4. Numbered'
    BY <1>1, <2>1, <2>2, <2>3 DEF PreviewInv, Numbered
  <2>5. Shown'
    <3> SUFFICES ASSUME ~timer, r.n = sent PROVE Matched(r.drawn) = Expected(drawn)
      BY <1>1, <2>1 DEF Shown, Expected
    <3>1. r.drawn = drawn
      BY DEF PreviewInv, Latest
    <3>. QED  BY <1>1, <3>1, MatchedSame
  <2>. QED  BY <1>1, <1>2, <2>2, <2>4, <2>5 DEF PreviewInv, Known
<1>4. CASE PreviewRefuse(r)
  <2>1. previews' = Empty /\ status' = "unavailable" /\ applied' = r.n
    BY <1>4 DEF PreviewRefuse
  <2>2. Numbered'
    BY <1>1, <2>1, EmptyFacts DEF PreviewInv, Numbered
  <2>. QED  BY <1>2, <2>1, <2>2 DEF PreviewInv, Shown, Known
<1>5. CASE PreviewReject(r)
  <2>1. UNCHANGED <<previews, status, applied>>
    BY <1>5 DEF PreviewReject
  <2>2. Numbered'
    BY <1>1, <2>1 DEF PreviewInv, Numbered
  <2>. QED  BY <1>1, <1>2, <2>1, <2>2 DEF PreviewInv, Shown, Known, Expected
<1>. QED  BY <1>3, <1>4, <1>5 DEF Ends

(* Every reachable state satisfies the invariant. *)
LEMMA Inductive == PreviewSpec => []PreviewInv
<1>1. PreviewInit => PreviewInv
  BY EmptyFacts DEF PreviewInit, PreviewInv, Numbered, Latest, Shown, Known
<1>2. PreviewInv /\ [PreviewNext]_previewVars => PreviewInv'
  <2> SUFFICES ASSUME PreviewInv, [PreviewNext]_previewVars PROVE PreviewInv'
    OBVIOUS
  <2>1. CASE UNCHANGED previewVars
    BY <2>1 DEF previewVars, PreviewInv, Numbered, Latest, Shown, Known, Expected
  <2>. QED  BY <2>1, UserKeeps, RefreshKeeps, EndsKeeps DEF PreviewNext
<1>. QED  BY <1>1, <1>2, PTL DEF PreviewSpec
-----------------------------------------------------------------------------
(* Requests and previews have their types, however many are on the wire. *)
THEOREM PreviewTypeCorrect == PreviewSpec => []PreviewTypeOK
<1>1. PreviewInv => PreviewTypeOK
  BY DEF PreviewInv, Numbered, PreviewTypeOK, Diagrams
<1>. QED  BY <1>1, Inductive, PTL

(* When nothing is armed, on the wire or failed and the last refresh is    *)
(* the one applied, the panel shows what the drawn connectors generate.    *)
THEOREM PanelInStep == PreviewSpec => []InStepUnlessOvertaken
<1>1. PreviewInv => InStepUnlessOvertaken
  BY DEF PreviewInv, Shown, InStepUnlessOvertaken, Settled
<1>. QED  BY <1>1, Inductive, PTL

(* Even an answer that overtook a newer one leaves no preview of a         *)
(* connector that is not drawn: matchConnector looks at the canvas of now. *)
THEOREM NoGhosts == PreviewSpec => []NoGhostPreview
<1>1. PreviewInv => NoGhostPreview
  BY DEF PreviewInv, Known, NoGhostPreview, Settled
<1>. QED  BY <1>1, Inductive, PTL
=============================================================================
