------------------------- MODULE ConnectionPreview --------------------------
(***************************************************************************)
(* The previews of what each connection will generate.  Every change of    *)
(* the diagram re-arms a timer; when it fires the whole diagram is sent.   *)
(* Nothing cancels a request that is already on the wire, and an answer is *)
(* applied when it arrives, whichever request it belongs to.               *)
(***************************************************************************)
EXTENDS Naturals, FiniteSets, Functions

CONSTANTS Connectors,   \* ids of the connectors the user may draw
          Kinds,        \* connection types
          Configs,      \* configurations of a connector
          MaxSent       \* bound: refreshes sent

VARIABLES drawn,      \* id -> [kind, config] of the connectors on the canvas
          timer,      \* the debounce timer is armed
          sent,       \* refreshes sent so far
          wire,       \* requests on the wire: [n, drawn]
          previews,   \* id -> the configuration the shown preview was computed from
          status,
          applied,    \* the refresh whose result is shown
          rejected    \* a request has rejected

previewVars == <<drawn, timer, sent, wire, previews, status, applied, rejected>>

Connector == [kind : Kinds, config : Configs]
Empty == [i \in {} |-> 0]

(* What the previews of a diagram are. *)
Expected(d) == [i \in DOMAIN d |-> d[i].config]

PreviewInit ==
  /\ drawn = Empty /\ timer = TRUE /\ sent = 0 /\ wire = {}
  /\ previews = Empty /\ status = "idle" /\ applied = 0 /\ rejected = FALSE

(* Fault: a change made while a request is on the wire does not arm the timer. *)
FaultChanged(d) == /\ drawn' = d /\ d # drawn
                   /\ timer' = (status # "loading" \/ timer)
                   /\ UNCHANGED <<sent, wire, previews, status, applied, rejected>>

(* The effect that depends on the diagram clears the timer and sets a new one. *)
Changed(d) == /\ drawn' = d /\ d # drawn
              /\ timer' = TRUE
              /\ UNCHANGED <<sent, wire, previews, status, applied, rejected>>

Draw(i) == i \notin DOMAIN drawn /\ \E c \in Connector :
             Changed([j \in DOMAIN drawn \cup {i} |-> IF j = i THEN c ELSE drawn[j]])
Change(i) == i \in DOMAIN drawn /\ \E c \in Connector : Changed([drawn EXCEPT ![i] = c])

Erase(i) == i \in DOMAIN drawn /\ Changed(Restrict(drawn, DOMAIN drawn \ {i}))

(* refresh, called by the timer. *)
Refresh ==
  /\ timer /\ sent < MaxSent
  /\ timer' = FALSE
  /\ sent' = sent + 1
  /\ IF drawn = Empty
     THEN /\ previews' = Empty /\ status' = "ready" /\ applied' = sent'
          /\ UNCHANGED wire
     ELSE /\ status' = "loading"
          /\ wire' = wire \cup {[n |-> sent', drawn |-> drawn]}
          /\ UNCHANGED <<previews, applied>>
  /\ UNCHANGED <<drawn, rejected>>

(* Fault: the previews of removed connectors are kept. *)
FaultMatched(d) == Expected(d)

(* matchConnector: the answer is matched to the connectors drawn now. *)
Matched(d) ==
  Expected(Restrict(d, {i \in DOMAIN d \cap DOMAIN drawn : d[i].kind = drawn[i].kind}))

PreviewAnswer(r) ==
  /\ r \in wire
  /\ wire' = wire \ {r}
  /\ previews' = Matched(r.drawn) /\ status' = "ready" /\ applied' = r.n
  /\ UNCHANGED <<drawn, timer, sent, rejected>>

(* Fault: a refusal leaves the old previews and the old status. *)
FaultPreviewRefuse(r) ==
  /\ r \in wire /\ wire' = wire \ {r} /\ applied' = r.n
  /\ UNCHANGED <<drawn, timer, sent, rejected, previews, status>>

PreviewRefuse(r) ==
  /\ r \in wire
  /\ wire' = wire \ {r}
  /\ previews' = Empty /\ status' = "unavailable" /\ applied' = r.n
  /\ UNCHANGED <<drawn, timer, sent, rejected>>

(* The request rejects: nothing after the await runs. *)
PreviewReject(r) ==
  /\ r \in wire
  /\ wire' = wire \ {r} /\ rejected' = TRUE
  /\ UNCHANGED <<drawn, timer, sent, previews, status, applied>>

User == \E i \in Connectors : Draw(i) \/ Change(i) \/ Erase(i)
Ends(r) == PreviewAnswer(r) \/ PreviewRefuse(r) \/ PreviewReject(r)
PreviewNext == User \/ Refresh \/ \E r \in wire : Ends(r)

PreviewSpec == PreviewInit /\ [][PreviewNext]_previewVars
-----------------------------------------------------------------------------
(* The shown previews belong to known connectors and to a refresh that was sent. *)
PreviewTypeOK ==
  /\ drawn \in UNION {[D -> Connector] : D \in SUBSET Connectors}
  /\ DOMAIN previews \subseteq Connectors
  /\ status \in {"idle", "loading", "ready", "unavailable"}
  /\ \A r \in wire : r.n \in 1..sent
  /\ applied \in 0..sent

(* Nothing is armed, on the wire or failed: what is shown is meant to last. *)
Settled == ~timer /\ wire = {} /\ status = "ready"

(* The previews shown are those of the diagram on the canvas. *)
InStep == Settled => previews = Expected(drawn)

(* Out of step only when an older answer arrived after a newer one. *)
InStepUnlessOvertaken == Settled /\ applied = sent => previews = Expected(drawn)

(* Even then every preview shown is one of a connector that is drawn. *)
NoGhostPreview == Settled => DOMAIN previews \subseteq DOMAIN drawn

(* The panel does not load for ever, unless a request has rejected. *)
LoadingEnds == status = "loading" ~> (status # "loading" \/ rejected)
=============================================================================
