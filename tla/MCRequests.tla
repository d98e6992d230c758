---------------------------- MODULE MCRequests ------------------------------
(* The queues of requests of the store that work on their own: the naming   *)
(* of new blocks, the previews of connections, and the edits of routes.     *)
(* They share no state, so one of them moves and the others rest.           *)
EXTENDS ResourceInit, ConnectionPreview, LinkedEntries

CONSTANT MaxMoves   \* bound: what the user does in one behaviour of the naming

VARIABLES moving,   \* which of them this behaviour is about
          moves     \* what the user has done so far

MCPair == [b \in Blocks |-> "lambda"]

(* A new diagram, and one that was saved earlier with a block in it. *)
MCSaved == "c" :> [name |-> Named("lambda", 1), config |-> "user"]
MCDocuments == {[b \in Blocks |-> Absent],
                [b \in Blocks |-> IF b \in DOMAIN MCSaved THEN MCSaved[b] ELSE Absent]}

MCTarget == "c1" :> "t1" @@ "c2" :> "t2"

AllInit ==
    /\ Init /\ PreviewInit /\ LinkedInit
    /\ moving \in {"naming", "preview", "linked"} /\ moves = 0

(* Only the chain and the answers change what is on the wire; the rest is the user. *)
Moves == moves' = (IF asked' = asked THEN moves + 1 ELSE moves) /\ moves' <= MaxMoves

NamingMoves(A) == moving = "naming" /\ A /\ Moves /\ UNCHANGED <<previewVars, linkedVars, moving>>
PreviewMoves(A) == moving = "preview" /\ A /\ UNCHANGED <<vars, linkedVars, moving, moves>>
LinkedMoves(A) == moving = "linked" /\ A /\ UNCHANGED <<vars, previewVars, moving, moves>>

AllNext == NamingMoves(Next) \/ PreviewMoves(PreviewNext) \/ LinkedMoves(LinkedNext)

allVars == <<vars, previewVars, linkedVars, moving, moves>>

(* The runtime runs the chain, fires the timer and ends every request. *)
Fairness ==
    /\ WF_allVars(NamingMoves(Ask))
    /\ WF_allVars(NamingMoves(Answer \/ Refuse \/ Reject))
    /\ WF_allVars(PreviewMoves(Refresh))
    /\ WF_allVars(PreviewMoves(\E r \in wire : Ends(r)))

AllSpec == AllInit /\ [][AllNext]_allVars /\ Fairness
=============================================================================
