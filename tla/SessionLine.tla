----------------------------- MODULE SessionLine -----------------------------
(***************************************************************************)
(* What the flows of a process may rely on when they share Agent sessions: *)
(* each session has one line, a flow joins it at its end, only the first   *)
(* of the line may use the session, and a flow that gives up or is done    *)
(* leaves the others in their order.                                       *)
(***************************************************************************)
EXTENDS Sequences, SequencesExt

CONSTANTS Users, Sessions, SessionOf

VARIABLES
  line,   \* line[k]: the flows that use session k or wait for it, first come first
  using   \* the flows that use their session

vars == <<line, using>>

InLine(u) == u \in ToSet(line[SessionOf[u]])

Init ==
  /\ line = [k \in Sessions |-> <<>>]
  /\ using = {}

Join(u) ==
  /\ ~InLine(u)
  /\ line' = [line EXCEPT ![SessionOf[u]] = Append(@, u)]
  /\ using' \in {using, using \cup {u}}
  /\ u \in using' => line[SessionOf[u]] = <<>>

Start(u) ==
  /\ InLine(u) /\ Head(line[SessionOf[u]]) = u
  /\ using' = using \cup {u}
  /\ UNCHANGED line

Leave(u) ==
  /\ \E i \in DOMAIN line[SessionOf[u]] :
       /\ line[SessionOf[u]][i] = u
       /\ line' = [line EXCEPT ![SessionOf[u]] = RemoveAt(@, i)]
  /\ using' = using \ {u}

Next == \E u \in Users : Join(u) \/ Start(u) \/ Leave(u)

Spec == Init /\ [][Next]_vars

=============================================================================
