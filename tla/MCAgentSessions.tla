--------------------------- MODULE MCAgentSessions ---------------------------
(* A small instance of AgentSessions: three governed flows, of which c1 and  *)
(* c2 belong to one job and share an abort signal, and one appending flow    *)
(* work in one session; c3 never calls for the Runner.                       *)
EXTENDS AgentSessions

CONSTANTS c1, c2, c3, a1

MCSignals == {"job", "s3"}
MCSignalOf == [c \in {c1, c2, c3} |-> IF c = c3 THEN "s3" ELSE "job"]
MCCalls == [c \in {c1, c2, c3} |-> IF c = c3 THEN {"agent"} ELSE {"agent", "runner"}]
MCLimits == {[r \in {"agent", "runner"} |-> IF r = "agent" THEN n ELSE 1] : n \in {1, 2}}
MCSessionOf == [u \in {c1, c2, c3, a1} |-> "planning"]

=============================================================================
