---------------------------- MODULE MCAgentRuns ----------------------------
(* AgentRuns for TLC. *)
EXTENDS AgentRuns

\* Some run has asked for a decision or a page operation, or is about to.
Asked == \/ \E r \in Runs : run[r].ops > 0
         \/ \E w \in Workers : work[w].op > 0

\* Either the visitor writes once, and everything else may happen, or twice,
\* and then nothing but one fault.
OneMatter ==
    post[NumMsgs].pc = "idle" \/
    (~Asked /\ faults <= 1 /\ conv # "snoozed" /\ \A c \in Callers : call[c].pc = "idle")
=============================================================================
