--------------------------- MODULE MCAgentRequests ---------------------------
(* A request, a plain reply to it, and a reply that asks back.             *)
EXTENDS AgentRequests

CONSTANTS ask, reply, follow, r1, r2

MCAsks == [d \in Deliveries |-> CASE d = ask -> r1 [] d = follow -> r2 [] OTHER -> None]
MCAnswers == [d \in Deliveries |-> IF d = ask THEN None ELSE r1]

Limits(a, b, c) == [d \in Deliveries |-> CASE d = ask -> a [] d = reply -> b [] OTHER -> c]

\* One exchange with retries and rebinding, in every surrounding; and two
\* replies that compete, once each.
MCSettings ==
    [connections : {{}}, recovery : BOOLEAN, redelivery : BOOLEAN, limit : {Limits(2, 1, 0)}]
        \cup [connections : {{r1}}, recovery : {TRUE}, redelivery : {TRUE}, limit : {Limits(2, 1, 1)}]
        \cup [connections : {{}}, recovery : {FALSE}, redelivery : BOOLEAN, limit : {Limits(1, 1, 1)}]
=============================================================================
