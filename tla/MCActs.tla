------------------------------- MODULE MCActs -------------------------------
\* The model for what the agent does to others: a protected tool call waits for
\* the operator (Approval), and a message to another person passes the outbound
\* safety (Outbound).  The two share no state: each behaviour runs one of them.
EXTENDS Approval, Outbound

CONSTANTS l1, w1, w2, a1, a2, tool, alarm, reply

Kept == {<<tool, a1>>, <<alarm, a2>>, <<reply, a1>>}

VARIABLE part

\* Two calls with one fault between them, or one call with all of them.
Parts == {"two calls", "one call"}
InPart == \/ part = "two calls" /\ approvalFaults' <= 1
          \/ part = "one call" /\ call'[2] = "idle"

Init == /\ ApprovalInit /\ OutboundInit
        /\ part \in (IF linked THEN {"outbound"} ELSE Parts \cup {"outbound"})
Next == \/ ApprovalNext /\ InPart /\ UNCHANGED <<outboundVars, part>>
        \/ part = "outbound" /\ OutboundNext /\ UNCHANGED <<approvalVars, part>>
Spec == Init /\ [][Next]_<<approvalVars, outboundVars, part>> /\ ApprovalFairness
=============================================================================
