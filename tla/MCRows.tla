------------------------------- MODULE MCRows -------------------------------
\* The model for two parts whose state is rows of the database alone: the outbox
\* with one maintenance worker (Outbox) and the replacement of a protected section
\* (Replacement).  They share no row: each behaviour runs one of them, while the
\* worker of the outbox has nothing to send.
EXTENDS Outbox, Replacement, TLC

CONSTANTS m1, m2, m3, s1, s2, x1, x2

\* Files of one of two sections: one whose lineage is not known, and one that a
\* trust anchor has rejected.
Exported == {[section |-> s1, to |-> {x2}, lineage |-> "other"],
             [section |-> s1, to |-> {x1}, lineage |-> "invalid"]}
Born == [s \in Sections |-> IF s = s1 THEN {x1} ELSE {}]

VARIABLE part

\* Three messages with one fault, or two with one of each kind.
InRelay == crashes' + dbErrors' + brokerErrors' <= 1 \/ status'[m3] = "none"

\* One request with two agents, or two requests with one and no disturbance.
SelfParts == {"one request", "two requests"}
InSelfPart ==
    \/ part = "one request" /\ \A r \in Replacements \ {1} : verdict'[r] = "none"
    \/ /\ part = "two requests" /\ selfEdits' + interrupts' = 0
       /\ \E a \in Agents : \A b \in Agents \ {a} : tx'[b] = NoTx

\* No message is queued in the parts of the replacement: the worker is up already.
MCInit ==
    /\ part \in SelfParts \cup {"relay"}
    /\ \/ part = "relay" /\ Init
       \/ /\ part \in SelfParts
          /\ status = [m \in All |-> "none"] /\ created = [m \in All |-> 0]
          /\ stale = {} /\ inbox = {} /\ broker = <<>> /\ accepted = {}
          /\ at = [w \in Workers |-> "idle"]
          /\ batch = [w \in Workers |-> {}] /\ done = [w \in Workers |-> {}]
          /\ crashes = 0 /\ dbErrors = 0 /\ brokerErrors = 0
    /\ ReplacementInit /\ self = Born
MCNext == \/ part = "relay" /\ Next /\ InRelay /\ UNCHANGED <<replacementVars, part>>
          \/ ReplacementNext /\ InSelfPart /\ UNCHANGED <<vars, part>>
MCSpec == /\ MCInit /\ [][MCNext]_<<vars, replacementVars, part>>
          /\ Fairness /\ ReplacementFairness

\* The replacement alone, without fairness.
SelfSpec == MCInit /\ [][MCNext /\ part # "relay"]_<<vars, replacementVars, part>>
=============================================================================
