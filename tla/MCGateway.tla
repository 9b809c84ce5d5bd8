------------------------------ MODULE MCGateway -----------------------------
\* The model for the event gateway (Gateway), and for the heartbeat worker when it
\* is the only writer of its row (Heartbeat).  The two share no state: each
\* behaviour runs one of them.
EXTENDS Gateway

CONSTANTS timer, consumer

VARIABLES part, row, outcome, queue, at, beat, snap, debits, errors

beatVars == <<row, outcome, queue, at, beat, snap, debits, errors>>

\* The worker alone, two failing calls.
Alone == INSTANCE Heartbeat WITH
    MaxBeats <- 3, Cap <- 2, Reserve <- 1, Timer <- timer, Consumer <- consumer,
    Manuals <- {}, Writers <- {}, Paths <- {"agentic", "legacy"},
    MaxCrashes <- 0, MaxErrors <- 2, MaxLeft <- 0, MaxWrites <- 0,
    crashes <- 0, left <- 0, writes <- 0

MCInit == Init /\ Alone!Init /\ part \in {"events", "beats"}
MCNext ==
    \/ part = "events" /\ Next /\ UNCHANGED <<beatVars, part>>
    \/ part = "beats" /\ Alone!Next /\ UNCHANGED <<vars, part>>
MCSpec ==
    /\ MCInit /\ [][MCNext]_<<vars, beatVars, part>>
    /\ part = "events" => Fairness
    /\ part = "beats" => Alone!Fairness

\* The worker alone implements the pulse: beats do not overlap and a claim is
\* given up by its own run only (services/worker_service.py, db/11 and db/43).
ImplementsPulse == Alone!ImplementsPulse

\* Without a crash or a failing call the claim is never lost: every beat the
\* timer starts is submitted, run, decided and released, on both paths.
HealthyBeatsFinish == Alone!HealthyBeatsFinish
=============================================================================
