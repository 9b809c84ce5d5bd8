-------------------------------- MODULE MCWork --------------------------------
\* The model for the maintenance worker's durable work: ingestion jobs (Ingest),
\* imports from a connected account (Backfill) and scheduled tasks (Schedule).
\* They share no state: each behaviour runs one of them.
EXTENDS Ingest, Backfill, Schedule, Nodes

CONSTANTS c1, w1, q1, t1, t2, t3, n1, d1, d2, p1, k1, shell, screen

First == [t \in Tasks |-> IF t = t1 THEN [kind |-> "cron", n |-> 1]
                          ELSE IF t = t2 THEN [kind |-> "once", n |-> 1]
                          ELSE [kind |-> "interval", n |-> 1]]
Later == {[kind |-> "cron", n |-> 2], [kind |-> "interval", n |-> 1]}
Capped == [t \in Tasks |-> IF t = t1 THEN 2 ELSE 0]

Mine == [d \in Daemons |-> n1]

VARIABLE part

\* One document and two workers with two troubles, or with one and
\* cancellations, or two documents in one worker's batch with one.
IngestParts == {"one document", "batch"}
OneTrouble == ibudget'.fault + ibudget'.crash + ibudget'.late <= 1
Cancelled(j) == ijob'[j].cancel \/ ijob'[j].status = "cancelled"
InPart ==
    \/ /\ part = "one document" /\ \A j \in JobIds : ijob'[j].content \in {c1, Nobody}
       /\ OneTrouble \/ \A j \in JobIds : ~Cancelled(j)
    \/ /\ part = "batch" /\ OneTrouble
       /\ \A w \in IngestWorkers \ {w1} : iworker'[w].at = "idle"

\* One range with two troubles, or a second range after it with one.
InImport == \/ asked' \subseteq {q1}
            \/ q1 \in asked' /\ bfBudget'.fault + bfBudget'.crash + bfBudget'.late
                                 + bfBudget'.request <= 1

\* A node that is asked once and may be revoked, or two daemons that run for the
\* same identity and offer different capabilities.
NodeParts == {"one node", "two daemons"}
Up == {d \in Daemons : daemon[d].at # "gone"}
Offering(d, powers) == \A c \in Sessions : daemon'[d].conn = c => session'[c].powers = powers
InNodePart ==
    \/ /\ part = "one node"
       /\ \A a \in Pairings \ {p1} : pairing'[a].status = "none"
    \/ /\ part = "two daemons"
       /\ \A k \in Invocations : asker'[k].at = "none"
       /\ Offering(d1, {shell}) /\ Offering(d2, {shell, screen})
       /\ hexisNode'[n1].status # "revoked"

\* Nothing of a node moves in the other parts: no daemon runs.
Init == /\ IngestInit /\ BackfillInit /\ ScheduleInit /\ NodesInit
        /\ part \in IngestParts \cup NodeParts \cup {"import", "schedule"}
        /\ Up = IF part = "two daemons" THEN Daemons
                ELSE IF part = "one node" THEN {d1} ELSE {}
Next ==
    \/ IngestNext /\ InPart /\ UNCHANGED <<backfillVars, scheduleVars, nodesVars, part>>
    \/ /\ part = "import" /\ BackfillNext /\ InImport
       /\ UNCHANGED <<ingestVars, scheduleVars, nodesVars, part>>
    \/ /\ part = "schedule" /\ ScheduleNext
       /\ UNCHANGED <<ingestVars, backfillVars, nodesVars, part>>
    \/ NodesNext /\ InNodePart /\ UNCHANGED <<ingestVars, backfillVars, scheduleVars, part>>
Fairness == IngestFairness /\ BackfillFairness /\ ScheduleFairness /\ NodesFairness
Spec == Init /\ [][Next]_<<ingestVars, backfillVars, scheduleVars, nodesVars, part>> /\ Fairness

\* What the four parts keep has the type they declare (the tables, workers and
\* cursors of Ingest, Backfill and Schedule, the rows and sessions of Nodes).
WorkTypeOK == IngestTypeOK /\ BackfillTypeOK /\ ScheduleTypeOK /\ NodesTypeOK
=============================================================================
