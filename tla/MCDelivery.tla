----------------------------- MODULE MCDelivery -----------------------------
\* The model for the two hops of the message relay: two maintenance workers whose
\* claims time out under each other (Outbox), and the consumer of the channel
\* outbox (Delivery).  Each behaviour runs one of them.
EXTENDS Delivery, TLC

CONSTANTS m1, m2, t1, t2, n1, w1, w2

VARIABLES hop, status, created, taken, webInbox, queue, accepted, place, batch, done,
          deaths, dbFaults, brokerFaults

hopVars == <<status, created, taken, webInbox, queue, accepted, place, batch, done,
             deaths, dbFaults, brokerFaults>>

\* Two messages, of which one is silent, and a note; a crash and a failing publish.
First == INSTANCE Outbox WITH
    Msgs <- {m1, m2}, WebNotes <- {n1}, Silent <- {m2}, Workers <- {w1, w2},
    AdapterStates <- {TRUE}, BatchSize <- 2, MaxCrashes <- 1, MaxDbErrors <- 0,
    MaxBrokerErrors <- 1, stale <- taken, inbox <- webInbox, broker <- queue,
    at <- place, crashes <- deaths, dbErrors <- dbFaults, brokerErrors <- brokerFaults

\* Of the crash, the failing publish and the note of the first hop, two.
TwoExtras == deaths' + brokerFaults' + (IF status'[n1] = "none" THEN 0 ELSE 1) <= 2

MCInit == Init /\ First!Init /\ hop \in {"first", "second"}
MCNext == \/ hop = "first" /\ First!Next /\ TwoExtras /\ UNCHANGED <<vars, hop>>
          \/ hop = "second" /\ Next /\ UNCHANGED <<hopVars, hop>>
MCSpec == MCInit /\ [][MCNext]_<<vars, hopVars, hop>> /\ (hop = "second" => Fairness)

\* Each hop keeps the promises of a hop of the relay: nothing is settled before it
\* was handed over, and what is settled stays so (the rows of outbox_messages in
\* the first hop, the delivery obligations in the second).
ImplementsHandover == First!ImplementsHandover /\ HandsOver
=============================================================================
