------------------------------ MODULE Delivery ------------------------------
\* The channel worker's outbox consumer (channels/outbox.py) and its ledger of
\* delivery obligations (db/89). Every poll first claims and resends what the
\* ledger says may be lost, then takes envelopes off the RabbitMQ queue without
\* acknowledgement and sends each to the targets it resolves to.
\*
\* One process polls, one message at a time; one action is one SQL statement,
\* one request to the broker or one call of a channel adapter. Failing
\* statements are swallowed by the consumer, the send goes on without them.
EXTENDS Naturals, FiniteSets, Sequences

CONSTANTS
    Msgs,            \* envelope ids
    Targets,         \* channel and recipient pairs
    RouteSets,       \* the target sets an envelope may resolve to
    FetchSize,       \* envelopes one poll takes (10 in the code)
    MaxAttempts,     \* p_max_attempts of the recovery (3 in the code)
    MayExpire,       \* whether obligations may reach the age of seven days
    MaxArrivals,     \* bound: envelopes, copies included
    MaxCrashes,      \* bound: deaths of the channel worker
    MaxDbErrors,     \* bound: statements that fail or lose their reply
    MaxSendErrors,   \* bound: sends and fetches that fail or lose their reply
    MaxLate          \* bound: recoveries that claim an obligation out of attempts

ASSUME DeliveryAssumption ==
    /\ RouteSets \subseteq SUBSET Targets
    /\ {FetchSize, MaxAttempts} \subseteq Nat \ {0}
    /\ MayExpire \in BOOLEAN
    /\ {MaxArrivals, MaxCrashes, MaxDbErrors, MaxSendErrors, MaxLate} \subseteq Nat

Obligations == Msgs \X Targets   \* obligation_key: envelope id and target
States == {"none", "pending", "attempting", "delivered", "failed", "abandoned"}
Open   == {"pending", "attempting", "failed"}

VARIABLES
    broker,      \* the RabbitMQ queue
    inbox,       \* envelope ids in web_inbox
    state,       \* channel_delivery_obligations.state, "none" before the row
    attempts,    \* ... .attempts
    due,         \* rows whose next_attempt_at has passed
    stale,       \* attempting rows not updated for two minutes
    gone,        \* channel_unreachable_targets in force
    at,          \* where the consumer is
    rescued,     \* obligations the recovery has claimed and not sent yet
    marked,      \* those to be sent with the recovery marker (needs_marker)
    inhand,      \* envelopes taken off the queue and not looked at yet
    left,        \* obligations of the current envelope not sent yet
    work,        \* the obligation at work, a set of at most one
    tracked,     \* whether its row id is known
    copies,      \* copies of each obligation a platform has accepted
    arrivals, crashes, dbErrors, sendErrors, late

ledger == <<state, attempts, due, stale>>
hands  == <<rescued, marked, inhand, left, work, tracked>>
bounds == <<arrivals, crashes, dbErrors, sendErrors, late>>
vars   == <<broker, inbox, ledger, gone, at, hands, copies, bounds>>
----------------------------------------------------------------------------
Init ==
    /\ broker = <<>> /\ inbox = {}
    /\ state = [o \in Obligations |-> "none"]
    /\ attempts = [o \in Obligations |-> 0]
    /\ due = {} /\ stale = {} /\ gone = {}
    /\ at = "down"
    /\ rescued = {} /\ marked = {} /\ inhand = <<>> /\ left = {} /\ work = {}
    /\ tracked = FALSE
    /\ copies = [o \in Obligations |-> 0]
    /\ arrivals = 0 /\ crashes = 0 /\ dbErrors = 0 /\ sendErrors = 0 /\ late = 0

DbError == dbErrors < MaxDbErrors /\ dbErrors' = dbErrors + 1
           /\ UNCHANGED <<arrivals, crashes, sendErrors, late>>
SendError == sendErrors < MaxSendErrors /\ sendErrors' = sendErrors + 1
             /\ UNCHANGED <<arrivals, crashes, dbErrors, late>>

\* A statement that raises: it did not run, or it ran and the reply was lost.
Swallowed(Statement) == DbError /\ (Statement \/ UNCHANGED ledger)

Attempted(Statement) == (Statement /\ UNCHANGED bounds) \/ Swallowed(Statement)

SetState(S, st) == state' = [o \in Obligations |-> IF o \in S THEN st ELSE state[o]]
Count(S) == attempts' = [o \in Obligations |->
                           IF o \in S THEN attempts[o] + 1 ELSE attempts[o]]

\* The publisher puts a copy of an envelope on the queue (module Outbox).
Arrive(m) ==
    /\ arrivals < MaxArrivals /\ arrivals' = arrivals + 1
    /\ broker' = Append(broker, m)
    /\ UNCHANGED <<inbox, ledger, gone, at, hands, copies, crashes, dbErrors, sendErrors,
                   late>>

Start ==
    /\ at = "down" /\ at' = "recover"
    /\ UNCHANGED <<broker, inbox, ledger, gone, hands, copies, bounds>>
----------------------------------------------------------------------------
\* Mutant: the recovery forgets attempts whose outcome is unknown.
Candidates_NoStale == {o \in Obligations : state[o] \in {"pending", "failed"} /\ o \in due}

\* claim_recoverable_channel_deliveries. Both CTEs update what the same snapshot
\* shows; of a row in both, PostgreSQL carries out one update and leaves open
\* which.
Candidates == {o \in Obligations : \/ state[o] \in {"pending", "failed"} /\ o \in due
                                   \/ state[o] = "attempting" /\ o \in stale}

Unfinished == {o \in Obligations : state[o] \in Open}
Spent == {o \in Unfinished : attempts[o] >= MaxAttempts}

\* Mutant: the recovery does not count the attempt it starts.
Reclaim_Uncounted(S, C) ==
    /\ state' = [o \in Obligations |-> IF o \in C THEN "attempting"
                                       ELSE IF o \in S THEN "abandoned"
                                       ELSE state[o]]
    /\ stale' = stale \ (S \cup C)
    /\ UNCHANGED <<attempts, due>>

\* The rows of S are abandoned, those of C are claimed.
Reclaim(S, C) ==
    /\ state' = [o \in Obligations |-> IF o \in C THEN "attempting"
                                       ELSE IF o \in S THEN "abandoned"
                                       ELSE state[o]]
    /\ Count(C)
    /\ stale' = stale \ (S \cup C)
    /\ UNCHANGED due

IsRecovery(S, C) ==
    /\ S \subseteq (IF MayExpire THEN Unfinished ELSE Spent)
    /\ C \subseteq Candidates
    /\ S \cap C = {} /\ Spent \cup Candidates \subseteq S \cup C

Recover ==
    /\ at = "recover"
    /\ \E S \in SUBSET Unfinished, C \in SUBSET Unfinished :
          /\ IsRecovery(S, C)
          /\ Reclaim(S, C)
          /\ rescued' = C
          /\ marked' = {o \in C : state[o] # "pending"}
          /\ IF C \cap Spent = {} THEN UNCHANGED late
             ELSE late < MaxLate /\ late' = late + 1
    /\ at' = "rescue"
    /\ UNCHANGED <<broker, inbox, gone, inhand, left, work, tracked, copies,
                   arrivals, crashes, dbErrors, sendErrors>>

\* The claim raises: the poll goes on without it.
RecoverFails ==
    /\ at = "recover"
    /\ Swallowed(\E S \in SUBSET Unfinished, C \in SUBSET Unfinished : IsRecovery(S, C) /\ Reclaim(S, C))
    /\ at' = "rescue"
    /\ UNCHANGED <<broker, inbox, gone, hands, copies>>

\* mark_channel_delivery_obligation_failed
Fail(o) ==
    IF state[o] = "delivered" THEN UNCHANGED ledger
    ELSE /\ SetState({o}, "failed")
         /\ due' = due \ {o}
         /\ stale' = stale \ {o}
         /\ UNCHANGED attempts

\* _skip_if_unreachable lets the send go on when its query fails.
Reaches(o) == \/ o[2] \notin gone /\ UNCHANGED bounds
              \/ o[2] \in gone /\ DbError

\* A rescued obligation whose target is marked unreachable is put off.
RescueSkips(o) ==
    /\ at = "rescue" /\ o \in rescued /\ o[2] \in gone
    /\ Attempted(Fail(o))
    /\ rescued' = rescued \ {o} /\ marked' = marked \ {o}
    /\ UNCHANGED <<broker, inbox, gone, at, inhand, left, work, tracked, copies>>

Rescue(o) ==
    /\ at = "rescue" /\ o \in rescued
    /\ Reaches(o)
    /\ work' = {o} /\ tracked' = TRUE
    /\ at' = "send"
    /\ UNCHANGED <<broker, inbox, ledger, gone, rescued, marked, inhand, left, copies>>
----------------------------------------------------------------------------
Least(a, b) == IF a <= b THEN a ELSE b

\* The first n envelopes leave the queue for good (ack_requeue_false).
Pop(n) == broker' = SubSeq(broker, n + 1, Len(broker))

Fetch ==
    /\ at = "rescue" /\ rescued = {}
    /\ LET n == Least(Len(broker), FetchSize)
       IN  Pop(n) /\ inhand' = SubSeq(broker, 1, n)
    /\ at' = "route"
    /\ UNCHANGED <<inbox, ledger, gone, rescued, marked, left, work, tracked, copies, bounds>>

\* Messages are published without delivery_mode 2: a broker that restarts has
\* lost them.
BrokerRestarts ==
    /\ broker # <<>> /\ broker' = <<>>
    /\ SendError
    /\ UNCHANGED <<inbox, ledger, gone, at, hands, copies>>

\* The broker answers after the five seconds the request may take.
FetchReplyLost ==
    /\ at = "rescue" /\ rescued = {} /\ broker # <<>>
    /\ SendError
    /\ Pop(Least(Len(broker), FetchSize))
    /\ at' = "recover"
    /\ UNCHANGED <<inbox, ledger, gone, hands, copies>>

\* _process_message: the copy for the web inbox, unless the message is silent, the
\* inbox is switched off or the statement fails; then the targets.
Take ==
    /\ at = "route" /\ left = {} /\ inhand # <<>>
    /\ inbox' \in {inbox, inbox \cup {Head(inhand)}}
    /\ \E R \in RouteSets : left' = {Head(inhand)} \X R
    /\ inhand' = Tail(inhand)
    /\ UNCHANGED <<broker, ledger, gone, at, rescued, marked, work, tracked, copies, bounds>>

EndPoll ==
    /\ at = "route" /\ left = {} /\ inhand = <<>>
    /\ at' = "recover"
    /\ UNCHANGED <<broker, inbox, ledger, gone, hands, copies, bounds>>

\* _skip_if_unreachable: the target is dropped from this envelope.
Skip(o) ==
    /\ at = "route" /\ o \in left /\ o[2] \in gone
    /\ left' = left \ {o}
    /\ UNCHANGED <<broker, inbox, ledger, gone, at, rescued, marked, inhand, work,
                   tracked, copies, bounds>>

\* Mutant: the conflict branch resets every row.
Upserted_Resets(st) == IF st = "attempting" THEN st ELSE "pending"

\* The state a row has after upsert_channel_delivery_obligation.
Upserted(st) == IF st \in {"none", "abandoned"} THEN "pending" ELSE st

Upsert(o) ==
    /\ SetState({o}, Upserted(state[o]))
    /\ due' = IF state[o] \in {"delivered", "attempting"} THEN due ELSE due \cup {o}
    /\ stale' = stale \ {o}
    /\ UNCHANGED attempts

Record(o) ==
    /\ at = "route" /\ o \in left
    /\ Reaches(o)
    /\ Upsert(o)
    /\ IF state'[o] = "delivered"
       THEN left' = left \ {o} /\ UNCHANGED <<at, work, tracked>>
       ELSE at' = "claim" /\ work' = {o} /\ tracked' = TRUE /\ UNCHANGED left
    /\ UNCHANGED <<broker, inbox, gone, rescued, marked, inhand, copies>>

\* Without a row id the message is sent untracked.
RecordFails(o) ==
    /\ at = "route" /\ o \in left
    /\ Swallowed(Upsert(o))
    /\ at' = "send" /\ work' = {o} /\ tracked' = FALSE
    /\ UNCHANGED <<broker, inbox, gone, rescued, marked, inhand, left, copies>>

\* The send of o is over; the loop it was part of goes on.
Leave(o) ==
    /\ IF o \in rescued
       THEN rescued' = rescued \ {o} /\ marked' = marked \ {o} /\ at' = "rescue"
            /\ UNCHANGED left
       ELSE left' = left \ {o} /\ at' = "route" /\ UNCHANGED <<rescued, marked>>
    /\ work' = {} /\ tracked' = FALSE
    /\ UNCHANGED inhand

\* claim_channel_delivery_obligation
ClaimRow(o) ==
    /\ SetState({o}, "attempting")
    /\ Count({o})
    /\ stale' = stale \ {o}
    /\ UNCHANGED due

Claim(o) ==
    /\ at = "claim" /\ o \in work
    /\ IF state[o] \in {"delivered", "abandoned"}
       THEN Leave(o) /\ UNCHANGED ledger
       ELSE ClaimRow(o) /\ at' = "send" /\ UNCHANGED hands
    /\ UNCHANGED <<broker, inbox, gone, copies, bounds>>

\* None is not False: the message is sent although nothing is claimed.
ClaimFails(o) ==
    /\ at = "claim" /\ o \in work
    /\ Swallowed(ClaimRow(o))
    /\ at' = "send"
    /\ UNCHANGED <<broker, inbox, gone, hands, copies>>
----------------------------------------------------------------------------
\* prepare_outbox_outbound says no, or cannot be evaluated.
Deny(o) ==
    /\ at = "send" /\ o \in work
    /\ SendError
    /\ at' = "denied"
    /\ UNCHANGED <<broker, inbox, ledger, gone, hands, copies>>

Accept(o) == copies' = [copies EXCEPT ![o] = @ + 1]

\* The adapter returns a platform message id.
Send(o) ==
    /\ at = "send" /\ o \in work
    /\ Accept(o)
    /\ at' = "sent"
    /\ UNCHANGED <<broker, inbox, ledger, gone, hands, bounds>>

\* Mutant: a send without a message id counts as sent.
SendFails_NoIdCheck(o) ==
    /\ at = "send" /\ o \in work
    /\ SendError
    /\ at' \in {"failed", "gone", "sent"}
    /\ Accept(o) \/ UNCHANGED copies
    /\ UNCHANGED <<broker, inbox, ledger, gone, hands>>

\* The adapter raises or returns no id, possibly after the platform has the
\* message; the error may say that the target is gone.
SendFails(o) ==
    /\ at = "send" /\ o \in work
    /\ SendError
    /\ at' \in {"failed", "gone"}
    /\ Accept(o) \/ UNCHANGED copies
    /\ UNCHANGED <<broker, inbox, ledger, gone, hands>>

\* mark_channel_delivery_obligation_delivered: no look at the old state.
Deliver(o) ==
    /\ SetState({o}, "delivered")
    /\ due' = due \cup {o}
    /\ stale' = stale \ {o}
    /\ UNCHANGED attempts

\* _clear_unreachable_target, _mark_unreachable_target: swallowed as well when
\* statements fail.
Remember(S) == gone' = S \/ (dbErrors' # dbErrors /\ UNCHANGED gone)

Delivered(o) ==
    /\ at = "sent" /\ o \in work
    /\ IF tracked THEN Attempted(Deliver(o))
       ELSE UNCHANGED <<ledger, bounds>>
    /\ Remember(gone \ {o[2]})
    /\ Leave(o)
    /\ UNCHANGED <<broker, inbox, copies>>

\* finalize_outbox_outbound raises after the send: the except branch takes the
\* message for a failed one.
FinalizeFails(o) ==
    /\ at = "sent" /\ o \in work
    /\ DbError
    /\ at' = "failed"
    /\ UNCHANGED <<broker, inbox, ledger, gone, hands, copies>>

Failed(o) ==
    /\ at \in {"failed", "gone", "denied"} /\ o \in work
    /\ IF tracked THEN Attempted(Fail(o))
       ELSE UNCHANGED <<ledger, bounds>>
    /\ Remember(IF at = "gone" THEN gone \cup {o[2]} ELSE gone)
    /\ Leave(o)
    /\ UNCHANGED <<broker, inbox, copies>>

\* It raises in the except branch, or while the send is prepared: the row stays
\* as it is. The deliver methods catch this, the recovery does not and ends the
\* poll.
FinalizeRaises(o) ==
    /\ at \in {"send", "failed", "gone"} /\ o \in work
    /\ DbError
    /\ IF o \in rescued
       THEN /\ rescued' = {} /\ marked' = {} /\ at' = "recover"
            /\ work' = {} /\ tracked' = FALSE
            /\ UNCHANGED <<inhand, left>>
       ELSE Leave(o)
    /\ UNCHANGED <<broker, inbox, ledger, gone, copies>>
----------------------------------------------------------------------------
Crash ==
    /\ at # "down" /\ at' = "down"
    /\ crashes < MaxCrashes /\ crashes' = crashes + 1
    /\ rescued' = {} /\ marked' = {} /\ inhand' = <<>> /\ left' = {} /\ work' = {}
    /\ tracked' = FALSE
    /\ UNCHANGED <<broker, inbox, ledger, gone, copies, arrivals, dbErrors, sendErrors,
                   late>>

\* Time passes: a retry falls due, an attempt is two minutes old, the
\* suppression of a target ends.
FallsDue(o) ==
    /\ state[o] = "failed" /\ o \notin due
    /\ due' = due \cup {o}
    /\ UNCHANGED <<broker, inbox, state, attempts, stale, gone, at, hands, copies, bounds>>

GrowsStale(o) ==
    /\ state[o] = "attempting" /\ o \notin stale
    /\ stale' = stale \cup {o}
    /\ UNCHANGED <<broker, inbox, state, attempts, due, gone, at, hands, copies, bounds>>

Reachable(t) ==
    /\ t \in gone
    /\ gone' = gone \ {t}
    /\ UNCHANGED <<broker, inbox, ledger, at, hands, copies, bounds>>

Step(o) == \/ RescueSkips(o) \/ Rescue(o) \/ Skip(o) \/ Record(o) \/ Claim(o)
           \/ Send(o) \/ Delivered(o) \/ Failed(o)

Fault(o) == \/ RecordFails(o) \/ ClaimFails(o) \/ Deny(o) \/ SendFails(o)
            \/ FinalizeFails(o) \/ FinalizeRaises(o)

Poll == Recover \/ Fetch \/ Take \/ EndPoll \/ \E o \in Obligations : Step(o)

Time(o) == FallsDue(o) \/ GrowsStale(o)

Consume == \/ Start \/ Poll \/ RecoverFails \/ FetchReplyLost \/ BrokerRestarts \/ Crash
           \/ \E o \in Obligations : Fault(o) \/ Time(o)
           \/ \E t \in Targets : Reachable(t)

Next == Consume \/ \E m \in Msgs : Arrive(m)

Spec == Init /\ [][Next]_vars

\* The consumer polls every two seconds, docker restarts it, time passes.
Fairness == /\ WF_vars(Start) /\ WF_vars(Poll)
            /\ \A o \in Obligations : WF_vars(Time(o))
            /\ \A t \in Targets : WF_vars(Reachable(t))

FairSpec == Spec /\ Fairness
----------------------------------------------------------------------------
TypeOK ==
    /\ broker \in Seq(Msgs) /\ inbox \subseteq Msgs
    /\ state \in [Obligations -> States] /\ attempts \in [Obligations -> Nat]
    /\ due \subseteq Obligations /\ stale \subseteq Obligations
    /\ gone \subseteq Targets
    /\ at \in {"down", "recover", "rescue", "route", "claim", "send", "sent",
              "failed", "gone", "denied"}
    /\ rescued \subseteq Obligations /\ marked \subseteq rescued
    /\ inhand \in Seq(Msgs) /\ left \subseteq Obligations
    /\ work \subseteq Obligations /\ tracked \in BOOLEAN
    /\ copies \in [Obligations -> Nat]
    /\ {arrivals, crashes, dbErrors, sendErrors, late} \subseteq Nat

\* While the database answers, every copy a platform got was counted as an
\* attempt before it was sent, by the claim or by the recovery: a crash can cost
\* an attempt but never hide one.
CopiesCounted ==
    dbErrors = 0 => \A o \in Obligations : copies[o] <= attempts[o]

\* A delivered obligation is final: no late copy of its envelope, failure or
\* recovery reopens it, and while the database answers it is not sent again.
DeliveredIsFinal ==
    [][\A o \in Obligations : state[o] = "delivered" =>
          /\ state'[o] = "delivered"
          /\ dbErrors = 0 => copies'[o] = copies[o]]_vars

\* An obligation in the ledger does not stay open: a crash, a lost confirmation
\* or a target that is gone for a while delays it only.
OpenSettles ==
    \A o \in Obligations : state[o] \in Open ~> state[o] \in {"delivered", "abandoned"}

\* "recovered on restart, with recovered messages explicitly marked as possible
\* duplicates": a copy the recovery sends after another copy carries
\* RECOVERED_DELIVERY_MARKER.
ReplaysMarked ==
    [][\A o \in rescued : copies[o] > 0 /\ copies'[o] > copies[o] => o \in marked]_vars

\* "Delivery obligations are honest at-least-once": an envelope the publisher
\* has handed over is written down for the targets it resolves to, whenever the
\* worker restarts.
EnvelopesRecorded ==
    \A m \in Msgs : (\E i \in DOMAIN broker : broker[i] = m)
                      ~> \E t \in Targets : state[<<m, t>>] # "none"

\* The consumer keeps the promises of a hop of the relay.
Hop == INSTANCE Handover WITH
          Items <- Obligations,
          state <- [o \in Obligations |-> IF state[o] = "none" THEN "none"
                                         ELSE IF state[o] = "delivered" THEN "done"
                                         ELSE IF state[o] = "abandoned" THEN "dropped"
                                         ELSE "owed"],
          given <- {o \in Obligations : copies[o] > 0}
HandsOver == Hop!Spec
=============================================================================
