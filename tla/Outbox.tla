------------------------------- MODULE Outbox -------------------------------
\* The database outbox (db/42), the web inbox (db/76) and the maintenance
\* worker's _run_outbox_delivery, which copies each queued message to the web
\* inbox and then publishes the batch to RabbitMQ (core/rabbitmq_bridge.py).
\*
\* One action is one SQL statement or one HTTP request; the statements run in
\* autocommit. A batch is a set whose members are handled oldest first.
EXTENDS Naturals, FiniteSets, Sequences

CONSTANTS
    Msgs,             \* messages queued with queue_outbox_message
    WebNotes,         \* messages queued with queue_web_inbox_message
    Silent,           \* messages whose delivery mode is "silent"
    Workers,          \* maintenance processes
    AdapterStates,    \* answers channel_adapters_active may give
    BatchSize,        \* rows one claim may take (50 in the code)
    MaxCrashes,       \* bound: processes that die
    MaxDbErrors,      \* bound: statements that fail or lose their reply
    MaxBrokerErrors   \* bound: publishes that fail or lose their reply

ASSUME OutboxAssumption ==
    /\ IsFiniteSet(Msgs) /\ IsFiniteSet(WebNotes)
    /\ WebNotes \cap Msgs = {}
    /\ Silent \subseteq Msgs
    /\ AdapterStates \subseteq BOOLEAN
    /\ BatchSize \in Nat \ {0}
    /\ {MaxCrashes, MaxDbErrors, MaxBrokerErrors} \subseteq Nat

VARIABLES
    status,     \* outbox_messages.status; "none" before the row exists
    created,    \* outbox_messages.created_at as a rank, 0 before the row exists
    stale,      \* publishing rows whose claimed_at is older than the timeout
    inbox,      \* envelope ids in web_inbox
    broker,     \* the RabbitMQ queue
    accepted,   \* messages the broker has accepted at some time
    at,         \* where each worker is in _run_outbox_delivery
    batch,      \* the rows it claimed
    done,       \* those it has copied to the inbox, later those it published
    crashes, dbErrors, brokerErrors

rows    == <<status, created, stale>>
hands   == <<at, batch, done>>
bounds  == <<crashes, dbErrors, brokerErrors>>
vars    == <<rows, inbox, broker, accepted, hands, bounds>>

All == Msgs \cup WebNotes
----------------------------------------------------------------------------
Init ==
    /\ status = [m \in All |-> "none"]
    /\ created = [m \in All |-> 0]
    /\ stale = {} /\ inbox = {} /\ broker = <<>> /\ accepted = {}
    /\ at = [w \in Workers |-> "down"]
    /\ batch = [w \in Workers |-> {}]
    /\ done = [w \in Workers |-> {}]
    /\ crashes = 0 /\ dbErrors = 0 /\ brokerErrors = 0

\* The row that becomes visible next ranks behind all others.  created_at is the
\* start of the inserting transaction; ranks are the order in which they commit,
\* and a late commit with an early start is not modelled.
NextRank == Cardinality({m \in All : status[m] # "none"}) + 1

\* The rows of S get status st; a row that leaves or re-enters "publishing"
\* gets a new claimed_at.
SetStatus(S, st) ==
    /\ status' = [m \in All |-> IF m \in S THEN st ELSE status[m]]
    /\ stale' = stale \ S
    /\ UNCHANGED created

Goto(w, place) == at' = [at EXCEPT ![w] = place]

\* The tick ends, normally or with an exception that _run_observed_task logs.
EndTick(w) == /\ Goto(w, "idle")
              /\ batch' = [batch EXCEPT ![w] = {}]
              /\ done' = [done EXCEPT ![w] = {}]

Ticks(w, S) == done' = [done EXCEPT ![w] = @ \cup S]

\* m is the next of the batch in the order of created_at.
IsNext(w, m) ==
    /\ m \in batch[w] \ done[w]
    /\ \A n \in batch[w] \ done[w] : created[m] <= created[n]

DbError == dbErrors < MaxDbErrors /\ dbErrors' = dbErrors + 1
           /\ UNCHANGED <<crashes, brokerErrors>>
BrokerError == brokerErrors < MaxBrokerErrors /\ brokerErrors' = brokerErrors + 1
               /\ UNCHANGED <<crashes, dbErrors>>
----------------------------------------------------------------------------
\* queue_outbox_message
Queue(m) ==
    /\ m \in Msgs /\ status[m] = "none"
    /\ status' = [status EXCEPT ![m] = "pending"]
    /\ created' = [created EXCEPT ![m] = NextRank]
    /\ UNCHANGED <<stale, inbox, broker, accepted, hands, bounds>>

\* queue_web_inbox_message: queued, shown and published in one transaction.
QueueWeb(m) ==
    /\ m \in WebNotes /\ status[m] = "none"
    /\ status' = [status EXCEPT ![m] = "published"]
    /\ created' = [created EXCEPT ![m] = NextRank]
    /\ inbox' = inbox \cup {m}
    /\ UNCHANGED <<stale, broker, accepted, hands, bounds>>

Start(w) ==
    /\ at[w] = "down"
    /\ Goto(w, "idle")
    /\ UNCHANGED <<rows, inbox, broker, accepted, batch, done, bounds>>

\* Mutant: the claim forgets the rows of a lost publisher.
Claimable_PendingOnly == {m \in All : status[m] = "pending"}

\* claim_pending_outbox: pending rows, and publishing rows of a lost publisher.
Claimable == {m \in All : \/ status[m] = "pending"
                          \/ status[m] = "publishing" /\ m \in stale}

\* The oldest BatchSize rows of C.
IsBatch(S, C) ==
    /\ S \subseteq C /\ S # {}
    /\ \/ S = C /\ Cardinality(C) <= BatchSize
       \/ Cardinality(S) = BatchSize
    /\ \A m \in S, n \in C \ S : created[m] <= created[n]

Claim(w) ==
    /\ at[w] = "idle"
    /\ \E S \in SUBSET Claimable :
          /\ IsBatch(S, Claimable)
          /\ SetStatus(S, "publishing")
          /\ batch' = [batch EXCEPT ![w] = S]
    /\ Goto(w, "tee")
    /\ UNCHANGED <<inbox, broker, accepted, done, bounds>>

\* The claim commits and its reply is lost: no worker knows of the batch.
ClaimReplyLost(w) ==
    /\ at[w] = "idle"
    /\ \E S \in SUBSET Claimable : IsBatch(S, Claimable) /\ SetStatus(S, "publishing")
    /\ DbError
    /\ UNCHANGED <<inbox, broker, accepted, hands>>

\* tee_outbox_to_web_inbox: one web_inbox_deliver per message that is not silent;
\* ON CONFLICT DO NOTHING makes a second copy a no-op.
Tee(w) ==
    /\ at[w] = "tee"
    /\ \E m \in batch[w] :
          /\ IsNext(w, m)
          /\ inbox' = inbox \cup ({m} \ Silent)
          /\ Ticks(w, {m})
    /\ UNCHANGED <<rows, broker, accepted, at, batch, bounds>>

\* Mutant: a failing copy is logged, and the batch goes on without it.
TeeFails_GoesOn(w) ==
    /\ at[w] = "tee"
    /\ DbError
    /\ \E m \in batch[w] : IsNext(w, m) /\ Ticks(w, {m})
    /\ UNCHANGED <<rows, inbox, broker, accepted, at, batch>>

TeeFails(w) ==
    /\ at[w] = "tee"
    /\ DbError
    /\ EndTick(w)
    /\ UNCHANGED <<rows, inbox, broker, accepted>>

\* Mutant: the answer of channel_adapters_active is taken the wrong way round.
Route_Inverted(w) ==
    /\ at[w] = "tee" /\ done[w] = batch[w]
    /\ \E active \in AdapterStates :
          /\ Goto(w, IF active THEN "mark" ELSE "publish")
          /\ done' = [done EXCEPT ![w] = IF active THEN batch[w] ELSE {}]
    /\ UNCHANGED <<rows, inbox, broker, accepted, batch, bounds>>

\* channel_adapters_active: without an adapter the batch counts as published.
Route(w) ==
    /\ at[w] = "tee" /\ done[w] = batch[w]
    /\ \E active \in AdapterStates :
          /\ Goto(w, IF active THEN "publish" ELSE "mark")
          /\ done' = [done EXCEPT ![w] = IF active THEN {} ELSE batch[w]]
    /\ UNCHANGED <<rows, inbox, broker, accepted, batch, bounds>>
----------------------------------------------------------------------------
\* The broker takes one more copy of m.
Accepts(m) == /\ broker' = Append(broker, m)
              /\ accepted' = accepted \cup {m}

\* publish_outbox_payloads: one request per message, oldest first.
Publish(w) ==
    /\ at[w] = "publish"
    /\ \E m \in batch[w] :
          /\ IsNext(w, m)
          /\ Accepts(m)
          /\ Ticks(w, {m})
          /\ Goto(w, IF done[w] \cup {m} = batch[w] THEN "mark" ELSE "publish")
    /\ UNCHANGED <<rows, inbox, batch, bounds>>

\* What follows a loop that stopped: mark the published part, or, with nothing
\* published, return the whole batch.
AfterStop(w) == IF done[w] = {} THEN "requeue" ELSE "mark"

\* Mutant: a refused message is skipped and the batch goes on.
PublishRefused_GoesOn(w) ==
    /\ at[w] = "publish"
    /\ BrokerError
    /\ \E m \in batch[w] : IsNext(w, m) /\ batch' = [batch EXCEPT ![w] = @ \ {m}]
    /\ Goto(w, IF batch'[w] = done[w] THEN AfterStop(w) ELSE "publish")
    /\ UNCHANGED <<rows, inbox, broker, accepted, done>>

\* The request is refused, not routed, or times out before the broker acts.
PublishRefused(w) ==
    /\ at[w] = "publish"
    /\ BrokerError
    /\ Goto(w, AfterStop(w))
    /\ UNCHANGED <<rows, inbox, broker, accepted, batch, done>>

\* The broker takes the message and the reply comes after the five seconds.
PublishUnconfirmed(w) ==
    /\ at[w] = "publish"
    /\ BrokerError
    /\ \E m \in batch[w] : IsNext(w, m) /\ Accepts(m)
    /\ Goto(w, AfterStop(w))
    /\ UNCHANGED <<rows, inbox, batch, done>>

Publishing(S) == {m \in S : status[m] = "publishing"}

\* mark_outbox_published
Mark(w) ==
    /\ at[w] = "mark"
    /\ SetStatus(Publishing(done[w]), "published")
    /\ IF done[w] = batch[w] THEN EndTick(w)
       ELSE Goto(w, "requeue") /\ UNCHANGED <<batch, done>>
    /\ UNCHANGED <<inbox, broker, accepted, bounds>>

\* requeue_outbox for the part that was not published
Requeue(w) ==
    /\ at[w] = "requeue"
    /\ SetStatus(Publishing(batch[w] \ done[w]), "pending")
    /\ EndTick(w)
    /\ UNCHANGED <<inbox, broker, accepted, bounds>>

\* One of the two statements raises: the tick ends and the rest of the batch
\* stays in "publishing".
SettleFails(w) ==
    /\ at[w] \in {"mark", "requeue"}
    /\ DbError
    /\ EndTick(w)
    /\ UNCHANGED <<rows, inbox, broker, accepted>>
----------------------------------------------------------------------------
Crash(w) ==
    /\ at[w] # "down"
    /\ crashes < MaxCrashes /\ crashes' = crashes + 1
    /\ Goto(w, "down")
    /\ batch' = [batch EXCEPT ![w] = {}]
    /\ done' = [done EXCEPT ![w] = {}]
    /\ UNCHANGED <<rows, inbox, broker, accepted, dbErrors, brokerErrors>>

\* 120 seconds pass since the claim of m.
ClaimAges(m) ==
    /\ status[m] = "publishing" /\ m \notin stale
    /\ stale' = stale \cup {m}
    /\ UNCHANGED <<status, created, inbox, broker, accepted, hands, bounds>>

Settle(w) == Mark(w) \/ Requeue(w)

Tick(w) == Claim(w) \/ Tee(w) \/ Route(w) \/ Publish(w) \/ Settle(w)

Fault(w) == \/ ClaimReplyLost(w) \/ TeeFails(w) \/ PublishRefused(w)
            \/ PublishUnconfirmed(w) \/ SettleFails(w) \/ Crash(w)

Next == \/ \E m \in All : Queue(m) \/ QueueWeb(m) \/ ClaimAges(m)
        \/ \E w \in Workers : Start(w) \/ Tick(w) \/ Fault(w)

Spec == Init /\ [][Next]_vars

\* The maintenance loop calls _run_outbox_delivery again and again, docker
\* restarts a process that died, and time passes.
Fairness == /\ \A w \in Workers : WF_vars(Start(w)) /\ WF_vars(Tick(w))
            /\ \A m \in All : WF_vars(ClaimAges(m))

FairSpec == Spec /\ Fairness
----------------------------------------------------------------------------
TypeOK ==
    /\ status \in [All -> {"none", "pending", "publishing", "published"}]
    /\ created \in [All -> Nat]
    /\ stale \subseteq All
    /\ inbox \subseteq All
    /\ broker \in Seq(Msgs) /\ accepted \subseteq Msgs
    /\ at \in [Workers -> {"down", "idle", "tee", "publish", "mark", "requeue"}]
    /\ batch \in [Workers -> SUBSET Msgs]
    /\ done \in [Workers -> SUBSET Msgs]
    /\ {crashes, dbErrors, brokerErrors} \subseteq Nat

\* A row is "published" only when the user can see the message: it is in the
\* web inbox unless it is silent, and the broker has it unless the batch was
\* routed past the broker. mark_outbox_published takes ids without an owner, so
\* this relies on every worker marking only what it handed over itself,
\* although a second worker may have taken its rows over meanwhile.
PublishedIsVisible ==
    \A m \in All : status[m] = "published" =>
        /\ m \in inbox \cup Silent
        /\ m \in accepted \cup WebNotes \/ FALSE \in AdapterStates

\* A published row is never put back in the queue: the late requeue of a worker
\* whose claim timed out must not resend what another worker has settled
\* (the status guard of requeue_outbox).
PublishedStays ==
    [][\A m \in All : status[m] = "published" => status'[m] = "published"]_vars

\* "publishes in order ... stopping at the first failure": with one worker, and
\* while only the broker misbehaves, a message reaches it for the first time
\* after every older one that is still to be sent (_run_outbox_delivery,
\* publish_outbox_payloads).  Older is committed earlier, see NextRank.
OrderKept ==
    [][crashes = 0 /\ dbErrors = 0 =>
          \A m \in accepted' \ accepted, n \in Msgs :
             created[n] # 0 /\ created[n] < created[m]
                => n \in accepted \/ status[n] = "published"]_vars

\* A queued message is settled: neither a crash, a lost reply nor a broker that
\* is down for a while strands it in "publishing".
QueuedSettles ==
    \A m \in Msgs : status[m] = "pending" ~> status[m] = "published"

\* The outbox keeps the promises of a hop of the relay; an item is handed over
\* when the broker or, for a note, the web inbox has it.
Hop == INSTANCE Handover WITH
          Items <- All,
          state <- [m \in All |-> IF status[m] = "none" THEN "none"
                                  ELSE IF status[m] = "published" THEN "done"
                                  ELSE "owed"],
          given <- accepted \cup (inbox \cap WebNotes)
ImplementsHandover == Hop!Spec
=============================================================================
