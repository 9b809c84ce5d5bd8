----------------------------- MODULE RowsProofs -----------------------------
\* Proofs about rows that are handed on or replaced, for any number of them:
\* first the outbox and its publisher (Outbox), then the protected replacement
\* of a live state (Replacement).
EXTENDS Outbox, Replacement, FiniteSetTheorems, TLAPS

\* Outbox for any number of messages, workers and faults.
\*
\* The rows carry no owner, so nothing in the table says that a worker that marks
\* a row published has handed it over. The argument is about the workers: at
\* each place of _run_outbox_delivery, what a worker holds in batch and done has
\* already reached the web inbox and the broker, and neither ever takes a message
\* back. A second worker that takes the rows over does not change this.
Settling == {"publish", "mark", "requeue"}

\* What a worker has in hand was handed over as far as its place says.
HandedOver ==
    \A w \in Workers :
        /\ done[w] \subseteq batch[w]
        /\ at[w] \in {"down", "idle"} => done[w] = {}
        /\ at[w] = "tee" => done[w] \subseteq inbox \cup Silent
        /\ at[w] \in Settling => batch[w] \subseteq inbox \cup Silent
        /\ at[w] \in Settling => done[w] \subseteq accepted \/ FALSE \in AdapterStates

\* A note is published by the transaction that queues it.
NotesSettled == \A m \in WebNotes : status[m] \in {"none", "published"}

OutboxInv == TypeOK /\ NotesSettled /\ HandedOver /\ PublishedIsVisible
-----------------------------------------------------------------------------
\* The next created_at is a number, and none of a row that is not there.
LEMMA NextRankIs == /\ IsFiniteSet({m \in All : status[m] # "none"})
                    /\ NextRank \in Nat \ {0}
<1>1. IsFiniteSet(All)
  BY FS_Union, OutboxAssumption DEF All
<1>2. IsFiniteSet({m \in All : status[m] # "none"})
  BY <1>1, FS_Subset
<1>3. Cardinality({m \in All : status[m] # "none"}) \in Nat
  BY <1>2, FS_CardinalityType
<1>4. QED
  BY <1>2, <1>3 DEF NextRank

LEMMA RankType == NextRank \in Nat
BY NextRankIs

\* No claim touches a note.
LEMMA ClaimableMsgs == ASSUME NotesSettled PROVE Claimable \subseteq Msgs
BY DEF Claimable, NotesSettled, All

\* The rows, the queue and the workers keep their types
\* (db/42_functions_outbox.sql:10-19).
LEMMA TypeStep == OutboxInv /\ [Next]_vars => TypeOK'
<1> SUFFICES ASSUME OutboxInv, [Next]_vars PROVE TypeOK'
  OBVIOUS
<1> USE DEF OutboxInv, TypeOK, All, rows, hands, bounds
<1>1. ASSUME NEW m \in All, Queue(m) PROVE TypeOK'
  BY <1>1, RankType DEF Queue
<1>2. ASSUME NEW m \in All, QueueWeb(m) PROVE TypeOK'
  BY <1>2, RankType DEF QueueWeb
<1>3. ASSUME NEW m \in All, ClaimAges(m) PROVE TypeOK'
  BY <1>3 DEF ClaimAges
<1>4. ASSUME NEW w \in Workers, Start(w) PROVE TypeOK'
  BY <1>4 DEF Start, Goto
<1>5. ASSUME NEW w \in Workers, Claim(w) PROVE TypeOK'
  BY <1>5, ClaimableMsgs DEF Claim, SetStatus, Goto
<1>6. ASSUME NEW w \in Workers, Tee(w) PROVE TypeOK'
  BY <1>6 DEF Tee, IsNext, Ticks
<1>7. ASSUME NEW w \in Workers, Route(w) PROVE TypeOK'
  BY <1>7 DEF Route, Goto
<1>8. ASSUME NEW w \in Workers, Publish(w) PROVE TypeOK'
  BY <1>8 DEF Publish, IsNext, Accepts, Ticks, Goto
<1>9. ASSUME NEW w \in Workers, Settle(w) PROVE TypeOK'
  BY <1>9 DEF Settle, Mark, Requeue, SetStatus, EndTick, Goto
<1>10. ASSUME NEW w \in Workers, ClaimReplyLost(w) PROVE TypeOK'
  BY <1>10, ClaimableMsgs DEF ClaimReplyLost, SetStatus, DbError
<1>11. ASSUME NEW w \in Workers, TeeFails(w) \/ SettleFails(w) PROVE TypeOK'
  <2>1. EndTick(w) /\ DbError /\ UNCHANGED <<rows, inbox, broker, accepted>>
    BY <1>11 DEF TeeFails, SettleFails
  <2>2. QED
    BY <2>1 DEF EndTick, Goto, DbError
<1>12. ASSUME NEW w \in Workers, PublishRefused(w) PROVE TypeOK'
  BY <1>12 DEF PublishRefused, AfterStop, Goto, BrokerError
<1>13. ASSUME NEW w \in Workers, PublishUnconfirmed(w) PROVE TypeOK'
  BY <1>13 DEF PublishUnconfirmed, IsNext, Accepts, AfterStop, Goto, BrokerError
<1>14. ASSUME NEW w \in Workers, Crash(w) PROVE TypeOK'
  BY <1>14 DEF Crash, Goto
<1>15. CASE UNCHANGED vars
  BY <1>15 DEF vars
<1>16. QED
  BY <1>1, <1>2, <1>3, <1>4, <1>5, <1>6, <1>7, <1>8, <1>9, <1>10, <1>11, <1>12,
     <1>13, <1>14, <1>15 DEF Next, Tick, Fault

-----------------------------------------------------------------------------
\* Only queueing, claiming and settling write the status; the last two write
\* rows of Msgs, which the claim or the batch of a worker names.
LEMMA StatusStep ==
    ASSUME OutboxInv, [Next]_vars
    PROVE  \/ \E m \in All : Queue(m) \/ QueueWeb(m)
           \/ \E S \in SUBSET Claimable : SetStatus(S, "publishing")
           \/ \E w \in Workers : Settle(w)
           \/ UNCHANGED status
<1> USE DEF rows
<1>1. CASE \E m \in All : Queue(m) \/ QueueWeb(m) \/ ClaimAges(m)
  BY <1>1 DEF ClaimAges
<1>2. ASSUME NEW w \in Workers, Start(w) \/ Tick(w) \/ Fault(w)
      PROVE  \/ \E S \in SUBSET Claimable : SetStatus(S, "publishing")
             \/ Settle(w)
             \/ UNCHANGED status
  <2>1. CASE Claim(w) \/ ClaimReplyLost(w)
    BY <2>1 DEF Claim, ClaimReplyLost
  <2>2. CASE Start(w) \/ Tee(w) \/ Route(w) \/ Publish(w)
    BY <2>2 DEF Start, Tee, Route, Publish
  <2>3. CASE TeeFails(w) \/ PublishRefused(w) \/ PublishUnconfirmed(w)
               \/ SettleFails(w) \/ Crash(w)
    BY <2>3 DEF TeeFails, PublishRefused, PublishUnconfirmed, SettleFails, Crash
  <2>4. QED
    BY <1>2, <2>1, <2>2, <2>3 DEF Tick, Fault
<1>3. CASE UNCHANGED vars
  BY <1>3 DEF vars
<1>4. QED
  BY <1>1, <1>2, <1>3 DEF Next

\* A note is out of the publisher's reach (db/76_functions_web_inbox.sql:73-117).
LEMMA NotesStep == OutboxInv /\ [Next]_vars => NotesSettled'
<1> SUFFICES ASSUME OutboxInv, [Next]_vars, NEW n \in WebNotes
             PROVE  status'[n] \in {"none", "published"}
  BY DEF NotesSettled
<1> USE DEF All
<1>1. status[n] \in {"none", "published"} /\ n \in All /\ n \notin Msgs
  BY OutboxAssumption DEF OutboxInv, NotesSettled
<1>2. ASSUME NEW m \in All, Queue(m) PROVE status'[n] = status[n]
  BY <1>1, <1>2 DEF Queue, OutboxInv, TypeOK
<1>3. ASSUME NEW m \in All, QueueWeb(m) PROVE status'[n] \in {status[n], "published"}
  BY <1>1, <1>3 DEF QueueWeb, OutboxInv, TypeOK
<1>4. ASSUME NEW S \in SUBSET Claimable, SetStatus(S, "publishing")
      PROVE status'[n] = status[n]
  BY <1>1, <1>4, ClaimableMsgs DEF SetStatus, OutboxInv
<1>5. ASSUME NEW w \in Workers, Settle(w) PROVE status'[n] = status[n]
  BY <1>1, <1>5 DEF Settle, Mark, Requeue, SetStatus, Publishing, OutboxInv, TypeOK
<1>6. QED
  BY <1>1, <1>2, <1>3, <1>4, <1>5, StatusStep

\* The web inbox and the broker's history only grow.
LEMMA Grow == OutboxInv /\ [Next]_vars => inbox \subseteq inbox' /\ accepted \subseteq accepted'
BY DEF Next, Tick, Fault, Queue, QueueWeb, ClaimAges, Start, Claim, Tee, Route, Publish,
   Settle, Mark, Requeue, ClaimReplyLost, TeeFails, PublishRefused, PublishUnconfirmed,
   SettleFails, Crash, Accepts, vars

-----------------------------------------------------------------------------
\* What one worker holds, as far as its place says it was handed over.
Holding(w) ==
    /\ done[w] \subseteq batch[w]
    /\ at[w] \in {"down", "idle"} => done[w] = {}
    /\ at[w] = "tee" => done[w] \subseteq inbox \cup Silent
    /\ at[w] \in Settling => batch[w] \subseteq inbox \cup Silent
    /\ at[w] \in Settling => done[w] \subseteq accepted \/ FALSE \in AdapterStates

\* A worker whose hands do not move keeps what it has.
LEMMA Waiting ==
    ASSUME OutboxInv, [Next]_vars, NEW w \in Workers,
           at'[w] = at[w], batch'[w] = batch[w], done'[w] = done[w]
    PROVE  Holding(w)'
<1>1. inbox \subseteq inbox' /\ accepted \subseteq accepted'
  BY Grow
<1>2. Holding(w)
  BY DEF OutboxInv, HandedOver, Holding
<1>3. QED
  BY <1>1, <1>2 DEF Holding

\* A worker that ends its tick, dies or starts holds nothing.
LEMMA EmptyHanded ==
    ASSUME NEW w \in Workers, at'[w] \in {"down", "idle"}, done'[w] = {}
    PROVE  Holding(w)'
BY DEF Holding, Settling

\* Each statement of _run_outbox_delivery moves a message on only after the
\* statement before has handed it over (services/worker_service.py:960-1003).
LEMMA HoldingStep ==
    ASSUME OutboxInv, [Next]_vars, NEW w \in Workers, Tick(w) \/ Fault(w)
    PROVE  Holding(w)'
<1> USE DEF hands
<1>t. TypeOK
  BY DEF OutboxInv
<1>h. Holding(w)
  BY DEF OutboxInv, HandedOver, Holding
<1>1. CASE Claim(w)
  <2>1. at'[w] = "tee" /\ done'[w] = {}
    BY <1>1, <1>t, <1>h DEF Claim, Goto, TypeOK, Holding
  <2>2. QED
    BY <2>1 DEF Holding, Settling
<1>2. CASE Tee(w)
  <2>1. PICK m \in batch[w] : /\ inbox' = inbox \cup ({m} \ Silent)
                             /\ Ticks(w, {m})
    BY <1>2 DEF Tee
  <2>2. at'[w] = "tee" /\ batch'[w] = batch[w] /\ done'[w] = done[w] \cup {m}
    BY <1>2, <1>t, <2>1 DEF Tee, Ticks, TypeOK
  <2>3. at[w] = "tee"
    BY <1>2 DEF Tee
  <2>4. QED
    BY <1>h, <2>1, <2>2, <2>3 DEF Holding, Settling
<1>3. CASE Route(w)
  <2>1. PICK active \in AdapterStates :
           /\ Goto(w, IF active THEN "publish" ELSE "mark")
           /\ done' = [done EXCEPT ![w] = IF active THEN {} ELSE batch[w]]
    BY <1>3 DEF Route
  <2>2. batch'[w] = batch[w] /\ inbox' = inbox /\ batch[w] \subseteq inbox \cup Silent
    BY <1>3, <1>h DEF Route, Holding
  <2>3. CASE active
    <3>1. at'[w] = "publish" /\ done'[w] = {}
      BY <1>t, <2>1, <2>3 DEF Goto, TypeOK
    <3>2. QED
      BY <2>2, <3>1 DEF Holding
  <2>4. CASE ~active
    <3>1. at'[w] = "mark" /\ done'[w] = batch[w]
      BY <1>t, <2>1, <2>4 DEF Goto, TypeOK
    <3>2. FALSE \in AdapterStates
      BY <2>4, OutboxAssumption
    <3>3. QED
      BY <2>2, <3>1, <3>2 DEF Holding
  <2>5. QED
    BY <2>3, <2>4, OutboxAssumption
<1>4. CASE Publish(w)
  <2>1. PICK m \in batch[w] : Accepts(m) /\ Ticks(w, {m})
    BY <1>4 DEF Publish
  <2>2. /\ batch'[w] = batch[w] /\ done'[w] = done[w] \cup {m}
        /\ accepted' = accepted \cup {m} /\ inbox' = inbox
    BY <1>4, <1>t, <2>1 DEF Publish, Ticks, Accepts, TypeOK
  <2>3. at[w] \in Settling /\ at'[w] \in {"publish", "mark"}
    BY <1>4, <1>t DEF Publish, Goto, Settling, TypeOK
  <2>4. QED
    BY <1>h, <2>2, <2>3 DEF Holding
<1>5. CASE PublishRefused(w) \/ PublishUnconfirmed(w)
  <2>1. /\ at[w] \in Settling /\ at'[w] \in Settling
        /\ batch'[w] = batch[w] /\ done'[w] = done[w] /\ inbox' = inbox
    BY <1>5, <1>t DEF PublishRefused, PublishUnconfirmed, AfterStop, Goto, Settling, TypeOK
  <2>2. accepted \subseteq accepted'
    BY Grow
  <2>3. QED
    BY <1>h, <2>1, <2>2 DEF Holding, Settling
<1>6. CASE Mark(w) /\ done[w] # batch[w]
  <2>1. /\ at[w] \in Settling /\ at'[w] = "requeue"
        /\ batch'[w] = batch[w] /\ done'[w] = done[w]
        /\ inbox' = inbox /\ accepted' = accepted
    BY <1>6, <1>t DEF Mark, Goto, Settling, TypeOK
  <2>2. QED
    BY <1>h, <2>1 DEF Holding, Settling
<1>7. CASE (Mark(w) /\ done[w] = batch[w]) \/ Requeue(w) \/ TeeFails(w) \/ SettleFails(w)
  <2>1. EndTick(w)
    BY <1>7 DEF Mark, Requeue, TeeFails, SettleFails
  <2>2. at'[w] = "idle" /\ done'[w] = {}
    BY <1>t, <2>1 DEF EndTick, Goto, TypeOK
  <2>3. QED
    BY <2>2, EmptyHanded
<1>8. CASE Crash(w)
  <2>1. at'[w] = "down" /\ done'[w] = {}
    BY <1>8, <1>t DEF Crash, Goto, TypeOK
  <2>2. QED
    BY <2>1, EmptyHanded
<1>9. CASE ClaimReplyLost(w)
  BY <1>9, Waiting DEF ClaimReplyLost
<1>10. QED
  BY <1>1, <1>2, <1>3, <1>4, <1>5, <1>6, <1>7, <1>8, <1>9 DEF Tick, Settle, Fault

\* A step moves the hands of one worker only.
LEMMA OthersWait ==
    ASSUME TypeOK, [Next]_vars, NEW w \in Workers, ~Tick(w), ~Fault(w), ~Start(w)
    PROVE  at'[w] = at[w] /\ batch'[w] = batch[w] /\ done'[w] = done[w]
<1> USE DEF hands
<1>1. CASE \E m \in All : Queue(m) \/ QueueWeb(m) \/ ClaimAges(m)
  BY <1>1 DEF Queue, QueueWeb, ClaimAges
<1>2. ASSUME NEW v \in Workers, v # w, Start(v) \/ Claim(v) \/ Tee(v) \/ Route(v)
      PROVE at'[w] = at[w] /\ batch'[w] = batch[w] /\ done'[w] = done[w]
  BY <1>2 DEF TypeOK, Start, Claim, Tee, Route, Goto, Ticks
<1>3. ASSUME NEW v \in Workers, v # w, Publish(v) \/ Mark(v) \/ Requeue(v)
      PROVE at'[w] = at[w] /\ batch'[w] = batch[w] /\ done'[w] = done[w]
  BY <1>3 DEF TypeOK, Publish, Mark, Requeue, EndTick, Goto, Ticks
<1>4. ASSUME NEW v \in Workers, v # w, Fault(v)
      PROVE at'[w] = at[w] /\ batch'[w] = batch[w] /\ done'[w] = done[w]
  BY <1>4 DEF TypeOK, Fault, ClaimReplyLost, TeeFails, PublishRefused, PublishUnconfirmed,
     SettleFails, Crash, EndTick, Goto
<1>5. CASE UNCHANGED vars
  BY <1>5 DEF vars
<1>6. QED
  BY <1>1, <1>2, <1>3, <1>4, <1>5 DEF Next, Tick, Settle

LEMMA HandsStep == OutboxInv /\ [Next]_vars => HandedOver'
<1> SUFFICES ASSUME OutboxInv, [Next]_vars, NEW w \in Workers PROVE Holding(w)'
  BY DEF HandedOver, Holding
<1>1. CASE Tick(w) \/ Fault(w)
  BY <1>1, HoldingStep
<1>2. CASE Start(w)
  <2>1. at'[w] = "idle" /\ done'[w] = {}
    BY <1>2 DEF Start, Goto, OutboxInv, TypeOK, HandedOver
  <2>2. QED
    BY <2>1, EmptyHanded
<1>3. CASE ~Tick(w) /\ ~Fault(w) /\ ~Start(w)
  BY <1>3, OthersWait, Waiting DEF OutboxInv
<1>4. QED
  BY <1>1, <1>2, <1>3

-----------------------------------------------------------------------------
\* Where a message must be when its row says "published".
Visible(m) == /\ m \in inbox \cup Silent
              /\ m \in accepted \cup WebNotes \/ FALSE \in AdapterStates

\* A row becomes published by the worker that holds it in done, at a place where
\* it has handed it over, or by the transaction of queue_web_inbox_message.
LEMMA VisibleStep == OutboxInv /\ [Next]_vars => PublishedIsVisible'
<1> SUFFICES ASSUME OutboxInv, [Next]_vars, NEW m \in All, status'[m] = "published"
             PROVE  Visible(m)'
  BY DEF PublishedIsVisible, Visible
<1>1. inbox \subseteq inbox' /\ accepted \subseteq accepted'
  BY Grow
<1>2. CASE status[m] = "published"
  <2>1. Visible(m)
    BY <1>2 DEF OutboxInv, PublishedIsVisible, Visible
  <2>2. QED
    BY <1>1, <2>1 DEF Visible
<1>3. CASE status[m] # "published"
  <2>1. ASSUME NEW n \in All, Queue(n) PROVE FALSE
    BY <1>3, <2>1 DEF Queue, OutboxInv, TypeOK
  <2>2. ASSUME NEW n \in All, QueueWeb(n) PROVE Visible(m)'
    BY <1>3, <2>2 DEF QueueWeb, Visible, OutboxInv, TypeOK
  <2>3. ASSUME NEW S \in SUBSET Claimable, SetStatus(S, "publishing") PROVE FALSE
    BY <1>3, <2>3 DEF SetStatus
  <2>4. ASSUME NEW w \in Workers, Settle(w) PROVE Visible(m)'
    <3>1. CASE Requeue(w)
      BY <1>3, <3>1 DEF Requeue, SetStatus
    <3>2. CASE Mark(w)
      <4>1. m \in done[w] /\ at[w] \in Settling
        BY <1>3, <3>2 DEF Mark, SetStatus, Publishing, Settling
      <4>2. m \in inbox \cup Silent /\ (m \in accepted \/ FALSE \in AdapterStates)
        BY <4>1 DEF OutboxInv, HandedOver
      <4>3. QED
        BY <1>1, <4>2 DEF Visible
    <3>3. QED
      BY <2>4, <3>1, <3>2 DEF Settle
  <2>5. QED
    BY <1>3, <2>1, <2>2, <2>3, <2>4, StatusStep
<1>4. QED
  BY <1>2, <1>3

LEMMA InitOutbox == Init => OutboxInv
<1> SUFFICES ASSUME Init PROVE OutboxInv
  OBVIOUS
<1> USE DEF Init
<1>1. TypeOK
  BY DEF TypeOK
<1>2. NotesSettled /\ PublishedIsVisible
  BY DEF NotesSettled, PublishedIsVisible, All
<1>3. HandedOver
  BY DEF HandedOver, Settling
<1>4. QED
  BY <1>1, <1>2, <1>3 DEF OutboxInv

LEMMA OutboxStep == OutboxInv /\ [Next]_vars => OutboxInv'
BY TypeStep, NotesStep, HandsStep, VisibleStep DEF OutboxInv

LEMMA OutboxInductive == Spec => []OutboxInv
BY InitOutbox, OutboxStep, PTL DEF Spec

\* The rows, the queue and the workers keep their types
\* (db/42_functions_outbox.sql:10-19).
THEOREM OutboxTypeCorrect == Spec => []TypeOK
<1>1. OutboxInv => TypeOK
  BY DEF OutboxInv
<1>2. QED
  BY <1>1, OutboxInductive, PTL

\* No row is published before the user can see its message, whatever workers,
\* timeouts, crashes and failures do (db/42_functions_outbox.sql:95-109).
THEOREM PublishedVisible == Spec => []PublishedIsVisible
<1>1. OutboxInv => PublishedIsVisible
  BY DEF OutboxInv
<1>2. QED
  BY <1>1, OutboxInductive, PTL

\* What is published stays published: every update looks at the status
\* (db/42_functions_outbox.sql:68-73, 104-105, 122-123).
THEOREM PublishedForGood == Spec => PublishedStays
<1>1. OutboxInv /\ [Next]_vars
        => [\A m \in All : status[m] = "published" => status'[m] = "published"]_vars
  <2> SUFFICES ASSUME OutboxInv, [Next]_vars, NEW m \in All, status[m] = "published"
               PROVE  status'[m] = "published"
    OBVIOUS
  <2>1. ASSUME NEW n \in All, Queue(n) \/ QueueWeb(n) PROVE status'[m] = "published"
    BY <2>1 DEF Queue, QueueWeb, OutboxInv, TypeOK
  <2>2. ASSUME NEW S \in SUBSET Claimable, SetStatus(S, "publishing")
        PROVE status'[m] = "published"
    BY <2>2 DEF SetStatus, Claimable
  <2>3. ASSUME NEW w \in Workers, Settle(w) PROVE status'[m] = "published"
    BY <2>3 DEF Settle, Mark, Requeue, SetStatus, Publishing
  <2>4. QED
    BY <2>1, <2>2, <2>3, StatusStep
<1>2. QED
  BY <1>1, OutboxInductive, PTL DEF Spec, PublishedStays
-----------------------------------------------------------------------------
\* The state of m in the abstract hop, and the messages handed over.
StateOf(m) == IF status[m] = "none" THEN "none"
              ELSE IF status[m] = "published" THEN "done" ELSE "owed"
Given == accepted \cup (inbox \cap WebNotes)

\* The two variables of Handover as the refinement maps them.
hop == <<[m \in All |-> StateOf(m)], Given>>

\* Rows of S that go from one of the states From to state to move in the hop.
LEMMA MoveRows ==
    ASSUME NEW S \in SUBSET All, NEW From, NEW to,
           \A m \in S : StateOf(m) \in From /\ StateOf(m)' = to,
           \A m \in All \ S : status'[m] = status[m]
    PROVE  Hop!Move(S, From, to)
BY DEF Hop!Move, StateOf

\* A step that keeps every row on its side of "none" and "published", and hands
\* nothing over, is invisible.
LEMMA Invisible ==
    ASSUME \A m \in All : StateOf(m)' = StateOf(m), Given' = Given
    PROVE  UNCHANGED hop
BY DEF hop

\* Every step of the outbox is a step of the hop or invisible to it.
LEMMA StepRefines ==
    ASSUME FALSE \notin AdapterStates, OutboxInv, [Next]_vars
    PROVE  Hop!Next \/ UNCHANGED hop
<1> USE DEF All, rows
<1>t. TypeOK
  BY DEF OutboxInv
<1>1. ASSUME NEW m \in All, Queue(m) PROVE Hop!Next
  <2>1. Hop!Move({m}, {"none", "dropped"}, "owed")
    <3>1. \A n \in {m} : StateOf(n) \in {"none", "dropped"} /\ StateOf(n)' = "owed"
      BY <1>1, <1>t DEF Queue, StateOf, TypeOK
    <3>2. \A n \in All \ {m} : status'[n] = status[n]
      BY <1>1, <1>t DEF Queue, TypeOK
    <3>3. QED
      BY <3>1, <3>2, MoveRows
  <2>2. Given' = Given
    BY <1>1 DEF Queue, Given
  <2>3. Hop!Owe({m})
    BY <2>1, <2>2 DEF Hop!Owe, Given
  <2>4. QED
    BY <2>3 DEF Hop!Next
<1>2. ASSUME NEW m \in All, QueueWeb(m) PROVE Hop!Next
  <2>1. Hop!Move({m}, {"none"}, "done")
    <3>1. \A n \in {m} : StateOf(n) \in {"none"} /\ StateOf(n)' = "done"
      BY <1>2, <1>t DEF QueueWeb, StateOf, TypeOK
    <3>2. \A n \in All \ {m} : status'[n] = status[n]
      BY <1>2, <1>t DEF QueueWeb, TypeOK
    <3>3. QED
      BY <3>1, <3>2, MoveRows
  <2>2. Given' = Given \cup {m}
    BY <1>2 DEF QueueWeb, Given
  <2>3. Hop!Post(m)
    BY <2>1, <2>2 DEF Hop!Post, Given
  <2>4. QED
    BY <2>3 DEF Hop!Next
<1>3. ASSUME NEW S \in SUBSET Claimable, SetStatus(S, "publishing"), Given' = Given
      PROVE UNCHANGED hop
  BY <1>3, Invisible DEF SetStatus, Claimable, StateOf
<1>4. ASSUME NEW w \in Workers, Requeue(w) PROVE UNCHANGED hop
  <2>1. Given' = Given
    BY <1>4 DEF Requeue, Given
  <2>2. \A m \in All : StateOf(m)' = StateOf(m)
    BY <1>4 DEF Requeue, SetStatus, Publishing, StateOf
  <2>3. QED
    BY <2>1, <2>2, Invisible
<1>5. ASSUME NEW w \in Workers, Mark(w) PROVE Hop!Next
  <2>0. PICK S : S = Publishing(done[w])
    OBVIOUS
  <2>1. S \in SUBSET All /\ S \subseteq accepted
    BY <1>5, <1>t, <2>0 DEF Mark, Publishing, OutboxInv, HandedOver, Settling, TypeOK
  <2>2. Hop!Move(S, {"owed", "done"}, "done")
    <3>1. \A m \in S : StateOf(m) \in {"owed", "done"} /\ StateOf(m)' = "done"
      BY <1>5, <2>0, <2>1 DEF Mark, SetStatus, Publishing, StateOf
    <3>2. \A m \in All \ S : status'[m] = status[m]
      BY <1>5, <2>0 DEF Mark, SetStatus
    <3>3. QED
      BY <2>1, <3>1, <3>2, MoveRows
  <2>3. Given' = Given
    BY <1>5 DEF Mark, Given
  <2>4. Hop!Finish(S)
    BY <2>1, <2>2, <2>3 DEF Hop!Finish, Given
  <2>5. QED
    BY <2>1, <2>4 DEF Hop!Next
<1>6. ASSUME NEW m \in Msgs, Accepts(m), UNCHANGED <<status, inbox>> PROVE Hop!Next
  <2>1. Given' = Given \cup {m}
    BY <1>6 DEF Accepts, Given
  <2>2. Hop!Give({m})
    BY <1>6, <2>1 DEF Hop!Give, Given, StateOf
  <2>3. QED
    BY <2>2 DEF Hop!Next
<1>7. ASSUME UNCHANGED status, UNCHANGED accepted, inbox' \cap WebNotes = inbox \cap WebNotes
      PROVE UNCHANGED hop
  BY <1>7, Invisible DEF StateOf, Given
<1>8. ASSUME NEW w \in Workers, Tick(w) PROVE Hop!Next \/ UNCHANGED hop
  <2>1. CASE Claim(w)
    BY <1>3, <2>1 DEF Claim, Given
  <2>2. CASE Tee(w)
    BY <1>t, <1>7, <2>2, OutboxAssumption DEF Tee, TypeOK
  <2>3. CASE Route(w)
    BY <1>7, <2>3 DEF Route
  <2>4. CASE Publish(w)
    BY <1>t, <1>6, <2>4 DEF Publish, TypeOK
  <2>5. CASE Settle(w)
    BY <1>4, <1>5, <2>5 DEF Settle
  <2>6. QED
    BY <1>8, <2>1, <2>2, <2>3, <2>4, <2>5 DEF Tick
<1>9. ASSUME NEW w \in Workers, Fault(w) PROVE Hop!Next \/ UNCHANGED hop
  <2>1. CASE ClaimReplyLost(w)
    BY <1>3, <2>1 DEF ClaimReplyLost, Given
  <2>2. CASE PublishUnconfirmed(w)
    BY <1>t, <1>6, <2>2 DEF PublishUnconfirmed, TypeOK
  <2>3. CASE TeeFails(w) \/ PublishRefused(w) \/ SettleFails(w) \/ Crash(w)
    BY <1>7, <2>3 DEF TeeFails, PublishRefused, SettleFails, Crash
  <2>4. QED
    BY <1>9, <2>1, <2>2, <2>3 DEF Fault
<1>10. ASSUME NEW m \in All, ClaimAges(m) PROVE UNCHANGED hop
  BY <1>7, <1>10 DEF ClaimAges
<1>11. ASSUME NEW w \in Workers, Start(w) PROVE UNCHANGED hop
  BY <1>7, <1>11 DEF Start
<1>12. CASE UNCHANGED vars
  BY <1>7, <1>12 DEF vars
<1>13. QED
  BY <1>1, <1>2, <1>8, <1>9, <1>10, <1>11, <1>12 DEF Next

\* While channel adapters are active, the outbox is an at-least-once hop: nothing
\* is called done before the broker, or for a note the web inbox, has it.
THEOREM Refinement == ASSUME FALSE \notin AdapterStates PROVE Spec => ImplementsHandover
<1>1. Init => Hop!Init
  BY DEF Init, Hop!Init, All
<1>2. OutboxInv /\ [Next]_vars => [Hop!Next]_(Hop!handover)
  BY StepRefines DEF Hop!handover, hop, StateOf, Given
<1>3. QED
  BY <1>1, <1>2, OutboxInductive, PTL DEF Spec, ImplementsHandover, Hop!Spec
-----------------------------------------------------------------------------
\* The order of first publication, with one worker and a broker that fails.
\*
\* While neither the worker nor a statement has failed, a row is "publishing" only
\* while the worker has it in its batch, so the claim of a batch leaves nothing
\* older behind, and what is published has left the batch from its older end.
Orderly == crashes = 0 /\ dbErrors = 0

\* A row has a rank once it is inserted, and the next rank is above all others.
RanksBelow == \A m \in All : created[m] < NextRank
RankedRows == \A m \in All : created[m] = 0 <=> status[m] = "none"

\* What is under way is in the batch of w, less what w has marked.
InBatch(w) ==
    /\ at[w] \in {"down", "idle"} => batch[w] = {}
    /\ \A m \in batch[w] : created[m] # 0
    /\ \A m \in All : status[m] = "publishing" => m \in batch[w]
    /\ at[w] = "requeue" => \A m \in done[w] : status[m] # "publishing"
    /\ at[w] = "publish" => done[w] \subseteq accepted

\* Everything older than a row of the batch of w is in the batch or published.
OldestTaken(w) ==
    \A m \in batch[w], n \in Msgs \ batch[w] :
        created[n] # 0 /\ created[n] < created[m] => status[n] = "published"

OrderInv == /\ OutboxInv /\ RanksBelow /\ RankedRows
            /\ Orderly => \A w \in Workers : InBatch(w) /\ OldestTaken(w)

\* Rows are inserted with the next rank and never lose it; published stays.
LEMMA RowsAge ==
    ASSUME OutboxInv, RanksBelow, RankedRows, [Next]_vars
    PROVE  /\ RanksBelow' /\ RankedRows'
           /\ \A m \in All : /\ created[m] # 0 => created'[m] = created[m]
                             /\ created[m] = 0 => created'[m] \in {0, NextRank}
                             /\ status[m] = "published" => status'[m] = "published"
<1> DEFINE Inserted == {m \in All : status[m] # "none"}
           Kept == \A m \in All : /\ created[m] # 0 => created'[m] = created[m]
                                  /\ created[m] = 0 => created'[m] \in {0, NextRank}
                                  /\ status[m] = "published" => status'[m] = "published"
<1> USE DEF OutboxInv, TypeOK
<1>r. NextRank \in Nat \ {0}
  BY NextRankIs
<1>1. ASSUME NEW m \in All, Queue(m) \/ QueueWeb(m) PROVE RanksBelow' /\ RankedRows' /\ Kept
  <2>1. /\ status[m] = "none" /\ status'[m] \in {"pending", "published"}
        /\ created' = [created EXCEPT ![m] = NextRank]
        /\ \A n \in All \ {m} : status'[n] = status[n]
    BY <1>1 DEF Queue, QueueWeb
  <2>2. Inserted' = Inserted \cup {m} /\ m \notin Inserted
    BY <2>1
  <2>3. NextRank' = NextRank + 1
    <3>1. IsFiniteSet(Inserted) /\ Cardinality(Inserted) \in Nat
      BY NextRankIs, FS_CardinalityType
    <3> HIDE DEF Inserted
    <3>2. Cardinality(Inserted \cup {m}) = Cardinality(Inserted) + 1
      BY <2>2, <3>1, FS_AddElement
    <3>3. NextRank = Cardinality(Inserted) + 1 /\ NextRank' = Cardinality(Inserted') + 1
      BY DEF NextRank, Inserted
    <3>4. QED
      BY <2>2, <3>1, <3>2, <3>3
  <2>4. created[m] = 0
    BY <2>1 DEF RankedRows
  <2>5. RanksBelow'
    BY <1>r, <2>1, <2>3 DEF RanksBelow
  <2>6. RankedRows'
    BY <1>r, <2>1 DEF RankedRows
  <2>7. Kept
    BY <2>1, <2>4
  <2>8. QED
    BY <2>5, <2>6, <2>7
<1>2. ASSUME UNCHANGED created,
             \A m \in All : /\ status'[m] = "none" <=> status[m] = "none"
                            /\ status[m] = "published" => status'[m] = "published"
      PROVE  RanksBelow' /\ RankedRows' /\ Kept
  <2>1. {n \in All : status'[n] # "none"} = {n \in All : status[n] # "none"}
    BY <1>2
  <2>2. NextRank' = NextRank
    BY <2>1 DEF NextRank
  <2>3. QED
    BY <1>2, <2>2 DEF RanksBelow, RankedRows
<1>3. ASSUME NEW S \in SUBSET Claimable, SetStatus(S, "publishing")
      PROVE  RanksBelow' /\ RankedRows' /\ Kept
  BY <1>2, <1>3 DEF SetStatus, Claimable
<1>4. ASSUME NEW w \in Workers, Settle(w) PROVE RanksBelow' /\ RankedRows' /\ Kept
  BY <1>2, <1>4 DEF Settle, Mark, Requeue, SetStatus, Publishing
<1>5. CASE UNCHANGED <<status, created>>
  BY <1>2, <1>5
<1>6. \/ \E m \in All : Queue(m) \/ QueueWeb(m)
      \/ \E S \in SUBSET Claimable : SetStatus(S, "publishing")
      \/ \E w \in Workers : Settle(w)
      \/ UNCHANGED <<status, created>>
  BY DEF rows, Next, Tick, Fault, ClaimAges, Start, Claim, Tee, Route, Publish,
     ClaimReplyLost, TeeFails, PublishRefused, PublishUnconfirmed, SettleFails, Crash, vars
<1>7. QED
  BY <1>1, <1>3, <1>4, <1>5, <1>6

\* A step that leaves the batch and the rows under way alone keeps both.
LEMMA BatchStays ==
    ASSUME OrderInv, [Next]_vars, NEW w \in Workers, InBatch(w), OldestTaken(w),
           batch'[w] = batch[w]
    PROVE  OldestTaken(w)'
<1> SUFFICES ASSUME NEW m \in batch[w], NEW n \in Msgs \ batch[w],
                    created'[n] # 0, created'[n] < created'[m]
             PROVE  status'[n] = "published"
  BY DEF OldestTaken
<1>1. m \in All /\ n \in All /\ created \in [All -> Nat] /\ NextRank \in Nat
  BY RankType DEF OrderInv, OutboxInv, TypeOK, All
<1>2. /\ created[m] # 0 => created'[m] = created[m]
      /\ created[m] = 0 => created'[m] \in {0, NextRank}
      /\ created[n] # 0 => created'[n] = created[n]
      /\ created[n] = 0 => created'[n] \in {0, NextRank}
      /\ status[n] = "published" => status'[n] = "published"
  BY <1>1, RowsAge DEF OrderInv
<1>3. created[m] < NextRank /\ created[n] < NextRank
  BY <1>1 DEF OrderInv, RanksBelow
<1>4. QED
  BY <1>1, <1>2, <1>3 DEF OldestTaken, InBatch

\* With one worker, the worker at work is w and has the batch for itself.
LEMMA OrderStep ==
    ASSUME \A v, w \in Workers : v = w, OrderInv, [Next]_vars, Orderly', NEW w \in Workers
    PROVE  InBatch(w)' /\ OldestTaken(w)'
<1> USE DEF rows, hands, bounds
<1>t. TypeOK /\ OutboxInv
  BY DEF OrderInv, OutboxInv
<1>u. /\ created \in [All -> Nat] /\ NextRank \in Nat
      /\ batch[w] \subseteq Msgs /\ Msgs \subseteq All
      /\ at \in [Workers -> {"down", "idle", "tee", "publish", "mark", "requeue"}]
      /\ batch \in [Workers -> SUBSET Msgs] /\ done \in [Workers -> SUBSET Msgs]
  BY <1>t, RankType DEF TypeOK, All
<1>o. Orderly /\ ~DbError /\ \A v \in Workers : ~Crash(v)
  <2>1. crashes \in Nat /\ dbErrors \in Nat
    BY <1>t DEF TypeOK
  <2>2. crashes' = 0 /\ dbErrors' = 0
    BY DEF Orderly
  <2>3. ~DbError /\ \A v \in Workers : ~Crash(v)
    BY <2>1, <2>2 DEF DbError, Crash
  <2>4. UNCHANGED <<crashes, dbErrors>>
    BY <2>3 DEF Next, Tick, Fault, Queue, QueueWeb, ClaimAges, Start, Claim, Tee, Route,
       Publish, Settle, Mark, Requeue, ClaimReplyLost, TeeFails, PublishRefused,
       PublishUnconfirmed, SettleFails, BrokerError, vars
  <2>5. QED
    BY <2>2, <2>3, <2>4 DEF Orderly
<1>i. InBatch(w) /\ OldestTaken(w)
  BY <1>o DEF OrderInv
<1>r. \A m \in All : created[m] # 0 => created'[m] = created[m]
  BY RowsAge DEF OrderInv
<1>a. ASSUME batch'[w] = batch[w], at'[w] = at[w], done'[w] = done[w],
             accepted \subseteq accepted',
             \A m \in All : status'[m] = "publishing" => status[m] = "publishing",
             at[w] = "requeue" => \A m \in done[w] : status'[m] = status[m]
      PROVE  InBatch(w)' /\ OldestTaken(w)'
  <2>1. InBatch(w)'
    BY <1>a, <1>i, <1>r, <1>u DEF InBatch
  <2>2. QED
    BY <1>a, <1>i, <2>1, BatchStays
<1>b. ASSUME batch'[w] = {}, at'[w] \in {"down", "idle"},
             \A m \in All : status'[m] # "publishing"
      PROVE  InBatch(w)' /\ OldestTaken(w)'
  BY <1>b DEF InBatch, OldestTaken
<1>1. ASSUME NEW m \in All, Queue(m) \/ QueueWeb(m) \/ ClaimAges(m)
      PROVE  InBatch(w)' /\ OldestTaken(w)'
  <2>1. \A n \in All : status[n] = "publishing" \/ status'[n] # "publishing"
    BY <1>1, <1>t DEF Queue, QueueWeb, ClaimAges, TypeOK
  <2>2. at[w] = "requeue" => \A n \in done[w] : status'[n] = status[n]
    <3>1. \A n \in done[w] : n \in batch[w] /\ n \in All /\ status[n] # "none"
      BY <1>i, <1>t, <1>u DEF InBatch, OutboxInv, HandedOver, OrderInv, RankedRows
    <3>2. QED
      BY <1>1, <1>t, <3>1 DEF Queue, QueueWeb, ClaimAges, TypeOK
  <2>3. QED
    BY <1>1, <1>a, <2>1, <2>2 DEF Queue, QueueWeb, ClaimAges
<1>2. CASE Start(w)
  <2>1. batch'[w] = {} /\ at'[w] = "idle" /\ \A m \in All : status'[m] # "publishing"
    BY <1>2, <1>i, <1>u DEF Start, Goto, InBatch
  <2>2. QED
    BY <1>b, <2>1
<1>3. CASE Claim(w)
  <2>1. PICK S \in SUBSET Claimable :
          /\ IsBatch(S, Claimable) /\ SetStatus(S, "publishing")
          /\ batch' = [batch EXCEPT ![w] = S]
    BY <1>3 DEF Claim
  <2>2. batch'[w] = S /\ at'[w] = "tee" /\ UNCHANGED created /\ S \subseteq All
    BY <1>3, <1>u, <2>1 DEF Claim, Goto, SetStatus, Claimable
  <2>3. \A m \in All : status[m] # "publishing"
    BY <1>3, <1>i DEF Claim, InBatch
  <2>4. \A m \in All : status'[m] = IF m \in S THEN "publishing" ELSE status[m]
    BY <2>1 DEF SetStatus
  <2>5. InBatch(w)'
    BY <2>2, <2>3, <2>4 DEF InBatch, Claimable, OrderInv, RankedRows
  <2>6. ASSUME NEW m \in S, NEW n \in Msgs \ S, created[n] # 0, created[n] < created[m]
        PROVE  status'[n] = "published"
    <3>1. m \in All /\ n \in All
      BY <1>u, <2>2
    <3>2. n \notin Claimable
      <4>1. n \in Claimable => created[m] <= created[n]
        BY <2>1, <2>6 DEF IsBatch
      <4>2. QED
        BY <1>u, <2>6, <3>1, <4>1
    <3>3. status[n] \in {"none", "pending", "publishing", "published"} /\ status[n] # "none"
      BY <1>t, <2>6, <3>1 DEF TypeOK, OrderInv, RankedRows
    <3>4. QED
      BY <2>3, <2>4, <3>1, <3>2, <3>3 DEF Claimable
  <2>7. QED
    BY <2>2, <2>5, <2>6 DEF OldestTaken
<1>4. CASE Tee(w) \/ Route(w) \/ Publish(w) \/ PublishRefused(w) \/ PublishUnconfirmed(w)
  <2>1. UNCHANGED <<status, batch>>
    BY <1>4 DEF Tee, Route, Publish, PublishRefused, PublishUnconfirmed
  <2>2. /\ at'[w] \notin {"down", "idle"}
        /\ at'[w] = "requeue" => done'[w] = {}
        /\ at'[w] = "publish" => done'[w] \subseteq accepted'
    <3>1. CASE Tee(w)
      BY <1>u, <3>1 DEF Tee, Ticks
    <3>2. CASE Route(w)
      <4>1. PICK active \in AdapterStates :
              /\ Goto(w, IF active THEN "publish" ELSE "mark")
              /\ done' = [done EXCEPT ![w] = IF active THEN {} ELSE batch[w]]
        BY <3>2 DEF Route
      <4>2. active \in BOOLEAN
        BY OutboxAssumption
      <4>3. QED
        BY <1>u, <4>1, <4>2 DEF Goto
    <3>3. CASE Publish(w)
      <4>1. PICK m \in batch[w] : /\ Accepts(m) /\ Ticks(w, {m})
                                  /\ Goto(w, IF done[w] \cup {m} = batch[w] THEN "mark" ELSE "publish")
        BY <3>3 DEF Publish
      <4>2. at'[w] \in {"mark", "publish"} /\ done'[w] = done[w] \cup {m}
        BY <1>u, <4>1 DEF Goto, Ticks
      <4>3. at[w] = "publish" /\ done[w] \subseteq accepted
        BY <1>i, <3>3 DEF Publish, InBatch
      <4>4. QED
        BY <4>1, <4>2, <4>3 DEF Accepts
    <3>4. CASE PublishRefused(w) \/ PublishUnconfirmed(w)
      BY <1>u, <3>4 DEF PublishRefused, PublishUnconfirmed, Goto, AfterStop
    <3>5. QED
      BY <1>4, <3>1, <3>2, <3>3, <3>4
  <2>3. InBatch(w)'
    BY <1>i, <1>r, <1>u, <2>1, <2>2 DEF InBatch
  <2>4. QED
    BY <1>i, <2>1, <2>3, BatchStays
<1>5. CASE Mark(w) \/ Requeue(w)
  <2>1. CASE Mark(w) /\ done[w] # batch[w]
    <3>1. at'[w] = "requeue" /\ UNCHANGED <<batch, done>>
      BY <1>u, <2>1 DEF Mark, Goto
    <3>2. \A m \in All : status'[m] = IF m \in Publishing(done[w]) THEN "published" ELSE status[m]
      BY <2>1 DEF Mark, SetStatus
    <3>3. \A m \in done[w] : m \in All
      BY <1>u
    <3>4. InBatch(w)'
      BY <1>i, <1>r, <1>u, <3>1, <3>2, <3>3 DEF InBatch, Publishing
    <3>5. QED
      BY <1>i, <3>1, <3>4, BatchStays
  <2>2. CASE Mark(w) /\ done[w] = batch[w]
    <3>1. at'[w] = "idle" /\ batch'[w] = {}
      BY <1>u, <2>2 DEF Mark, EndTick, Goto
    <3>2. \A m \in All : status'[m] # "publishing"
      BY <1>i, <2>2 DEF Mark, SetStatus, Publishing, InBatch
    <3>3. QED
      BY <1>b, <3>1, <3>2
  <2>3. CASE Requeue(w)
    <3>1. at'[w] = "idle" /\ batch'[w] = {}
      BY <1>u, <2>3 DEF Requeue, EndTick, Goto
    <3>2. \A m \in All : status'[m] # "publishing"
      BY <1>i, <2>3 DEF Requeue, SetStatus, Publishing, InBatch
    <3>3. QED
      BY <1>b, <3>1, <3>2
  <2>4. QED
    BY <1>5, <2>1, <2>2, <2>3
<1>6. CASE UNCHANGED vars
  BY <1>6, <1>a DEF vars
<1>7. \A v \in Workers : v = w
  OBVIOUS
<1>8. QED
  BY <1>o, <1>1, <1>2, <1>3, <1>4, <1>5, <1>6, <1>7
     DEF Next, Tick, Settle, Fault, ClaimReplyLost, TeeFails, SettleFails

\* With one worker, and while only the broker misbehaves, a message reaches the
\* broker for the first time after every older one that is still to be sent, for
\* any number of messages, batches and failing publishes; older is committed earlier
\* (services/worker_service.py, _run_outbox_delivery).
THEOREM OldestFirst == ASSUME \A v, w \in Workers : v = w PROVE Spec => OrderKept
<1>1. Init => OrderInv
  <2> SUFFICES ASSUME Init PROVE OrderInv
    OBVIOUS
  <2>1. OutboxInv
    BY InitOutbox
  <2>2. RanksBelow /\ RankedRows
    BY NextRankIs DEF Init, RanksBelow, RankedRows
  <2>3. ASSUME NEW w \in Workers PROVE InBatch(w) /\ OldestTaken(w)
    BY DEF Init, InBatch, OldestTaken, All
  <2>4. QED
    BY <2>1, <2>2, <2>3 DEF OrderInv
<1>2. OrderInv /\ [Next]_vars => OrderInv'
  BY OutboxStep, RowsAge, OrderStep DEF OrderInv
<1>3. OrderInv /\ [Next]_vars =>
        [crashes = 0 /\ dbErrors = 0 =>
          \A m \in accepted' \ accepted, n \in Msgs :
             created[n] # 0 /\ created[n] < created[m]
                => n \in accepted \/ status[n] = "published"]_vars
  <2> SUFFICES ASSUME OrderInv, [Next]_vars, Orderly,
                      NEW m \in accepted' \ accepted, NEW n \in Msgs,
                      created[n] # 0, created[n] < created[m]
               PROVE  n \in accepted \/ status[n] = "published"
    BY DEF Orderly
  <2>1. PICK w \in Workers : at[w] = "publish" /\ IsNext(w, m)
    <3>1. PICK w \in Workers : Publish(w) \/ PublishUnconfirmed(w)
      BY DEF Next, Tick, Fault, Queue, QueueWeb, ClaimAges, Start, Claim, Tee, Route, Settle,
         Mark, Requeue, ClaimReplyLost, TeeFails, PublishRefused, SettleFails, Crash, vars
    <3>2. QED
      BY <3>1 DEF Publish, PublishUnconfirmed, Accepts
  <2>2. InBatch(w) /\ OldestTaken(w)
    BY DEF OrderInv
  <2>3. CASE n \in batch[w]
    <3>1. n \notin done[w] => created[m] <= created[n]
      BY <2>1, <2>3 DEF IsNext
    <3>2. created[m] \in Nat /\ created[n] \in Nat
      BY <2>1 DEF OrderInv, OutboxInv, TypeOK, IsNext, All
    <3>3. n \in done[w]
      BY <3>1, <3>2
    <3>4. QED
      BY <2>1, <2>2, <3>3 DEF InBatch
  <2>4. CASE n \notin batch[w]
    BY <2>1, <2>2, <2>4 DEF OldestTaken, IsNext
  <2>5. QED
    BY <2>3, <2>4
<1>4. QED
  BY <1>1, <1>2, <1>3, PTL DEF Spec, OrderKept
-----------------------------------------------------------------------------
\* Replacement for any sections, files, agents, operators, requests,
\* edits and failures.
\*
\* Everything rests on the locks: who compares and writes holds the gate and its
\* request's row, so no one else decides that request or writes meanwhile; and a
\* request that is not committed belongs to the one transaction that holds the gate.
Inside == {"ready", "checked", "kept", "written", "verified"}

\* A transaction knows its request, and holds what it needs for where it is.
Holds(a) ==
    /\ tx[a].at = "measured" => tx[a].file \in Files
    /\ IF tx[a].at \in {"idle", "measured"} THEN tx[a].row = Nobody
       ELSE /\ tx[a].row \in Replacements
            /\ tx[a].file \in Files /\ tx[a].file = file[tx[a].row]
            /\ verdict[tx[a].row] # "none"
    /\ tx[a].at \in Inside \cup {"enqueued"} => gate = a
    /\ tx[a].at \in Inside \cup {"accepted"} => rowLock[tx[a].row] = a
    /\ tx[a].at = "undoing" => tx[a].does = "revert" /\ undo[tx[a].row] # "none"
    /\ tx[a].at \in {"enqueued", "accepted", "measured"} => tx[a].does # "revert"
    /\ tx[a].at = "accepted" => verdict[tx[a].row] \in Undecided
    /\ tx[a].at \in Inside =>
          IF tx[a].does = "revert" THEN verdict[tx[a].row] = "executed"
          ELSE verdict[tx[a].row] \in Undecided \cup {"draft"}
TxHolds == \A a \in Actors : Holds(a)

\* A locked row is the request of who locked it, or one that lapses with its decision.
LockKept(r) == rowLock[r] # Nobody =>
    /\ tx[rowLock[r]].at \in Inside \cup {"accepted"}
    /\ r = tx[rowLock[r]].row \/ verdict[r] \in Undecided
LocksHeld == \A r \in Replacements : LockKept(r)

\* A request that is not committed is worked on behind the gate.
Hidden(a) == \A r \in Replacements :
    verdict[r] = "draft" /\ tx[a].row = r => tx[a].at \in Inside \cup {"enqueued"}
DraftsHidden == \A a \in Actors : Hidden(a)

RowsMatch == \A r \in Replacements :
    /\ verdict[r] # "none" => file[r] \in Files
    /\ undo[r] # "none" => verdict[r] \in {"executed", "reverted"}

\* Between comparison and write the section is what it was compared with, and so
\* is the copy.
Fits(a) == a \notin missed =>
    /\ tx[a].at \in {"checked", "kept"} => self[Target(a)] = Expected(a)
    /\ tx[a].at \in {"written", "verified"} => tx[a].erased = Expected(a)
    /\ tx[a].at \in {"kept", "written", "verified"} /\ tx[a].does # "revert" =>
          tx[a].copy = base[tx[a].row]
AllFit == \A a \in Actors : Fits(a)

Bound == TxHolds /\ LocksHeld /\ DraftsHidden /\ RowsMatch
ReplacementInv == ReplacementTypeOK /\ Bound /\ AllFit /\ SnapshotsFit

\* What a step may do to the transactions: only a's changes.
Only(a) == \A b \in Actors \ {a} : tx'[b] = tx[b]

\* What a step of a leaves to the others: the gate and the rows they hold, the
\* decisions on those, and the section while they are behind the gate.
Behind(a) == tx[a].at \in Inside \cup {"enqueued"}
OwnDraft(a, r) == verdict[r] = "draft" /\ tx[a].row = r /\ Behind(a)
LocksFrame(a) ==
    /\ Only(a)
    /\ gate' = gate \/ gate \in {Nobody, a}
    /\ \A r \in Replacements :
          rowLock'[r] = rowLock[r] \/ {rowLock[r], rowLock'[r]} \subseteq {Nobody, a}
    /\ missed \ {a} \subseteq missed'
RowsFrame(a) ==
    /\ \A r \in Replacements :
          \/ verdict'[r] = verdict[r]
          \/ /\ verdict[r] \in Undecided /\ rowLock[r] \in {Nobody, a}
             /\ verdict'[r] \notin {"none", "draft"}
          \/ OwnDraft(a, r) /\ verdict'[r] # "draft"
          \/ verdict[r] = "none" /\ verdict'[r] = "draft"
          \/ verdict[r] = "executed" /\ verdict'[r] = "reverted" /\ Behind(a)
    /\ \A r \in Replacements :
          \/ file'[r] = file[r] /\ base'[r] = base[r]
          \/ verdict[r] = "none" \/ OwnDraft(a, r)
    /\ \A r \in Replacements : undo[r] # "none" => undo'[r] # "none"
    /\ self' = self \/ Behind(a)
Frame(a) == LocksFrame(a) /\ RowsFrame(a)
-----------------------------------------------------------------------------
LEMMA InitInv == ReplacementInit => ReplacementInv
<1> SUFFICES ASSUME ReplacementInit PROVE ReplacementInv
  OBVIOUS
<1> USE ReplacementAssumption DEF ReplacementInit
<1>1. \A a \in Actors : tx[a] = NoTx
  OBVIOUS
<1>2. NoTx \in TxState
  BY DEF NoTx, TxState, Nothing
<1>3. ReplacementTypeOK
  BY <1>2 DEF ReplacementTypeOK, Undecided, Settled, Refusals
<1>4. Bound
  BY <1>1 DEF Bound, TxHolds, LocksHeld, DraftsHidden, RowsMatch, Holds, LockKept, Hidden, NoTx, Inside
<1>5. AllFit /\ SnapshotsFit
  BY <1>1 DEF AllFit, Fits, SnapshotsFit, NoTx
<1>6. QED
  BY <1>3, <1>4, <1>5 DEF ReplacementInv

LEMMA FilesTyped == ASSUME NEW f \in Files
                    PROVE  f.section \in Sections /\ f.to \in SUBSET Records
BY ReplacementAssumption

LEMMA NoTxTyped == NoTx \in TxState /\ NoTx.at = "idle" /\ NoTx.row = Nobody
BY DEF NoTx, TxState, Nothing

\* Each kind of step of a transaction, field by field.
LEMMA Begins ==
    ASSUME tx \in [Actors -> TxState], NEW a \in Actors, NEW f \in Files,
           NEW d \in {"import", "override"}, self \in [Sections -> SUBSET Records],
           tx' = [tx EXCEPT ![a] = [NoTx EXCEPT !.at = "measured", !.does = d,
                                                !.file = f, !.seen = self]]
    PROVE  /\ tx' \in [Actors -> TxState] /\ Only(a)
           /\ tx'[a].at = "measured" /\ tx'[a].does = d
           /\ tx'[a].row = Nobody /\ tx'[a].file = f
BY NoTxTyped DEF TxState, Only

LEMMA Takes ==
    ASSUME tx \in [Actors -> TxState], NEW a \in Actors, NEW r \in Replacements,
           NEW f \in Files, NEW p \in {"accepted", "undoing"}, NEW d \in {"accept", "revert"},
           tx' = [tx EXCEPT ![a] = [NoTx EXCEPT !.at = p, !.does = d, !.row = r, !.file = f]]
    PROVE  /\ tx' \in [Actors -> TxState] /\ Only(a)
           /\ tx'[a].at = p /\ tx'[a].does = d /\ tx'[a].row = r /\ tx'[a].file = f
BY NoTxTyped DEF TxState, Only

LEMMA Enqueues ==
    ASSUME tx \in [Actors -> TxState], NEW a \in Actors, NEW r \in Replacements,
           tx' = [tx EXCEPT ![a].at = "enqueued", ![a].row = r]
    PROVE  /\ tx' \in [Actors -> TxState] /\ Only(a)
           /\ tx'[a].at = "enqueued" /\ tx'[a].does = tx[a].does
           /\ tx'[a].row = r /\ tx'[a].file = tx[a].file
<1>1. Only(a)
  BY DEF Only
<1>0. [tx[a] EXCEPT !.at = "enqueued", !.row = r] \in TxState
  BY DEF TxState
<1>2. tx' \in [Actors -> TxState]
  BY <1>0
<1>3. tx'[a].at = "enqueued" /\ tx'[a].row = r
  BY DEF TxState
<1>4. tx'[a].does = tx[a].does /\ tx'[a].file = tx[a].file
  BY DEF TxState
<1>5. QED
  BY <1>1, <1>2, <1>3, <1>4

\* A step behind the gate goes on with the same request.
Continues(a, place) ==
    /\ tx' \in [Actors -> TxState] /\ Only(a)
    /\ tx'[a].at = place /\ tx'[a].does = tx[a].does
    /\ tx'[a].row = tx[a].row /\ tx'[a].file = tx[a].file

LEMMA Advances ==
    ASSUME tx \in [Actors -> TxState], NEW a \in Actors, NEW p \in Inside,
           tx' = [tx EXCEPT ![a].at = p]
    PROVE  Continues(a, p) /\ tx'[a].copy = tx[a].copy /\ tx'[a].erased = tx[a].erased
<1>1. Only(a)
  BY DEF Only
<1>0. [tx[a] EXCEPT !.at = p] \in TxState
  BY DEF TxState, Inside
<1>2. tx' \in [Actors -> TxState]
  BY <1>0
<1>3. tx'[a].at = p /\ tx'[a].does = tx[a].does /\ tx'[a].row = tx[a].row /\ tx'[a].file = tx[a].file
  BY DEF TxState
<1>4. tx'[a].copy = tx[a].copy /\ tx'[a].erased = tx[a].erased
  BY DEF TxState
<1>5. QED
  BY <1>1, <1>2, <1>3, <1>4 DEF Continues

LEMMA Sees ==
    ASSUME tx \in [Actors -> TxState], NEW a \in Actors,
           self \in [Sections -> SUBSET Records],
           tx' = [tx EXCEPT ![a].at = "checked", ![a].seen = self]
    PROVE  Continues(a, "checked")
<1>1. Only(a)
  BY DEF Only
<1>0. [tx[a] EXCEPT !.at = "checked", !.seen = self] \in TxState
  BY DEF TxState
<1>2. tx' \in [Actors -> TxState]
  BY <1>0
<1>3. tx'[a].at = "checked" /\ tx'[a].does = tx[a].does /\ tx'[a].row = tx[a].row /\ tx'[a].file = tx[a].file
  BY DEF TxState
<1>4. QED
  BY <1>1, <1>2, <1>3 DEF Continues

LEMMA Copies ==
    ASSUME tx \in [Actors -> TxState], NEW a \in Actors, NEW c \in SUBSET Records,
           tx' = [tx EXCEPT ![a].at = "kept", ![a].copy = c]
    PROVE  Continues(a, "kept") /\ tx'[a].copy = c
<1>1. Only(a)
  BY DEF Only
<1>0. [tx[a] EXCEPT !.at = "kept", !.copy = c] \in TxState
  BY DEF TxState
<1>2. tx' \in [Actors -> TxState]
  BY <1>0
<1>3. tx'[a].at = "kept" /\ tx'[a].does = tx[a].does /\ tx'[a].row = tx[a].row /\ tx'[a].file = tx[a].file
  BY DEF TxState
<1>4. tx'[a].copy = c
  BY DEF TxState
<1>5. QED
  BY <1>1, <1>2, <1>3, <1>4 DEF Continues

LEMMA Erases ==
    ASSUME tx \in [Actors -> TxState], NEW a \in Actors, NEW e \in SUBSET Records,
           tx' = [tx EXCEPT ![a].at = "written", ![a].erased = e]
    PROVE  Continues(a, "written") /\ tx'[a].copy = tx[a].copy /\ tx'[a].erased = e
<1>1. Only(a)
  BY DEF Only
<1>0. [tx[a] EXCEPT !.at = "written", !.erased = e] \in TxState
  BY DEF TxState
<1>2. tx' \in [Actors -> TxState]
  BY <1>0
<1>3. tx'[a].at = "written" /\ tx'[a].does = tx[a].does /\ tx'[a].row = tx[a].row /\ tx'[a].file = tx[a].file
  BY DEF TxState
<1>4. tx'[a].copy = tx[a].copy /\ tx'[a].erased = e
  BY DEF TxState
<1>5. QED
  BY <1>1, <1>2, <1>3, <1>4 DEF Continues

LEMMA Ends ==
    ASSUME tx \in [Actors -> TxState], NEW a \in Actors, Ended(a)
    PROVE  /\ tx' \in [Actors -> TxState] /\ Only(a)
           /\ tx'[a].at = "idle" /\ tx'[a].row = Nobody
           /\ \A r \in Replacements : rowLock'[r] = IF rowLock[r] = a THEN Nobody ELSE rowLock[r]
           /\ gate' = IF gate = a THEN Nobody ELSE gate
           /\ missed' = missed \ {a}
<1>1. tx' = [tx EXCEPT ![a] = NoTx]
  BY DEF Ended
<1>a. NoTx \in TxState
  BY NoTxTyped
<1>b. Only(a) /\ tx'[a] = NoTx
  BY <1>1 DEF Only
<1>2. tx' \in [Actors -> TxState]
  BY <1>1, <1>a
<1>3. \A r \in Replacements : rowLock'[r] = IF rowLock[r] = a THEN Nobody ELSE rowLock[r]
  BY DEF Ended, Unlocked
<1>4. QED
  BY <1>2, <1>3, <1>b, NoTxTyped DEF Ended

\* Types, in two parts.
RestTyped ==
    /\ self \in [Sections -> SUBSET Records]
    /\ verdict \in [Replacements -> Undecided \cup Settled \cup {"none", "draft"}]
    /\ file \in [Replacements -> Files \cup {Nobody}]
    /\ base \in [Replacements -> SUBSET Records]
    /\ undo \in [Replacements -> {"none", "open", "consumed", "purged"}]
    /\ kept \in [Replacements -> SUBSET Records]
    /\ overdue \subseteq Replacements /\ ripe \subseteq Replacements
    /\ gate \in Actors \cup {Nobody}
    /\ rowLock \in [Replacements -> Actors \cup {Nobody}]
    /\ missed \subseteq Actors /\ slipped \subseteq Replacements
    /\ selfEdits \in 0..MaxSelfEdits /\ interrupts \in 0..MaxInterrupts
TxTyped == tx \in [Actors -> TxState]

LEMMA Types == ReplacementTypeOK <=> RestTyped /\ TxTyped
BY DEF ReplacementTypeOK, RestTyped, TxTyped

LEMMA TxTypes == ASSUME ReplacementInv, [ReplacementNext]_replacementVars PROVE TxTyped'
<1>0. RestTyped /\ TxTyped /\ TxHolds /\ RowsMatch
  BY Types DEF ReplacementInv, Bound
<1>1. ASSUME NEW o \in Operators, NEW f \in Files, Measure(o, f) \/ Override(o, f)
      PROVE  TxTyped'
  BY <1>0, <1>1, Begins DEF Measure, Override, TxTyped, RestTyped, Actors
<1>e. ASSUME NEW a \in Actors, Ended(a) PROVE TxTyped'
  BY <1>0, <1>e, Ends DEF TxTyped
<1>2. ASSUME NEW o \in Operators, Insert(o) \/ ReuseRequest(o) PROVE TxTyped'
  <2>1. o \in Actors
    BY DEF Actors
  <2>2. \/ \E r \in Replacements : tx' = [tx EXCEPT ![o].at = "enqueued", ![o].row = r]
        \/ Ended(o)
    BY <1>2 DEF Insert, ReuseRequest, Fresh, Alike
  <2>3. QED
    BY <1>0, <1>e, <2>1, <2>2, Enqueues DEF TxTyped
<1>3. ASSUME NEW o \in Operators, Submit(o) \/ Overruled(o) PROVE TxTyped'
  BY <1>e, <1>3 DEF Submit, Overruled, Rollback, Actors
<1>4. ASSUME NEW o \in Operators, Authorize(o) PROVE TxTyped'
  BY <1>0, <1>4, Advances DEF Authorize, Actors, TxTyped, Inside, Continues
<1>5. ASSUME NEW a \in Agents, NEW r \in Replacements, Accept(a, r) \/ BeginRevert(a, r)
      PROVE  TxTyped'
  <2>1. a \in Actors
    BY DEF Actors
  <2>2. file[r] \in Files
    BY <1>0, <1>5 DEF Accept, Open, BeginRevert, RowsMatch, Undecided
  <2>3. \/ tx' = [tx EXCEPT ![a] = [NoTx EXCEPT !.at = "accepted", !.does = "accept",
                                              !.row = r, !.file = file[r]]]
        \/ tx' = [tx EXCEPT ![a] = [NoTx EXCEPT !.at = "undoing", !.does = "revert",
                                              !.row = r, !.file = file[r]]]
    BY <1>5 DEF Accept, BeginRevert
  <2>4. CASE tx' = [tx EXCEPT ![a] = [NoTx EXCEPT !.at = "accepted", !.does = "accept",
                                               !.row = r, !.file = file[r]]]
    BY <1>0, <2>1, <2>2, <2>4, Takes DEF TxTyped
  <2>5. CASE tx' = [tx EXCEPT ![a] = [NoTx EXCEPT !.at = "undoing", !.does = "revert",
                                               !.row = r, !.file = file[r]]]
    BY <1>0, <2>1, <2>2, <2>5, Takes DEF TxTyped
  <2>6. QED
    BY <2>3, <2>4, <2>5
<1>6. ASSUME NEW a \in Agents, Enter(a) \/ TakeBackSelf(a) PROVE TxTyped'
  <2>1. a \in Actors
    BY DEF Actors
  <2>2. tx' = [tx EXCEPT ![a].at = "ready"] \/ Ended(a)
    BY <1>6 DEF Enter, TakeBackSelf
  <2>3. QED
    BY <1>0, <1>e, <2>1, <2>2, Advances DEF TxTyped, Inside, Continues
<1>7. ASSUME NEW a \in Actors, WriteStep(a) PROVE TxTyped'
  <2>1. CASE Check(a)
    BY <1>0, <2>1, Sees DEF Check, TxTyped, RestTyped, Continues
  <2>2. CASE Keep(a) \/ Write(a)
    <3>1. self[Target(a)] \in SUBSET Records
      <4>1. tx[a].file \in Files
        BY <1>0, <2>2 DEF Keep, Write, At, TxHolds, Holds
      <4>2. QED
        BY <1>0, <4>1, FilesTyped DEF Target, RestTyped
    <3>2. CASE Keep(a)
      BY <1>0, <3>1, <3>2, Copies DEF Keep, TxTyped, Continues
    <3>3. CASE Write(a)
      BY <1>0, <3>1, <3>3, Erases DEF Write, TxTyped, Continues
    <3>4. QED
      BY <2>2, <3>2, <3>3
  <2>3. CASE Verify(a)
    BY <1>0, <2>3, Advances DEF Verify, TxTyped, Inside, Continues
  <2>4. CASE Changed(a) \/ Collateral(a) \/ Commit(a)
    BY <1>e, <2>4 DEF Changed, Collateral, Commit, Rollback
  <2>5. QED
    BY <1>7, <2>1, <2>2, <2>3, <2>4 DEF WriteStep
<1>8. ASSUME NEW a \in Actors, Interrupt(a) \/ DeadlockDetected(a) PROVE TxTyped'
  BY <1>e, <1>8 DEF Interrupt, DeadlockDetected, Rollback
<1>9. CASE \/ \E a \in Agents, r \in Replacements : Decide(a, r)
           \/ List \/ \E s \in Sections, gone, come \in SUBSET Records : EditSelf(s, gone, come)
           \/ \E r \in Replacements : GrowOverdue(r) \/ Ripen(r)
           \/ UNCHANGED replacementVars
  BY <1>0, <1>9 DEF Decide, List, EditSelf, GrowOverdue, Ripen, replacementVars, TxTyped
<1>10. QED
  BY <1>1, <1>2, <1>3, <1>4, <1>5, <1>6, <1>7, <1>8, <1>9
  DEF ReplacementNext, OperatorStep, AgentStep

LEMMA RestTypes == ASSUME ReplacementInv, [ReplacementNext]_replacementVars PROVE RestTyped'
<1>0. RestTyped /\ TxTyped /\ TxHolds
  BY Types DEF ReplacementInv, Bound
<1> USE <1>0, ReplacementAssumption
    DEF RestTyped, TxTyped, requestRows, locks, selfHistory, selfBounds, Undecided, Settled, Refusals
<1>1. ASSUME NEW o \in Operators, NEW f \in Files, Measure(o, f) \/ Override(o, f)
      PROVE  RestTyped'
  BY <1>1 DEF Measure, Override, Actors
<1>e. ASSUME NEW a \in Actors, Ended(a)
      PROVE  /\ (gate \in Actors \cup {Nobody})' /\ (missed \subseteq Actors)'
             /\ (rowLock \in [Replacements -> Actors \cup {Nobody}])'
  BY <1>e DEF Ended, Unlocked
<1>r. ASSUME NEW a \in Actors, Rollback(a), interrupts' \in 0..MaxInterrupts PROVE RestTyped'
  <2>1. Ended(a)
    BY <1>r DEF Rollback
  <2>2. QED
    BY <1>e, <1>r, <2>1 DEF Rollback
<1>2. ASSUME NEW o \in Operators, Insert(o) PROVE RestTyped'
  <2>1. tx[o] \in TxState /\ tx[o].file \in Files
    BY <1>2 DEF Insert, At, TxHolds, Holds, Actors
  <2>2. self[Target(o)] \in SUBSET Records /\ tx[o].seen[Target(o)] \in SUBSET Records
    BY <2>1, FilesTyped DEF Target, TxState
  <2>3. QED
    BY <1>2, <2>1, <2>2 DEF Insert, Actors, Fresh
<1>3. ASSUME NEW o \in Operators, ReuseRequest(o) \/ Submit(o) PROVE RestTyped'
  <2>1. o \in Actors
    BY DEF Actors
  <2>2. CASE ReuseRequest(o)
    <3>1. (gate' = o /\ UNCHANGED <<rowLock, missed>>) \/ Ended(o)
      BY <2>2 DEF ReuseRequest
    <3>2. QED
      BY <1>e, <2>1, <2>2, <3>1 DEF ReuseRequest
  <2>3. CASE Submit(o)
    <3>1. Ended(o)
      BY <2>3 DEF Submit
    <3>2. QED
      BY <1>e, <2>1, <2>3, <3>1 DEF Submit
  <2>4. QED
    BY <1>3, <2>2, <2>3
<1>4. ASSUME NEW o \in Operators, Authorize(o) PROVE RestTyped'
  BY <1>4 DEF Authorize, Actors
<1>5. ASSUME NEW o \in Operators, Overruled(o) PROVE RestTyped'
  BY <1>r, <1>5 DEF Overruled, Actors
<1>6. ASSUME NEW a \in Agents, NEW r \in Replacements, Accept(a, r) \/ Decide(a, r)
      PROVE  RestTyped'
  <2>1. CASE Accept(a, r)
    BY <2>1 DEF Accept, Actors
  <2>2. CASE Decide(a, r)
    BY <2>2 DEF Decide
  <2>3. QED
    BY <1>6, <2>1, <2>2
<1>7. ASSUME NEW a \in Agents, NEW r \in Replacements, BeginRevert(a, r) PROVE RestTyped'
  BY <1>7 DEF BeginRevert, Purged
<1>8. ASSUME NEW a \in Agents, Enter(a) \/ TakeBackSelf(a) PROVE RestTyped'
  <2>1. a \in Actors
    BY DEF Actors
  <2>2. CASE Enter(a)
    BY <2>1, <2>2 DEF Enter
  <2>3. CASE TakeBackSelf(a)
    <3>1. \/ gate' = a /\ UNCHANGED missed /\ rowLock' = [rowLock EXCEPT ![tx[a].row] = a]
          \/ Ended(a)
      BY <2>3 DEF TakeBackSelf
    <3>2. QED
      BY <1>e, <2>1, <2>3, <3>1 DEF TakeBackSelf
  <2>4. QED
    BY <1>8, <2>2, <2>3
<1>9. ASSUME NEW a \in Actors, Check(a) \/ Keep(a) \/ Write(a) \/ Verify(a) PROVE RestTyped'
  BY <1>9 DEF Check, Keep, Write, Verify
<1>10. ASSUME NEW a \in Actors, Changed(a) \/ Collateral(a) PROVE RestTyped'
  BY <1>r, <1>10 DEF Changed, Collateral
<1>11. ASSUME NEW a \in Actors, Commit(a) PROVE RestTyped'
  <2>1. tx[a] \in TxState /\ tx[a].file \in Files /\ tx[a].row \in Replacements
    BY <1>11 DEF Commit, At, TxHolds, Holds
  <2>2. Target(a) \in Sections /\ NewState(a) \in SUBSET Records /\ tx[a].copy \in SUBSET Records
    BY <2>1, FilesTyped DEF Target, NewState, TxState
  <2>3. Ended(a)
    BY <1>11 DEF Commit
  <2>4. self' \in [Sections -> SUBSET Records]
    BY <1>11, <2>2 DEF Commit
  <2>5. /\ (verdict \in [Replacements -> Undecided \cup Settled \cup {"none", "draft"}])'
        /\ (undo \in [Replacements -> {"none", "open", "consumed", "purged"}])'
    BY <1>11 DEF Commit
  <2>6. (kept \in [Replacements -> SUBSET Records])' /\ (slipped \subseteq Replacements)'
    BY <1>11, <2>1, <2>2 DEF Commit
  <2>7. QED
    BY <1>11, <1>e, <2>3, <2>4, <2>5, <2>6 DEF Commit
<1>12. ASSUME NEW a \in Actors, Interrupt(a) \/ DeadlockDetected(a) PROVE RestTyped'
  <2>1. interrupts' \in 0..MaxInterrupts
    BY <1>12 DEF Interrupt, DeadlockDetected
  <2>2. QED
    BY <1>r, <1>12, <2>1 DEF Interrupt, DeadlockDetected
<1>13. CASE List
  BY <1>13 DEF List, Purged
<1>14. ASSUME NEW s \in Sections, NEW gone \in SUBSET Records, NEW come \in SUBSET Records,
              EditSelf(s, gone, come)
       PROVE  RestTyped'
  BY <1>14 DEF EditSelf, Compared
<1>15. ASSUME NEW r \in Replacements, GrowOverdue(r) \/ Ripen(r) PROVE RestTyped'
  BY <1>15 DEF GrowOverdue, Ripen
<1>16. CASE UNCHANGED replacementVars
  BY <1>16 DEF replacementVars
<1>17. QED
  BY <1>1, <1>2, <1>3, <1>4, <1>5, <1>6, <1>7, <1>8, <1>9, <1>10, <1>11, <1>12,
     <1>13, <1>14, <1>15, <1>16
  DEF ReplacementNext, OperatorStep, AgentStep, WriteStep

\* The others keep what they hold.
LEMMA Others ==
    ASSUME ReplacementInv, NEW a \in Actors, Frame(a)
    PROVE  /\ \A b \in Actors \ {a} : Holds(b)' /\ Hidden(b)' /\ Fits(b)'
           /\ \A r \in Replacements : rowLock'[r] # a => LockKept(r)'
<1>0. RestTyped /\ TxTyped /\ TxHolds /\ LocksHeld /\ DraftsHidden /\ RowsMatch /\ AllFit
  BY Types DEF ReplacementInv, Bound
<1> SUFFICES ASSUME NEW b \in Actors, b # a
             PROVE  /\ Holds(b)' /\ Hidden(b)' /\ Fits(b)'
                    /\ \A r \in Replacements : rowLock'[r] = b => LockKept(r)'
  <2>1. \A r \in Replacements : rowLock'[r] # a /\ rowLock'[r] \notin Actors => rowLock'[r] = Nobody
    BY <1>0 DEF Frame, LocksFrame, RowsFrame, RestTyped
  <2>2. QED
    BY <2>1 DEF LockKept
<1>1. tx'[b] = tx[b] /\ Holds(b) /\ Hidden(b) /\ Fits(b) /\ Holds(a)
  BY <1>0 DEF Frame, LocksFrame, RowsFrame, Only, TxHolds, DraftsHidden, AllFit
<1>2. Behind(b) => gate = b /\ gate' = b /\ ~Behind(a)
  BY <1>1, ReplacementAssumption DEF Behind, Holds, Frame, LocksFrame, RowsFrame
<1>3. tx[b].at \notin {"idle", "measured"} =>
         /\ verdict[tx[b].row] # "none" /\ ~OwnDraft(a, tx[b].row)
         /\ file'[tx[b].row] = file[tx[b].row] /\ base'[tx[b].row] = base[tx[b].row]
  <2> SUFFICES ASSUME tx[b].at \notin {"idle", "measured"}
               PROVE  verdict[tx[b].row] # "none" /\ ~OwnDraft(a, tx[b].row)
    BY <1>1 DEF Frame, LocksFrame, RowsFrame, Holds
  <2>1. tx[b].row \in Replacements /\ verdict[tx[b].row] # "none"
    BY <1>1 DEF Holds
  <2>2. QED
    BY <1>1, <1>2, <2>1 DEF OwnDraft, Hidden, Behind
<1>4. \A r \in Replacements : rowLock[r] = b =>
         /\ rowLock'[r] = b /\ verdict'[r] = verdict[r]
  <2> SUFFICES ASSUME NEW r \in Replacements, rowLock[r] = b
               PROVE  rowLock'[r] = b /\ verdict'[r] = verdict[r]
    OBVIOUS
  <2>1. b # Nobody /\ rowLock[r] \notin {Nobody, a}
    BY ReplacementAssumption
  <2>2. rowLock'[r] = b
    BY <2>1 DEF Frame, LocksFrame, RowsFrame
  <2>3. tx[b].at \in Inside \cup {"accepted"} /\ (r = tx[b].row \/ verdict[r] \in Undecided)
    BY <1>0, <2>1 DEF LocksHeld, LockKept
  <2>4. verdict[r] # "none" /\ ~OwnDraft(a, r)
    BY <1>3, <2>3 DEF OwnDraft, Undecided, Inside
  <2>5. verdict[r] = "executed" => ~Behind(a)
    BY <1>1, <1>2, <2>3 DEF Holds, Behind, Undecided
  <2>6. QED
    BY <2>1, <2>2, <2>4, <2>5 DEF Frame, LocksFrame, RowsFrame
<1>5. Holds(b)'
  <2>1. tx[b].at \in {"idle", "measured"} => Holds(b)'
    BY <1>1 DEF Holds, Inside
  <2>2. ASSUME tx[b].at \notin {"idle", "measured"} PROVE Holds(b)'
    <3>1. tx[b].row \in Replacements
      BY <1>1, <2>2 DEF Holds
    <3>2. verdict'[tx[b].row] # "none"
      BY <1>3, <2>2, <3>1 DEF Frame, LocksFrame, RowsFrame
    <3>3. rowLock[tx[b].row] = b => verdict'[tx[b].row] = verdict[tx[b].row] /\ rowLock'[tx[b].row] = b
      BY <1>4, <3>1
    <3>4. undo[tx[b].row] # "none" => undo'[tx[b].row] # "none"
      BY <3>1 DEF Frame, LocksFrame, RowsFrame
    <3>5. QED
      BY <1>1, <1>2, <1>3, <2>2, <3>1, <3>2, <3>3, <3>4 DEF Holds, Behind
  <2>3. QED
    BY <2>1, <2>2
<1>6. Hidden(b)'
  <2> SUFFICES ASSUME NEW r \in Replacements, verdict'[r] = "draft", tx[b].row = r
               PROVE  tx[b].at \in Inside \cup {"enqueued"}
    BY <1>1 DEF Hidden
  <2>1. tx[b].at \notin {"idle", "measured"}
    BY <1>1, ReplacementAssumption DEF Holds
  <2>2. verdict[r] = "draft"
    BY <1>3, <2>1 DEF Frame, LocksFrame, RowsFrame
  <2>3. QED
    BY <1>1, <2>2 DEF Hidden
<1>7. Fits(b)'
  <2> SUFFICES ASSUME b \notin missed, b \notin missed', Behind(b) PROVE Fits(b)'
    BY <1>1 DEF Frame, LocksFrame, RowsFrame, Fits, Behind, Inside
  <2>1. self' = self
    BY <1>2 DEF Frame, LocksFrame, RowsFrame
  <2>2. tx[b].at \notin {"idle", "measured"}
    BY DEF Behind, Inside
  <2>3. Target(b)' = Target(b) /\ Expected(b)' = Expected(b)
    BY <1>1, <1>3, <2>2 DEF Target, Expected
  <2>4. QED
    BY <1>1, <1>3, <2>1, <2>2, <2>3 DEF Fits
<1>8. ASSUME NEW r \in Replacements, rowLock'[r] = b PROVE LockKept(r)'
  <2>1. rowLock[r] = b /\ b # Nobody
    BY <1>8, ReplacementAssumption DEF Frame, LocksFrame, RowsFrame
  <2>2. verdict'[r] = verdict[r] /\ LockKept(r)
    BY <1>0, <1>4, <2>1 DEF LocksHeld
  <2>3. QED
    BY <1>1, <1>8, <2>1, <2>2 DEF LockKept
<1>9. QED
  BY <1>5, <1>6, <1>7, <1>8

\* Every transaction's step keeps to the frame.
LEMMA LetsGo == ASSUME ReplacementInv, NEW a \in Actors, Ended(a) PROVE LocksFrame(a)
BY Types, Ends DEF ReplacementInv, TxTyped, LocksFrame

LEMMA SameRows == ASSUME NEW a \in Actors, UNCHANGED <<self, requestRows>> PROVE RowsFrame(a)
BY DEF RowsFrame, requestRows

LEMMA Rolls ==
    ASSUME ReplacementInv, NEW a \in Actors, Rollback(a), ~At(a, "idle") PROVE Frame(a)
<1>0. RestTyped /\ TxTyped /\ TxHolds /\ DraftsHidden
  BY Types DEF ReplacementInv, Bound
<1>1. LocksFrame(a)
  BY LetsGo DEF Rollback
<1>2. \A r \in Drafts(a) : OwnDraft(a, r)
  BY <1>0 DEF Drafts, OwnDraft, DraftsHidden, Hidden, Behind
<1>3. \A r \in Drafts(a) : verdict'[r] = "none"
  BY DEF Rollback, Drafts
<1>4. \A r \in Replacements \ Drafts(a) :
        verdict'[r] = verdict[r] /\ file'[r] = file[r] /\ base'[r] = base[r]
  BY DEF Rollback
<1>5. UNCHANGED <<self, undo>>
  BY DEF Rollback
<1>6. RowsFrame(a)
  BY <1>2, <1>3, <1>4, <1>5 DEF RowsFrame
<1>7. QED
  BY <1>1, <1>6 DEF Frame

LEMMA Framed ==
    ASSUME ReplacementInv, NEW a \in Actors,
           \/ \E f \in Files : Measure(a, f) \/ Override(a, f)
           \/ OperatorStep(a) \/ AgentStep(a) \/ WriteStep(a)
           \/ \E r \in Replacements : Accept(a, r) \/ Decide(a, r) \/ BeginRevert(a, r)
           \/ Interrupt(a) \/ DeadlockDetected(a)
    PROVE  Frame(a)
<1>0. RestTyped /\ TxTyped /\ TxHolds /\ LocksHeld /\ DraftsHidden /\ RowsMatch
  BY Types DEF ReplacementInv, Bound
<1> USE DEF requestRows, locks, selfHistory, selfBounds, Free, GateFree, At
<1>1. ASSUME NEW f \in Files, Measure(a, f) \/ Override(a, f) PROVE Frame(a)
  <2>1. Only(a)
    BY <1>0, <1>1 DEF Measure, Override, Only, TxTyped
  <2>2. LocksFrame(a)
    BY <1>0, <1>1, <2>1 DEF Measure, Override, LocksFrame
  <2>3. UNCHANGED <<self, requestRows>>
    BY <1>1 DEF Measure, Override
  <2>4. QED
    BY <2>2, <2>3, SameRows DEF Frame
<1>2. CASE Insert(a)
  <2>1. Only(a)
    BY <1>0, <1>2 DEF Insert, Only, TxTyped
  <2>2. PICK r \in Fresh : /\ verdict' = [verdict EXCEPT ![r] = "draft"]
                          /\ file' = [file EXCEPT ![r] = tx[a].file]
                          /\ base' = [base EXCEPT ![r] = tx[a].seen[Target(a)]]
    BY <1>2 DEF Insert
  <2>3. r \in Replacements /\ verdict[r] = "none" /\ verdict'[r] = "draft"
    BY <1>0, <2>2 DEF Fresh, RestTyped
  <2>4. \A q \in Replacements \ {r} :
          verdict'[q] = verdict[q] /\ file'[q] = file[q] /\ base'[q] = base[q]
    BY <1>0, <2>2 DEF RestTyped
  <2>5. UNCHANGED <<self, undo>>
    BY <1>2 DEF Insert
  <2>6. RowsFrame(a)
    BY <2>3, <2>4, <2>5 DEF RowsFrame
  <2>7. LocksFrame(a)
    BY <1>2, <2>1 DEF Insert, LocksFrame
  <2>8. QED
    BY <2>6, <2>7 DEF Frame
<1>3. CASE ReuseRequest(a)
  <2>1. UNCHANGED <<self, requestRows>>
    BY <1>3 DEF ReuseRequest
  <2>2. LocksFrame(a)
    <3>1. CASE Ended(a)
      BY <3>1, LetsGo
    <3>2. CASE ~Ended(a)
      <4>1. Only(a)
        BY <1>0, <1>3, <3>2 DEF ReuseRequest, Only, TxTyped
      <4>2. QED
        BY <1>3, <3>2, <4>1 DEF ReuseRequest, LocksFrame
    <3>3. QED
      BY <3>1, <3>2
  <2>3. QED
    BY <2>1, <2>2, SameRows DEF Frame
<1>4. CASE Submit(a)
  <2>1. tx[a].row \in Replacements /\ Behind(a)
    BY <1>0, <1>4 DEF Submit, Behind, TxHolds, Holds
  <2>2. verdict' = [verdict EXCEPT ![tx[a].row] = IF @ = "draft" THEN "pending" ELSE @]
    BY <1>4 DEF Submit
  <2>3. \A r \in Replacements :
          \/ verdict'[r] = verdict[r]
          \/ verdict[r] = "draft" /\ r = tx[a].row /\ verdict'[r] = "pending"
    BY <1>0, <2>1, <2>2 DEF RestTyped
  <2>4. UNCHANGED <<self, file, base, undo>> /\ Ended(a)
    BY <1>4 DEF Submit
  <2>5. RowsFrame(a)
    BY <2>1, <2>3, <2>4 DEF RowsFrame, OwnDraft
  <2>6. QED
    BY <2>4, <2>5, LetsGo DEF Frame
<1>5. CASE Authorize(a)
  <2>1. Only(a)
    BY <1>0, <1>5 DEF Authorize, Only, TxTyped
  <2>2. LocksFrame(a)
    BY <1>0, <1>5, <2>1 DEF Authorize, LocksFrame, RestTyped
  <2>3. UNCHANGED <<self, requestRows>>
    BY <1>5 DEF Authorize
  <2>4. QED
    BY <2>2, <2>3, SameRows DEF Frame
<1>6. CASE Overruled(a) \/ Changed(a) \/ Collateral(a) \/ Interrupt(a) \/ DeadlockDetected(a)
  <2>1. ~At(a, "idle")
    BY <1>6 DEF Overruled, Changed, Collateral, Interrupt, DeadlockDetected, Awaits
  <2>2. QED
    BY <1>6, <2>1, Rolls DEF Overruled, Changed, Collateral, Interrupt, DeadlockDetected
<1>7. ASSUME NEW r \in Replacements, Accept(a, r) PROVE Frame(a)
  <2>1. Only(a)
    BY <1>0, <1>7 DEF Accept, Only, TxTyped
  <2>2. rowLock[r] = Nobody /\ \A q \in LapsedRows : rowLock[q] = Nobody
    BY <1>7 DEF Accept, Open, LapsedFree
  <2>3. rowLock' = [q \in Replacements |-> IF q = r \/ q \in LapsedRows THEN a ELSE rowLock[q]]
    BY <1>7 DEF Accept
  <2>4. \A q \in Replacements :
          \/ rowLock'[q] = rowLock[q]
          \/ rowLock[q] = Nobody /\ rowLock'[q] = a
    BY <2>2, <2>3
  <2>5. UNCHANGED <<self, requestRows>> /\ UNCHANGED <<gate, missed>>
    BY <1>7 DEF Accept
  <2>6. LocksFrame(a)
    BY <2>1, <2>4, <2>5 DEF LocksFrame
  <2>7. QED
    BY <2>5, <2>6, SameRows DEF Frame
<1>8. ASSUME NEW r \in Replacements, Decide(a, r) PROVE Frame(a)
  <2>1. /\ rowLock[r] = Nobody /\ verdict[r] \in Undecided
        /\ \A q \in LapsedRows : rowLock[q] = Nobody /\ verdict[q] \in Undecided
    BY <1>8 DEF Decide, Open, LapsedFree, LapsedRows
  <2>2. PICK answer \in Refusals \cup {"deferred"} :
          verdict' = [q \in Replacements |-> IF q = r THEN answer
                        ELSE IF q \in LapsedRows THEN "timed_out" ELSE verdict[q]]
    BY <1>8 DEF Decide
  <2>3. \A q \in Replacements :
          \/ verdict'[q] = verdict[q]
          \/ verdict[q] \in Undecided /\ rowLock[q] = Nobody /\ verdict'[q] \notin {"none", "draft"}
    BY <2>1, <2>2 DEF Refusals
  <2>4. UNCHANGED <<self, file, base, undo, gate, rowLock, tx, missed>>
    BY <1>8 DEF Decide
  <2>5. QED
    BY <2>3, <2>4 DEF Frame, LocksFrame, RowsFrame, Only
<1>9. ASSUME NEW r \in Replacements, BeginRevert(a, r) PROVE Frame(a)
  <2>1. \A q \in Replacements : undo[q] # "none" => undo'[q] # "none"
    BY <1>9 DEF BeginRevert, Purged
  <2>2. Only(a)
    BY <1>0, <1>9 DEF BeginRevert, Only, TxTyped
  <2>3. QED
    BY <1>9, <2>1, <2>2 DEF BeginRevert, Frame, LocksFrame, RowsFrame
<1>10. CASE Enter(a) \/ Check(a) \/ Keep(a) \/ Write(a) \/ Verify(a)
  <2>1. Only(a)
    BY <1>0, <1>10 DEF Enter, Check, Keep, Write, Verify, Only, TxTyped
  <2>2. LocksFrame(a)
    BY <1>10, <2>1 DEF Enter, Check, Keep, Write, Verify, LocksFrame
  <2>3. UNCHANGED <<self, requestRows>>
    BY <1>10 DEF Enter, Check, Keep, Write, Verify
  <2>4. QED
    BY <2>2, <2>3, SameRows DEF Frame
<1>11. CASE TakeBackSelf(a)
  <2>1. UNCHANGED <<self, requestRows>>
    BY <1>11 DEF TakeBackSelf
  <2>2. LocksFrame(a)
    <3>1. CASE Ended(a)
      BY <3>1, LetsGo
    <3>2. CASE ~Ended(a)
      <4>1. /\ gate = Nobody /\ rowLock[tx[a].row] = Nobody /\ UNCHANGED missed
            /\ rowLock' = [rowLock EXCEPT ![tx[a].row] = a] /\ tx' = [tx EXCEPT ![a].at = "ready"]
        BY <1>11, <3>2 DEF TakeBackSelf
      <4>2. Only(a)
        BY <1>0, <4>1 DEF Only, TxTyped
      <4>3. QED
        BY <1>0, <4>1, <4>2 DEF LocksFrame, RestTyped
    <3>3. QED
      BY <3>1, <3>2
  <2>3. QED
    BY <2>1, <2>2, SameRows DEF Frame
<1>12. CASE Commit(a)
  <2>1. /\ Behind(a) /\ Ended(a) /\ Holds(a) /\ tx[a].row \in Replacements
    BY <1>0, <1>12 DEF Commit, Behind, TxHolds, Holds, Inside
  <2>2. \A q \in Replacements \ {tx[a].row} :
          \/ verdict'[q] = verdict[q]
          \/ verdict[q] \in Undecided /\ rowLock[q] = a /\ verdict'[q] = "timed_out"
    <3> SUFFICES ASSUME NEW q \in Replacements \ {tx[a].row}, verdict'[q] # verdict[q]
                 PROVE  verdict[q] \in Undecided /\ rowLock[q] = a /\ verdict'[q] = "timed_out"
      OBVIOUS
    <3>1. verdict'[q] = IF rowLock[q] = a THEN "timed_out" ELSE verdict[q]
      BY <1>12 DEF Commit
    <3>2. rowLock[q] = a /\ a # Nobody
      BY <3>1, ReplacementAssumption
    <3>3. verdict[q] \in Undecided
      BY <1>0, <3>2 DEF LocksHeld, LockKept
    <3>4. QED
      BY <3>1, <3>2, <3>3
  <2>3. LET r == tx[a].row IN
          \/ verdict[r] \in Undecided /\ rowLock[r] = a /\ verdict'[r] = "executed"
          \/ verdict[r] = "draft" /\ verdict'[r] = "executed"
          \/ verdict[r] = "executed" /\ verdict'[r] = "reverted"
    <3>1. verdict'[tx[a].row] = IF tx[a].does = "revert" THEN "reverted" ELSE "executed"
      BY <1>12, <2>1 DEF Commit
    <3>2. /\ rowLock[tx[a].row] = a
          /\ IF tx[a].does = "revert" THEN verdict[tx[a].row] = "executed"
             ELSE verdict[tx[a].row] \in Undecided \cup {"draft"}
      BY <1>12, <2>1 DEF Commit, Holds, Inside
    <3>3. QED
      BY <3>1, <3>2
  <2>4. \A q \in Replacements : undo[q] # "none" => undo'[q] # "none"
    BY <1>0, <1>12 DEF Commit, RestTyped
  <2>5. UNCHANGED <<file, base>>
    BY <1>12 DEF Commit
  <2>6. RowsFrame(a)
    BY <2>1, <2>2, <2>3, <2>4, <2>5 DEF RowsFrame, OwnDraft
  <2>7. QED
    BY <2>1, <2>6, LetsGo DEF Frame
<1>13. QED
  BY <1>1, <1>2, <1>3, <1>4, <1>5, <1>6, <1>7, <1>8, <1>9, <1>10, <1>11, <1>12
  DEF OperatorStep, AgentStep, WriteStep

\* What a transaction itself is left with.
Own(a) == /\ Holds(a) /\ Hidden(a) /\ Fits(a)
          /\ \A r \in Replacements : rowLock[r] = a => LockKept(r)

LEMMA EndsOwn == ASSUME ReplacementInv, NEW a \in Actors, Ended(a) PROVE Own(a)'
<1>1. tx'[a].at = "idle" /\ tx'[a].row = Nobody /\ \A r \in Replacements : rowLock'[r] # a
  BY Types, Ends, ReplacementAssumption DEF ReplacementInv, TxTyped
<1>2. QED
  BY <1>1, ReplacementAssumption DEF Own, Holds, Hidden, Fits, Inside

\* Only who has accepted, or is behind the gate, has locked rows.
LEMMA Unlocking ==
    ASSUME ReplacementInv, NEW a \in Actors, tx[a].at \notin Inside \cup {"accepted"}
    PROVE  \A r \in Replacements : rowLock[r] # a
BY ReplacementAssumption DEF ReplacementInv, Bound, LocksHeld, LockKept

LEMMA OperatorOwn ==
    ASSUME ReplacementInv, NEW a \in Operators,
           OperatorStep(a) \/ \E f \in Files : Measure(a, f) \/ Override(a, f)
    PROVE  Own(a)'
<1>0. RestTyped /\ TxTyped /\ Holds(a) /\ a \in Actors
  BY Types DEF ReplacementInv, Bound, TxHolds, Actors
<1> USE DEF At
<1>1. ASSUME NEW f \in Files, Measure(a, f) \/ Override(a, f) PROVE Own(a)'
  <2>1. /\ tx'[a].at = "measured" /\ tx'[a].does # "revert"
        /\ tx'[a].row = Nobody /\ tx'[a].file = f
    BY <1>0, <1>1, Begins DEF Measure, Override, TxTyped, RestTyped
  <2>2. \A r \in Replacements : rowLock'[r] # a
    BY <1>0, <1>1, Unlocking DEF Measure, Override, locks, Inside
  <2>3. QED
    BY <2>1, <2>2, ReplacementAssumption DEF Own, Holds, Hidden, Fits, Inside
<1>2. CASE Insert(a)
  <2>1. PICK r \in Fresh : /\ verdict' = [verdict EXCEPT ![r] = "draft"]
                          /\ file' = [file EXCEPT ![r] = tx[a].file]
                          /\ tx' = [tx EXCEPT ![a].at = "enqueued", ![a].row = r]
    BY <1>2 DEF Insert
  <2>2. r \in Replacements
    BY <2>1 DEF Fresh
  <2>3. /\ tx'[a].at = "enqueued" /\ tx'[a].does = tx[a].does
        /\ tx'[a].row = r /\ tx'[a].file = tx[a].file
    BY <1>0, <2>1, <2>2, Enqueues DEF TxTyped
  <2>4. verdict'[r] = "draft" /\ file'[r] = tx[a].file
    BY <1>0, <2>1, <2>2 DEF RestTyped
  <2>5. gate' = a /\ tx[a].at = "measured" /\ rowLock' = rowLock
    BY <1>2 DEF Insert
  <2>6. \A q \in Replacements : rowLock'[q] # a
    BY <1>0, <2>5, Unlocking DEF Inside
  <2>7. QED
    BY <1>0, <2>2, <2>3, <2>4, <2>5, <2>6 DEF Own, Holds, Hidden, Fits, Inside
<1>3. CASE ReuseRequest(a) /\ ~Ended(a)
  <2>1. PICK r \in Alike(a) : tx' = [tx EXCEPT ![a].at = "enqueued", ![a].row = r]
    BY <1>3 DEF ReuseRequest
  <2>2. r \in Replacements /\ verdict[r] # "none" /\ file[r] = tx[a].file
    BY <2>1 DEF Alike
  <2>3. /\ tx'[a].at = "enqueued" /\ tx'[a].does = tx[a].does
        /\ tx'[a].row = r /\ tx'[a].file = tx[a].file
    BY <1>0, <2>1, <2>2, Enqueues DEF TxTyped
  <2>5. gate' = a /\ tx[a].at = "measured" /\ UNCHANGED <<rowLock, verdict, file>>
    BY <1>3 DEF ReuseRequest, requestRows
  <2>6. \A q \in Replacements : rowLock'[q] # a
    BY <1>0, <2>5, Unlocking DEF Inside
  <2>7. QED
    BY <1>0, <2>2, <2>3, <2>5, <2>6 DEF Own, Holds, Hidden, Fits, Inside
<1>4. CASE Authorize(a)
  <2>1. Continues(a, "ready")
    BY <1>0, <1>4, Advances DEF Authorize, TxTyped, Inside
  <2>2. /\ tx[a].at = "enqueued" /\ verdict[tx[a].row] \in Undecided \cup {"draft"}
        /\ UNCHANGED <<gate, verdict, file>>
        /\ rowLock' = [rowLock EXCEPT ![tx[a].row] = a]
    BY <1>4 DEF Authorize, requestRows
  <2>3. \A q \in Replacements \ {tx[a].row} : rowLock'[q] # a
    BY <1>0, <2>2, Unlocking DEF Inside, RestTyped
  <2>4. rowLock'[tx[a].row] = a
    BY <1>0, <2>2 DEF Holds, RestTyped
  <2>5. QED
    BY <1>0, <2>1, <2>2, <2>3, <2>4 DEF Own, Holds, Hidden, Fits, LockKept, Continues, Inside
<1>5. CASE Ended(a)
  BY <1>0, <1>5, EndsOwn
<1>6. QED
  BY <1>1, <1>2, <1>3, <1>4, <1>5 DEF OperatorStep, Submit, Overruled, Rollback

LEMMA AgentOwn ==
    ASSUME ReplacementInv, NEW a \in Agents,
           \/ AgentStep(a)
           \/ \E r \in Replacements : Accept(a, r) \/ Decide(a, r) \/ BeginRevert(a, r)
    PROVE  Own(a)'
<1>0. RestTyped /\ TxTyped /\ Own(a) /\ a \in Actors /\ RowsMatch
  BY Types DEF ReplacementInv, Bound, TxHolds, DraftsHidden, AllFit, LocksHeld, Own, Actors
<1> USE DEF At
<1>1. ASSUME NEW r \in Replacements, Accept(a, r) PROVE Own(a)'
  <2>1. /\ tx[a].at = "idle" /\ verdict[r] \in Undecided /\ UNCHANGED <<verdict, file>>
        /\ \A q \in LapsedRows : verdict[q] \in Undecided
        /\ rowLock' = [q \in Replacements |-> IF q = r \/ q \in LapsedRows THEN a ELSE rowLock[q]]
        /\ tx' = [tx EXCEPT ![a] = [NoTx EXCEPT !.at = "accepted", !.does = "accept",
                                               !.row = r, !.file = file[r]]]
    BY <1>1 DEF Accept, Open, LapsedRows, requestRows
  <2>2. file[r] \in Files
    BY <1>0, <2>1 DEF RowsMatch, Undecided
  <2>3. tx'[a].at = "accepted" /\ tx'[a].does = "accept" /\ tx'[a].row = r /\ tx'[a].file = file[r]
    BY <1>0, <2>1, <2>2, Takes DEF TxTyped
  <2>4. \A q \in Replacements : rowLock[q] # a
    BY <1>0, <2>1, Unlocking DEF Inside
  <2>5. rowLock'[r] = a /\ \A q \in Replacements : rowLock'[q] = a => q = r \/ q \in LapsedRows
    BY <2>1, <2>4
  <2>6. \A q \in Replacements : rowLock'[q] = a => LockKept(q)'
    BY <2>1, <2>3, <2>5 DEF LockKept
  <2>7. QED
    BY <2>1, <2>2, <2>3, <2>5, <2>6 DEF Own, Holds, Hidden, Fits, Inside, Undecided
<1>2. ASSUME NEW r \in Replacements, Decide(a, r) PROVE Own(a)'
  <2>1. tx[a].at = "idle" /\ UNCHANGED <<tx, rowLock>>
    BY <1>2 DEF Decide, Open, locks
  <2>2. tx'[a].row = Nobody /\ \A q \in Replacements : rowLock'[q] # a
    BY <1>0, <2>1, Unlocking DEF Own, Holds, Inside
  <2>3. QED
    BY <2>1, <2>2, ReplacementAssumption DEF Own, Holds, Hidden, Fits, Inside
<1>3. ASSUME NEW r \in Replacements, BeginRevert(a, r) PROVE Own(a)'
  <2>1. /\ tx[a].at = "idle" /\ undo[r] # "none" /\ UNCHANGED <<verdict, file, rowLock>>
        /\ undo' = Purged
        /\ tx' = [tx EXCEPT ![a] = [NoTx EXCEPT !.at = "undoing", !.does = "revert",
                                               !.row = r, !.file = file[r]]]
    BY <1>3 DEF BeginRevert, locks
  <2>2. verdict[r] \in {"executed", "reverted"} /\ file[r] \in Files /\ undo'[r] # "none"
    BY <1>0, <2>1 DEF RowsMatch, Purged
  <2>3. tx'[a].at = "undoing" /\ tx'[a].does = "revert" /\ tx'[a].row = r /\ tx'[a].file = file[r]
    BY <1>0, <2>1, <2>2, Takes DEF TxTyped
  <2>4. \A q \in Replacements : rowLock'[q] # a
    BY <1>0, <2>1, Unlocking DEF Inside
  <2>5. QED
    BY <2>1, <2>2, <2>3, <2>4 DEF Own, Holds, Hidden, Fits, Inside
<1>4. CASE Enter(a)
  <2>1. Continues(a, "ready")
    BY <1>0, <1>4, Advances DEF Enter, TxTyped, Inside
  <2>2. tx[a].at = "accepted" /\ gate' = a /\ UNCHANGED <<verdict, file, rowLock>>
    BY <1>4 DEF Enter, requestRows
  <2>3. \A q \in Replacements : rowLock'[q] = a => LockKept(q)'
    BY <1>0, <2>1, <2>2 DEF Own, LockKept, Continues, Inside
  <2>4. QED
    BY <1>0, <2>1, <2>2, <2>3 DEF Own, Holds, Hidden, Fits, Continues, Inside
<1>5. CASE TakeBackSelf(a) /\ ~Ended(a)
  <2>1. /\ tx[a].at = "undoing" /\ Revertible(tx[a].row) /\ gate' = a
        /\ rowLock' = [rowLock EXCEPT ![tx[a].row] = a]
        /\ tx' = [tx EXCEPT ![a].at = "ready"] /\ UNCHANGED <<verdict, file>>
    BY <1>5 DEF TakeBackSelf, requestRows
  <2>2. Continues(a, "ready")
    BY <1>0, <2>1, Advances DEF TxTyped, Inside
  <2>3. \A q \in Replacements \ {tx[a].row} : rowLock'[q] # a
    BY <1>0, <2>1, Unlocking DEF Inside, RestTyped
  <2>4. rowLock'[tx[a].row] = a /\ verdict[tx[a].row] = "executed"
    BY <1>0, <2>1 DEF Own, Holds, RestTyped, Revertible
  <2>5. \A q \in Replacements : rowLock'[q] = a => LockKept(q)'
    BY <2>2, <2>3 DEF LockKept, Continues, Inside
  <2>6. QED
    BY <1>0, <2>1, <2>2, <2>4, <2>5 DEF Own, Holds, Hidden, Fits, Continues, Inside
<1>6. CASE Ended(a)
  BY <1>0, <1>6, EndsOwn
<1>7. QED
  BY <1>1, <1>2, <1>3, <1>4, <1>5, <1>6 DEF AgentStep

LEMMA WriteOwn == ASSUME ReplacementInv, NEW a \in Actors, WriteStep(a) PROVE Own(a)'
<1>0. RestTyped /\ TxTyped /\ Own(a)
  BY Types DEF ReplacementInv, Bound, TxHolds, DraftsHidden, AllFit, LocksHeld, Own
<1> USE DEF At
\* Behind the gate only the state of the section decides.
<1>c. ASSUME NEW p \in Inside, Continues(a, p), tx[a].at \in Inside,
             UNCHANGED <<self, requestRows, locks, selfHistory>>
      PROVE  /\ Holds(a)' /\ Hidden(a)' /\ \A r \in Replacements : rowLock'[r] = a => LockKept(r)'
             /\ Target(a)' = Target(a) /\ Expected(a)' = Expected(a)
             /\ UNCHANGED <<self, missed, base>> /\ tx'[a].row = tx[a].row
             /\ tx'[a].at = p /\ tx'[a].does = tx[a].does
  <2>1. UNCHANGED <<self, missed, base, verdict, file, gate, rowLock>>
    BY <1>c DEF requestRows, locks, selfHistory
  <2>2. Holds(a)' /\ Hidden(a)'
    BY <1>0, <1>c, <2>1 DEF Own, Holds, Hidden, Continues, Inside
  <2>3. \A r \in Replacements : rowLock'[r] = a => LockKept(r)'
    BY <1>0, <1>c, <2>1 DEF Own, LockKept, Continues, Inside
  <2>4. QED
    BY <1>c, <2>1, <2>2, <2>3 DEF Target, Expected, Continues
<1>1. CASE Check(a)
  <2>1. Continues(a, "checked")
    BY <1>0, <1>1, Sees DEF Check, TxTyped, RestTyped
  <2>2. tx[a].at = "ready" /\ self[Target(a)] = Expected(a) /\ UNCHANGED <<self, requestRows, locks, selfHistory>>
    BY <1>1 DEF Check
  <2>3. QED
    BY <1>c, <2>1, <2>2 DEF Own, Fits, Inside
<1>2. CASE Keep(a) \/ Write(a)
  <2>1. self[Target(a)] \in SUBSET Records
    <3>1. tx[a].file \in Files
      BY <1>0, <1>2 DEF Keep, Write, Own, Holds
    <3>2. QED
      BY <1>0, <3>1, FilesTyped DEF Target, RestTyped
  <2>2. CASE Keep(a)
    <3>1. Continues(a, "kept") /\ tx'[a].copy = self[Target(a)]
      BY <1>0, <2>1, <2>2, Copies DEF Keep, TxTyped
    <3>2. tx[a].at = "checked" /\ tx[a].does # "revert" /\ UNCHANGED <<self, requestRows, locks, selfHistory>>
      BY <2>2 DEF Keep
    <3>3. Expected(a) = base[tx[a].row]
      BY <3>2 DEF Expected
    <3>4. QED
      BY <1>0, <1>c, <3>1, <3>2, <3>3 DEF Own, Fits, Inside
  <2>3. CASE Write(a)
    <3>1. Continues(a, "written") /\ tx'[a].copy = tx[a].copy /\ tx'[a].erased = self[Target(a)]
      BY <1>0, <2>1, <2>3, Erases DEF Write, TxTyped
    <3>2. /\ tx[a].at = IF tx[a].does = "revert" THEN "checked" ELSE "kept"
          /\ UNCHANGED <<self, requestRows, locks, selfHistory>>
      BY <2>3 DEF Write
    <3>3. QED
      BY <1>0, <1>c, <3>1, <3>2 DEF Own, Fits, Inside
  <2>4. QED
    BY <1>2, <2>2, <2>3
<1>3. CASE Verify(a)
  <2>1. Continues(a, "verified") /\ tx'[a].copy = tx[a].copy /\ tx'[a].erased = tx[a].erased
    BY <1>0, <1>3, Advances DEF Verify, TxTyped, Inside
  <2>2. tx[a].at = "written" /\ UNCHANGED <<self, requestRows, locks, selfHistory>>
    BY <1>3 DEF Verify
  <2>3. QED
    BY <1>0, <1>c, <2>1, <2>2 DEF Own, Fits, Inside
<1>4. CASE Ended(a)
  BY <1>4, EndsOwn
<1>5. QED
  BY <1>1, <1>2, <1>3, <1>4 DEF WriteStep, Changed, Collateral, Commit, Rollback

\* What a step does to the requests themselves.
RowsFit == RowsMatch /\ SnapshotsFit

LEMMA RowsStay == ASSUME ReplacementInv, UNCHANGED requestRows, slipped \subseteq slipped' PROVE RowsFit'
BY DEF ReplacementInv, Bound, RowsFit, RowsMatch, SnapshotsFit, requestRows

LEMMA RowsRoll == ASSUME ReplacementInv, NEW a \in Actors, Rollback(a) PROVE RowsFit'
<1>0. RestTyped /\ RowsMatch /\ SnapshotsFit
  BY Types DEF ReplacementInv, Bound
<1>1. \A r \in Replacements : verdict[r] = "draft" => undo[r] = "none"
  BY <1>0 DEF RowsMatch, RestTyped
<1>2. \A r \in Replacements :
        \/ verdict'[r] = "none" /\ undo[r] = "none"
        \/ verdict'[r] = verdict[r] /\ file'[r] = file[r] /\ base'[r] = base[r]
  BY <1>1 DEF Rollback, Drafts
<1>3. UNCHANGED <<undo, kept, slipped>>
  BY DEF Rollback
<1>4. QED
  BY <1>0, <1>2, <1>3 DEF RowsFit, RowsMatch, SnapshotsFit

\* Decisions on open requests, expiry and the purge of snapshots.
LEMMA RowsDecide ==
    ASSUME ReplacementInv, UNCHANGED <<file, base>>, slipped' = slipped,
           \A r \in Replacements : \/ verdict'[r] = verdict[r]
                                   \/ verdict[r] \in Undecided \cup {"draft"} /\ verdict'[r] # "none",
           \A r \in Replacements : \/ undo'[r] = undo[r] /\ kept'[r] = kept[r]
                                   \/ undo[r] = "open" /\ undo'[r] = "purged"
    PROVE  RowsFit'
BY DEF ReplacementInv, Bound, RowsFit, RowsMatch, SnapshotsFit, Undecided

LEMMA RowsStep == ASSUME ReplacementInv, [ReplacementNext]_replacementVars PROVE RowsFit'
<1>0. RestTyped /\ RowsMatch /\ SnapshotsFit /\ TxHolds /\ AllFit
  BY Types DEF ReplacementInv, Bound
<1> USE DEF At
<1>1. ASSUME NEW o \in Operators,
             \/ \E f \in Files : Measure(o, f) \/ Override(o, f)
             \/ ReuseRequest(o) \/ Authorize(o)
      PROVE  RowsFit'
  BY <1>1, RowsStay DEF Measure, Override, ReuseRequest, Authorize, selfHistory
<1>2. ASSUME NEW o \in Operators, Insert(o) PROVE RowsFit'
  <2>1. PICK r \in Fresh : /\ verdict' = [verdict EXCEPT ![r] = "draft"]
                          /\ file' = [file EXCEPT ![r] = tx[o].file]
                          /\ base' = [base EXCEPT ![r] = tx[o].seen[Target(o)]]
    BY <1>2 DEF Insert
  <2>2. r \in Replacements /\ verdict[r] = "none" /\ undo[r] = "none"
    BY <1>0, <2>1 DEF Fresh, RowsMatch
  <2>3. tx[o].file \in Files
    BY <1>0, <1>2 DEF Insert, TxHolds, Holds, Actors
  <2>4. file'[r] \in Files
    BY <1>0, <2>1, <2>2, <2>3 DEF RestTyped
  <2>5. \A q \in Replacements \ {r} :
          verdict'[q] = verdict[q] /\ file'[q] = file[q] /\ base'[q] = base[q]
    BY <1>0, <2>1 DEF RestTyped
  <2>6. UNCHANGED <<undo, kept, slipped>>
    BY <1>2 DEF Insert, selfHistory
  <2>7. QED
    BY <1>0, <2>2, <2>4, <2>5, <2>6 DEF RowsFit, RowsMatch, SnapshotsFit
<1>3. ASSUME NEW o \in Operators, Submit(o) PROVE RowsFit'
  <2>1. \A r \in Replacements :
          \/ verdict'[r] = verdict[r]
          \/ verdict[r] = "draft" /\ verdict'[r] = "pending"
    BY <1>0, <1>3 DEF Submit, RestTyped
  <2>2. UNCHANGED <<file, base, undo, kept, slipped>>
    BY <1>3 DEF Submit
  <2>3. QED
    BY <2>1, <2>2, RowsDecide
<1>4. ASSUME NEW a \in Actors,
             Overruled(a) \/ Changed(a) \/ Collateral(a) \/ Interrupt(a) \/ DeadlockDetected(a)
      PROVE  RowsFit'
  BY <1>4, RowsRoll DEF Overruled, Changed, Collateral, Interrupt, DeadlockDetected
<1>5. ASSUME NEW a \in Agents, NEW r \in Replacements, Accept(a, r) PROVE RowsFit'
  BY <1>5, RowsStay DEF Accept, selfHistory
<1>6. ASSUME NEW a \in Agents, NEW r \in Replacements, Decide(a, r) PROVE RowsFit'
  <2>1. \A q \in Replacements :
          \/ verdict'[q] = verdict[q]
          \/ verdict[q] \in Undecided /\ verdict'[q] # "none"
    BY <1>6 DEF Decide, Open, LapsedRows, Refusals
  <2>2. UNCHANGED <<file, base, undo, kept, slipped>>
    BY <1>6 DEF Decide, selfHistory
  <2>3. QED
    BY <2>1, <2>2, RowsDecide
<1>7. ASSUME NEW a \in Agents, NEW r \in Replacements, BeginRevert(a, r) PROVE RowsFit'
  <2>1. \A q \in Replacements :
          \/ undo'[q] = undo[q] /\ kept'[q] = kept[q]
          \/ undo[q] = "open" /\ undo'[q] = "purged"
          \/ undo[q] = "purged" /\ undo'[q] = "purged"
    BY <1>7 DEF BeginRevert, Purged
  <2>2. UNCHANGED <<verdict, file, base, slipped>>
    BY <1>7 DEF BeginRevert, selfHistory
  <2>3. QED
    BY <1>0, <2>1, <2>2 DEF RowsFit, RowsMatch, SnapshotsFit
<1>8. ASSUME NEW a \in Agents, Enter(a) \/ TakeBackSelf(a) PROVE RowsFit'
  BY <1>8, RowsStay DEF Enter, TakeBackSelf, selfHistory
<1>9. ASSUME NEW a \in Actors, Check(a) \/ Keep(a) \/ Write(a) \/ Verify(a) PROVE RowsFit'
  BY <1>9, RowsStay DEF Check, Keep, Write, Verify, selfHistory
<1>10. ASSUME NEW a \in Actors, Commit(a) PROVE RowsFit'
  <2> DEFINE row == tx[a].row
  <2>1. row \in Replacements /\ Holds(a) /\ Fits(a) /\ tx[a].at = "verified"
    BY <1>0, <1>10 DEF Commit, TxHolds, Holds, AllFit
  <2>2. UNCHANGED <<file, base>>
    BY <1>10 DEF Commit
  <2>3. /\ verdict'[row] \in {"executed", "reverted"}
        /\ IF tx[a].does = "revert" THEN undo'[row] = "consumed"
           ELSE undo'[row] = "open" /\ kept'[row] = tx[a].copy
    BY <1>0, <1>10, <2>1 DEF Commit, RestTyped
  <2>4. \A q \in Replacements \ {row} : undo'[q] = undo[q] /\ kept'[q] = kept[q]
    BY <1>0, <1>10 DEF Commit, RestTyped
  <2>5. \A q \in Replacements \ {row} :
          \/ verdict'[q] = verdict[q]
          \/ verdict[q] \in Undecided /\ verdict'[q] = "timed_out"
    <3> SUFFICES ASSUME NEW q \in Replacements \ {row}, verdict'[q] # verdict[q]
                 PROVE  verdict[q] \in Undecided /\ verdict'[q] = "timed_out"
      OBVIOUS
    <3>1. verdict'[q] = IF rowLock[q] = a THEN "timed_out" ELSE verdict[q]
      BY <1>10 DEF Commit
    <3>2. rowLock[q] = a /\ a # Nobody
      BY <3>1, ReplacementAssumption
    <3>3. QED
      BY <3>1, <3>2 DEF ReplacementInv, Bound, LocksHeld, LockKept
  <2>6. slipped' = IF a \in missed THEN slipped \cup {row} ELSE slipped
    BY <1>10 DEF Commit
  <2>7. file[row] \in Files
    BY <1>0, <2>1 DEF Holds, Inside
  <2>8. a \notin missed /\ tx[a].does # "revert" => tx[a].copy = base[row]
    BY <2>1 DEF Fits
  <2> HIDE DEF row
  <2>9. RowsMatch'
    BY <1>0, <2>1, <2>2, <2>3, <2>4, <2>5, <2>7 DEF RowsMatch, Undecided
  <2>10. SnapshotsFit'
    BY <1>0, <2>1, <2>2, <2>3, <2>4, <2>6, <2>8 DEF SnapshotsFit
  <2>11. QED
    BY <2>9, <2>10 DEF RowsFit
<1>11. CASE List
  <2>1. \A q \in Replacements :
          \/ verdict'[q] = verdict[q]
          \/ verdict[q] \in Undecided /\ verdict'[q] # "none"
    BY <1>11 DEF List, LapsedRows
  <2>2. UNCHANGED <<file, base, slipped>>
    BY <1>11 DEF List, selfHistory
  <2>3. \A q \in Replacements :
          \/ undo'[q] = undo[q] /\ kept'[q] = kept[q]
          \/ undo[q] = "open" /\ undo'[q] = "purged"
          \/ undo[q] = "purged" /\ undo'[q] = "purged"
    BY <1>11 DEF List, Purged
  <2>4. QED
    BY <1>0, <2>1, <2>2, <2>3 DEF RowsFit, RowsMatch, SnapshotsFit, Undecided
<1>12. ASSUME NEW s \in Sections, NEW gone \in SUBSET Records, NEW come \in SUBSET Records,
              EditSelf(s, gone, come)
       PROVE  RowsFit'
  BY <1>12, RowsStay DEF EditSelf
<1>13. ASSUME NEW r \in Replacements, GrowOverdue(r) \/ Ripen(r) PROVE RowsFit'
  BY <1>0, <1>13 DEF GrowOverdue, Ripen, selfHistory, RowsFit, RowsMatch, SnapshotsFit
<1>14. CASE UNCHANGED replacementVars
  BY <1>14, RowsStay DEF replacementVars, selfHistory
<1>15. QED
  BY <1>1, <1>2, <1>3, <1>4, <1>5, <1>6, <1>7, <1>8, <1>9, <1>10, <1>11, <1>12, <1>13, <1>14
  DEF ReplacementNext, OperatorStep, AgentStep, WriteStep, Actors

\* Time, the listing and the edits leave every transaction and every lock alone.
LEMMA Bystanders ==
    ASSUME ReplacementInv,
           \/ List \/ UNCHANGED replacementVars
           \/ \E s \in Sections, gone, come \in SUBSET Records : EditSelf(s, gone, come)
           \/ \E r \in Replacements : GrowOverdue(r) \/ Ripen(r)
    PROVE  \A a \in Actors : Own(a)'
<1>0. RestTyped /\ \A a \in Actors : Own(a)
  BY Types DEF ReplacementInv, Bound, TxHolds, DraftsHidden, AllFit, LocksHeld, Own
<1> USE DEF locks, requestRows, selfHistory
<1>1. UNCHANGED <<tx, rowLock, gate, file, base>>
  BY DEF List, replacementVars, EditSelf, GrowOverdue, Ripen
<1>2. \A r \in Replacements :
        \/ verdict'[r] = verdict[r]
        \/ verdict[r] \in Undecided /\ rowLock[r] = Nobody /\ verdict'[r] \notin {"none", "draft"}
  BY DEF List, LapsedFree, LapsedRows, Free, replacementVars, EditSelf, GrowOverdue, Ripen
<1>3. \A r \in Replacements : undo[r] # "none" => undo'[r] # "none"
  BY DEF List, Purged, replacementVars, EditSelf, GrowOverdue, Ripen
<1>4. /\ missed \subseteq missed'
      /\ \A s \in Sections : self'[s] = self[s] \/ Compared(s) \subseteq missed'
  BY <1>0 DEF List, replacementVars, EditSelf, GrowOverdue, Ripen, RestTyped
<1> TAKE a \in Actors
<1>5. a # Nobody /\ \A r \in Replacements : rowLock[r] = a => verdict'[r] = verdict[r]
  BY <1>2, ReplacementAssumption
<1>6. Holds(a)'
  BY <1>0, <1>1, <1>2, <1>3, <1>5 DEF Own, Holds, Inside
<1>7. Hidden(a)'
  BY <1>0, <1>1, <1>2 DEF Own, Hidden
<1>8. Fits(a)'
  <2>1. tx'[a] = tx[a] /\ Target(a)' = Target(a) /\ Expected(a)' = Expected(a)
    BY <1>1 DEF Target, Expected
  <2>2. tx[a].at \in {"checked", "kept"} => Target(a) \in Sections
    BY <1>0, FilesTyped DEF Own, Holds, Target
  <2>3. a \notin missed' /\ tx[a].at \in {"checked", "kept"} => self'[Target(a)] = self[Target(a)]
    BY <1>4, <2>2 DEF Compared
  <2>4. QED
    BY <1>0, <1>1, <1>4, <2>1, <2>3 DEF Own, Fits
<1>9. \A r \in Replacements : rowLock'[r] = a => LockKept(r)'
  BY <1>0, <1>1, <1>5 DEF Own, LockKept
<1>10. QED
  BY <1>6, <1>7, <1>8, <1>9 DEF Own

LEMMA Owned == ASSUME ReplacementInv, [ReplacementNext]_replacementVars PROVE \A a \in Actors : Own(a)'
<1>1. ASSUME NEW a \in Actors, Frame(a), Own(a)' PROVE \A b \in Actors : Own(b)'
  BY <1>1, Others DEF Own
<1>2. ASSUME NEW a \in Operators,
             OperatorStep(a) \/ \E f \in Files : Measure(a, f) \/ Override(a, f)
      PROVE  \A b \in Actors : Own(b)'
  BY <1>1, <1>2, Framed, OperatorOwn DEF Actors
<1>3. ASSUME NEW a \in Agents,
             \/ AgentStep(a)
             \/ \E r \in Replacements : Accept(a, r) \/ Decide(a, r) \/ BeginRevert(a, r)
      PROVE  \A b \in Actors : Own(b)'
  BY <1>1, <1>3, Framed, AgentOwn DEF Actors
<1>4. ASSUME NEW a \in Actors, WriteStep(a) PROVE \A b \in Actors : Own(b)'
  BY <1>1, <1>4, Framed, WriteOwn
<1>5. ASSUME NEW a \in Actors, Interrupt(a) \/ DeadlockDetected(a) PROVE \A b \in Actors : Own(b)'
  <2>1. Ended(a)
    BY <1>5 DEF Interrupt, DeadlockDetected, Rollback
  <2>2. QED
    BY <1>1, <1>5, <2>1, Framed, EndsOwn
<1>6. QED
  BY <1>2, <1>3, <1>4, <1>5, Bystanders DEF ReplacementNext

LEMMA StepInv == ASSUME ReplacementInv, [ReplacementNext]_replacementVars PROVE ReplacementInv'
<1>1. ReplacementTypeOK'
  BY RestTypes, TxTypes, Types DEF ReplacementTypeOK, RestTyped, TxTyped
<1>2. TxHolds' /\ DraftsHidden' /\ AllFit'
  BY Owned DEF Own, TxHolds, DraftsHidden, AllFit
<1>3. LocksHeld'
  <2>1. \A r \in Replacements : rowLock'[r] \in Actors \cup {Nobody}
    BY RestTypes DEF RestTyped
  <2>2. QED
    BY <2>1, Owned DEF Own, LocksHeld, LockKept
<1>4. RowsMatch' /\ SnapshotsFit'
  BY RowsStep DEF RowsFit
<1>5. QED
  BY <1>1, <1>2, <1>3, <1>4 DEF ReplacementInv, Bound

LEMMA ReplacementInductive == ReplacementSpec => []ReplacementInv
<1>1. ReplacementInv /\ [ReplacementNext]_replacementVars => ReplacementInv'
  BY StepInv
<1>2. QED
  BY InitInv, <1>1, PTL DEF ReplacementSpec

\* Types, for hmx_pending_replacements and for the transactions that work on it.
THEOREM ReplacementTypeCorrect == ReplacementSpec => []ReplacementTypeOK
<1>1. ReplacementInv => ReplacementTypeOK
  BY DEF ReplacementInv
<1>2. QED
  BY <1>1, ReplacementInductive, PTL

\* hmx_import_authoritative deletes only what the request, or the audit of the
\* replacement that is taken back, names; any edit that it does delete unseen came
\* between the comparison of the digests and the deletion.
THEOREM ErasesKnown == ReplacementSpec => []ErasesKnownState
<1>1. ReplacementInv => ErasesKnownState
  BY DEF ReplacementInv, AllFit, Fits, ErasesKnownState
<1>2. QED
  BY <1>1, ReplacementInductive, PTL

\* The snapshot of an executed replacement is the state its audit names, so its
\* reversion is not refused for it.
THEOREM SnapshotsRestore == ReplacementSpec => []SnapshotsFit
<1>1. ReplacementInv => SnapshotsFit
  BY DEF ReplacementInv
<1>2. QED
  BY <1>1, ReplacementInductive, PTL

\* However overrides, answers, expiries and reversions overtake each other, a
\* decision on a request stands.
THEOREM DecisionsStand == ReplacementSpec => VerdictsStand
<1>1. ASSUME ReplacementInv, [ReplacementNext]_replacementVars, NEW r \in Replacements,
             verdict[r] \in Settled
      PROVE  \/ verdict'[r] = verdict[r]
             \/ verdict[r] = "executed" /\ verdict'[r] = "reverted"
  <2>0. verdict[r] \notin Undecided \cup {"none", "draft"}
    BY <1>1 DEF Settled, Refusals, Undecided
  <2>1. ASSUME NEW a \in Actors, Frame(a)
        PROVE  \/ verdict'[r] = verdict[r]
               \/ verdict[r] = "executed" /\ verdict'[r] = "reverted"
    BY <2>0, <2>1 DEF Frame, RowsFrame, OwnDraft
  <2>2. CASE \/ List \/ UNCHANGED replacementVars
             \/ \E s \in Sections, gone, come \in SUBSET Records : EditSelf(s, gone, come)
             \/ \E q \in Replacements : GrowOverdue(q) \/ Ripen(q)
    BY <2>0, <2>2 DEF List, LapsedRows, replacementVars, requestRows, EditSelf, GrowOverdue, Ripen
  <2>3. QED
    BY <1>1, <2>1, <2>2, Framed DEF ReplacementNext, Actors
<1>2. ReplacementInv /\ [ReplacementNext]_replacementVars
        => [\A r \in Replacements : verdict[r] \in Settled =>
              \/ verdict'[r] = verdict[r]
              \/ verdict[r] = "executed" /\ verdict'[r] = "reverted"]_verdict
  BY <1>1
<1>3. QED
  BY <1>2, ReplacementInductive, PTL DEF ReplacementSpec, VerdictsStand
=============================================================================
