--------------------------- MODULE DeliveryProofs ---------------------------
\* Proofs about Delivery for any number of envelopes, targets and faults.
\*
\* claim_channel_delivery_obligation and the recovery count an attempt before the
\* send, but the row they count it in and the copy a platform gets are two pieces
\* of state in two places. The argument follows what the consumer holds: an
\* obligation that is about to be sent, or waits for the recovery to send it, has
\* one attempt more than copies, and is not delivered.
EXTENDS Delivery, SequenceTheorems, TLAPS

LedgerType ==
    /\ state \in [Obligations -> States] /\ attempts \in [Obligations -> Nat]
    /\ due \subseteq Obligations /\ stale \subseteq Obligations

\* The send of what is at work is over; its outcome is still to be written down.
Answered == {"sent", "failed", "gone", "denied"}

\* The obligations whose counted attempt is still to be made.
Awaiting == (IF at \in Answered THEN rescued \ work ELSE rescued)
               \cup (IF at = "send" THEN work ELSE {})

AtMostOne == \A o, p \in work : o = p

\* While the database answers, an attempt is counted before it is made.
CountedAhead == dbErrors = 0 => \A o \in Awaiting : copies[o] < attempts[o]

\* The recovery holds no delivered obligation, and the envelope loop none either
\* unless a statement failed.
HeldOpen ==
    /\ \A o \in rescued : state[o] # "delivered"
    /\ at = "claim" => \A o \in work : state[o] # "delivered"
    /\ at = "send" /\ dbErrors = 0 => \A o \in work : state[o] # "delivered"

IInv == TypeOK /\ AtMostOne /\ CopiesCounted /\ CountedAhead /\ HeldOpen
-----------------------------------------------------------------------------
\* The statements that write the ledger, and where the consumer runs them.
Statement ==
    \/ \E o \in Obligations :
          \/ Upsert(o)
          \/ ClaimRow(o) /\ at = "claim" /\ o \in work
          \/ Fail(o)
          \/ Deliver(o) /\ at = "sent" /\ tracked /\ o \in work /\ Leave(o)
    \/ \E S \in SUBSET Unfinished, C \in SUBSET Unfinished :
          Reclaim(S, C) /\ at = "recover"
    \/ UNCHANGED ledger

\* No action but these statements changes the ledger of a live row; time only
\* lets rows fall due and grow stale.
LEMMA LedgerStep ==
    ASSUME TypeOK, [Next]_vars
    PROVE  \/ Statement
           \/ /\ UNCHANGED <<state, attempts>>
              /\ due' \subseteq Obligations /\ stale' \subseteq Obligations
<1>1. ASSUME NEW o \in Obligations, Step(o) PROVE Statement
  <2>1. CASE RescueSkips(o) \/ Delivered(o) \/ Failed(o)
    BY <2>1 DEF RescueSkips, Delivered, Failed, Attempted, Swallowed, Statement
  <2>2. CASE Record(o) \/ Claim(o)
    BY <2>2 DEF Record, Claim, Statement
  <2>3. CASE Rescue(o) \/ Skip(o) \/ Send(o)
    BY <2>3 DEF Rescue, Skip, Send, Statement
  <2>4. QED
    BY <1>1, <2>1, <2>2, <2>3 DEF Step
<1>2. ASSUME NEW o \in Obligations, Fault(o) PROVE Statement
  <2>1. CASE RecordFails(o) \/ ClaimFails(o)
    BY <2>1 DEF RecordFails, ClaimFails, Swallowed, Statement
  <2>2. CASE Deny(o) \/ SendFails(o) \/ FinalizeFails(o) \/ FinalizeRaises(o)
    BY <2>2 DEF Deny, SendFails, FinalizeFails, FinalizeRaises, Statement
  <2>3. QED
    BY <1>2, <2>1, <2>2 DEF Fault
<1>3. CASE Recover
  BY <1>3 DEF Recover, Statement
<1>4. CASE RecoverFails
  BY <1>4 DEF RecoverFails, Swallowed, Statement
<1>5. CASE Start \/ Fetch \/ Take \/ EndPoll
  BY <1>5 DEF Start, Fetch, Take, EndPoll, Statement
<1>6. CASE FetchReplyLost \/ BrokerRestarts \/ Crash
  BY <1>6 DEF FetchReplyLost, BrokerRestarts, Crash, Statement
<1>7. CASE (\E t \in Targets : Reachable(t)) \/ (\E m \in Msgs : Arrive(m))
  BY <1>7 DEF Reachable, Arrive, Statement
<1>8. ASSUME NEW o \in Obligations, Time(o)
      PROVE /\ UNCHANGED <<state, attempts>>
            /\ due' \subseteq Obligations /\ stale' \subseteq Obligations
  BY <1>8 DEF Time, FallsDue, GrowsStale, TypeOK
<1>9. CASE UNCHANGED vars
  BY <1>9 DEF vars, Statement
<1>10. QED
  BY <1>1, <1>2, <1>3, <1>4, <1>5, <1>6, <1>7, <1>8, <1>9 DEF Next, Consume, Poll

\* Every statement leaves rows of the ledger's types.
LEMMA LedgerTypes == ASSUME TypeOK, [Next]_vars PROVE LedgerType'
<1> USE DEF TypeOK, LedgerType
<1>1. ASSUME NEW o \in Obligations, Upsert(o) PROVE LedgerType'
  BY <1>1 DEF Upsert, SetState, Upserted, States
<1>2. ASSUME NEW o \in Obligations, ClaimRow(o) PROVE LedgerType'
  BY <1>2 DEF ClaimRow, SetState, Count, States
<1>3. ASSUME NEW o \in Obligations, Fail(o) PROVE LedgerType'
  BY <1>3 DEF Fail, SetState, States, ledger
<1>4. ASSUME NEW o \in Obligations, Deliver(o) PROVE LedgerType'
  BY <1>4 DEF Deliver, SetState, States
<1>5. ASSUME NEW S \in SUBSET Unfinished, NEW C \in SUBSET Unfinished, Reclaim(S, C)
      PROVE LedgerType'
  BY <1>5 DEF Reclaim, Count, States
<1>6. ASSUME UNCHANGED ledger PROVE LedgerType'
  BY <1>6 DEF ledger
<1>7. QED
  BY <1>1, <1>2, <1>3, <1>4, <1>5, <1>6, LedgerStep DEF Statement
-----------------------------------------------------------------------------
BoundsType == {arrivals, crashes, dbErrors, sendErrors, late} \subseteq Nat

\* A statement that is tried leaves the counters of faults numbers.
LEMMA BoundsTypes == ASSUME TypeOK, [Next]_vars PROVE BoundsType'
<1> USE DEF TypeOK, BoundsType, bounds, DbError, SendError
<1>1. ASSUME NEW o \in Obligations, Step(o) PROVE BoundsType'
  BY <1>1 DEF Step, RescueSkips, Rescue, Reaches, Skip, Record, Claim, Send, Delivered, Failed,
     Attempted, Swallowed
<1>2. ASSUME NEW o \in Obligations, Fault(o) PROVE BoundsType'
  BY <1>2 DEF Fault, RecordFails, ClaimFails, Deny, SendFails, FinalizeFails, FinalizeRaises,
     Swallowed
<1>3. CASE Start \/ Recover \/ Fetch \/ Take \/ EndPoll
  BY <1>3 DEF Start, Recover, Fetch, Take, EndPoll
<1>4. CASE RecoverFails \/ FetchReplyLost \/ BrokerRestarts \/ Crash
  BY <1>4 DEF RecoverFails, Swallowed, FetchReplyLost, BrokerRestarts, Crash
<1>5. CASE \/ \E o \in Obligations : Time(o)
           \/ \E t \in Targets : Reachable(t)
           \/ \E m \in Msgs : Arrive(m)
  BY <1>5 DEF Time, FallsDue, GrowsStale, Reachable, Arrive
<1>6. CASE UNCHANGED vars
  BY <1>6 DEF vars
<1>7. QED
  BY <1>1, <1>2, <1>3, <1>4, <1>5, <1>6 DEF Next, Consume, Poll

QueueType == broker \in Seq(Msgs) /\ inbox \subseteq Msgs /\ inhand \in Seq(Msgs)

\* What the broker loses or hands out are envelopes.
LEMMA PopType ==
    ASSUME TypeOK, NEW n \in Nat, n <= Len(broker)
    PROVE  /\ SubSeq(broker, 1, n) \in Seq(Msgs)
           /\ SubSeq(broker, n + 1, Len(broker)) \in Seq(Msgs)
<1>1. \A i \in 1..Len(broker) : broker[i] \in Msgs
  BY DEF TypeOK
<1>2. Len(broker) \in Nat
  BY DEF TypeOK
<1>3. \A i \in 1..n : broker[i] \in Msgs
  BY <1>1, <1>2
<1>4. \A i \in (n + 1)..Len(broker) : broker[i] \in Msgs
  BY <1>1, <1>2
<1>5. SubSeq(broker, 1, n) \in Seq(Msgs)
  BY <1>3, SubSeqProperties
<1>6. SubSeq(broker, n + 1, Len(broker)) \in Seq(Msgs)
  BY <1>2, <1>4, SubSeqProperties
<1>7. QED
  BY <1>5, <1>6

\* Queue, inbox and the envelopes in hand keep their types.
LEMMA QueueTypes == ASSUME TypeOK, [Next]_vars PROVE QueueType'
<1> USE DEF TypeOK, QueueType, hands
<1>1. ASSUME NEW o \in Obligations, Step(o) PROVE QueueType'
  BY <1>1 DEF Step, RescueSkips, Rescue, Skip, Record, Claim, Send, Delivered, Failed, Leave
<1>2. ASSUME NEW o \in Obligations, Fault(o) PROVE QueueType'
  BY <1>2 DEF Fault, RecordFails, ClaimFails, Deny, SendFails, FinalizeFails, FinalizeRaises, Leave
<1>0. <<>> \in Seq(Msgs)
  OBVIOUS
<1>3. CASE Start \/ Recover \/ RecoverFails \/ EndPoll \/ Crash \/ BrokerRestarts
  BY <1>0, <1>3 DEF Start, Recover, RecoverFails, EndPoll, Crash, BrokerRestarts
<1>4. Least(Len(broker), FetchSize) \in Nat /\ Least(Len(broker), FetchSize) <= Len(broker)
  BY DeliveryAssumption DEF Least
<1>5. CASE Fetch
  BY <1>4, <1>5, PopType DEF Fetch, Pop
<1>6. CASE FetchReplyLost
  BY <1>4, <1>6, PopType DEF FetchReplyLost, Pop
<1>7. CASE Take
  BY <1>7, HeadTailProperties DEF Take
<1>8. CASE (\E o \in Obligations : Time(o)) \/ (\E t \in Targets : Reachable(t))
  BY <1>8 DEF Time, FallsDue, GrowsStale, Reachable
<1>9. ASSUME NEW m \in Msgs, Arrive(m) PROVE QueueType'
  BY <1>9, AppendProperties DEF Arrive
<1>10. CASE UNCHANGED vars
  BY <1>10 DEF vars
<1>11. QED
  BY <1>1, <1>2, <1>3, <1>5, <1>6, <1>7, <1>8, <1>9, <1>10 DEF Next, Consume, Poll
HandsType ==
    /\ gone \subseteq Targets
    /\ at \in {"down", "recover", "rescue", "route", "claim", "send", "sent",
              "failed", "gone", "denied"}
    /\ rescued \subseteq Obligations /\ marked \subseteq rescued
    /\ left \subseteq Obligations /\ work \subseteq Obligations
    /\ tracked \in BOOLEAN
    /\ copies \in [Obligations -> Nat]

\* Leaving an obligation takes nothing new in hand.
LEMMA LeaveType ==
    ASSUME TypeOK, NEW o \in Obligations, Leave(o)
    PROVE  /\ at' \in {"rescue", "route"} /\ work' = {} /\ tracked' = FALSE
           /\ rescued' \subseteq Obligations /\ marked' \subseteq rescued'
           /\ left' \subseteq Obligations
BY DEF Leave, TypeOK

\* The consumer's place, what it holds and the copies sent keep their types.
LEMMA HandsTypes == ASSUME TypeOK, [Next]_vars PROVE HandsType'
<1> USE DEF TypeOK, HandsType, hands
<1>1. ASSUME NEW o \in Obligations, RescueSkips(o) \/ Rescue(o) \/ Skip(o) PROVE HandsType'
  BY <1>1 DEF RescueSkips, Rescue, Skip
<1>2. ASSUME NEW o \in Obligations, Record(o) PROVE HandsType'
  BY <1>2 DEF Record
<1>3. ASSUME NEW o \in Obligations, Claim(o) PROVE HandsType'
  BY <1>3, LeaveType DEF Claim
<1>4. ASSUME NEW o \in Obligations, Send(o) PROVE HandsType'
  BY <1>4 DEF Send, Accept
<1>5. ASSUME NEW o \in Obligations, Delivered(o) \/ Failed(o) PROVE HandsType'
  <2>1. Leave(o) /\ UNCHANGED copies
    BY <1>5 DEF Delivered, Failed
  <2>2. gone' \subseteq Targets
    BY <1>5 DEF Delivered, Failed, Remember, Obligations
  <2>3. QED
    BY <2>1, <2>2, LeaveType
<1>6. ASSUME NEW o \in Obligations, RecordFails(o) \/ ClaimFails(o) PROVE HandsType'
  BY <1>6 DEF RecordFails, ClaimFails
<1>7. ASSUME NEW o \in Obligations, Deny(o) \/ FinalizeFails(o) PROVE HandsType'
  BY <1>7 DEF Deny, FinalizeFails
<1>8. ASSUME NEW o \in Obligations, SendFails(o) PROVE HandsType'
  <2>1. Accept(o) \/ UNCHANGED copies
    BY <1>8 DEF SendFails
  <2>2. copies' \in [Obligations -> Nat]
    BY <2>1 DEF Accept
  <2>3. at' \in {"failed", "gone"} /\ UNCHANGED <<gone, hands>>
    BY <1>8 DEF SendFails
  <2>4. QED
    BY <2>2, <2>3
<1>9. ASSUME NEW o \in Obligations, FinalizeRaises(o) PROVE HandsType'
  BY <1>9, LeaveType DEF FinalizeRaises
<1>10. CASE Recover
  BY <1>10 DEF Recover, Unfinished
<1>11. CASE Start \/ RecoverFails \/ Fetch \/ FetchReplyLost \/ BrokerRestarts \/ EndPoll \/ Crash
  BY <1>11 DEF Start, RecoverFails, Fetch, FetchReplyLost, BrokerRestarts, EndPoll, Crash
<1>12. CASE Take
  <2>1. Head(inhand) \in Msgs
    BY <1>12, HeadTailProperties DEF Take
  <2>2. left' \subseteq Obligations
    BY <1>12, <2>1, DeliveryAssumption DEF Take, Obligations
  <2>3. QED
    BY <1>12, <2>2 DEF Take
<1>13. CASE (\E o \in Obligations : Time(o)) \/ (\E t \in Targets : Reachable(t))
  BY <1>13 DEF Time, FallsDue, GrowsStale, Reachable
<1>14. CASE \E m \in Msgs : Arrive(m)
  BY <1>14 DEF Arrive
<1>15. CASE UNCHANGED vars
  BY <1>15 DEF vars
<1>16. QED
  BY <1>1, <1>2, <1>3, <1>4, <1>5, <1>6, <1>7, <1>8, <1>9, <1>10, <1>11, <1>12, <1>13,
     <1>14, <1>15 DEF Next, Consume, Poll, Step, Fault

LEMMA TypeStep == TypeOK /\ [Next]_vars => TypeOK'
BY LedgerTypes, BoundsTypes, QueueTypes, HandsTypes
   DEF TypeOK, LedgerType, BoundsType, QueueType, HandsType
-----------------------------------------------------------------------------
\* One obligation at a time is at work.
LEMMA OneStep == TypeOK /\ AtMostOne /\ [Next]_vars => AtMostOne'
<1> SUFFICES ASSUME TypeOK, AtMostOne, [Next]_vars PROVE AtMostOne'
  OBVIOUS
<1>1. UNCHANGED work \/ work' = {} \/ \E o \in Obligations : work' = {o}
  <2> USE DEF hands
  <2>1. CASE \E o \in Obligations : Step(o)
    BY <2>1 DEF Step, RescueSkips, Rescue, Skip, Record, Claim, Send, Delivered, Failed, Leave
  <2>2. CASE \E o \in Obligations : Fault(o)
    BY <2>2 DEF Fault, RecordFails, ClaimFails, Deny, SendFails, FinalizeFails,
       FinalizeRaises, Leave
  <2>3. CASE Start \/ Recover \/ RecoverFails \/ Fetch \/ FetchReplyLost \/ Take \/ EndPoll
             \/ BrokerRestarts \/ Crash
    BY <2>3 DEF Start, Recover, RecoverFails, Fetch, FetchReplyLost, Take, EndPoll,
       BrokerRestarts, Crash
  <2>4. CASE \/ \E o \in Obligations : Time(o)
             \/ \E t \in Targets : Reachable(t)
             \/ \E m \in Msgs : Arrive(m)
    BY <2>4 DEF Time, FallsDue, GrowsStale, Reachable, Arrive
  <2>5. QED
    BY <2>1, <2>2, <2>3, <2>4 DEF Next, Consume, Poll, vars
<1>2. QED
  BY <1>1 DEF AtMostOne
-----------------------------------------------------------------------------
\* A quiet step: nothing changes but what waits in queues, and time.
Quiet == UNCHANGED <<state, attempts, at, rescued, work, copies, dbErrors>>

LEMMA QuietSteps ==
    ASSUME \/ BrokerRestarts
           \/ \E o \in Obligations : Time(o)
           \/ \E t \in Targets : Reachable(t)
           \/ \E m \in Msgs : Arrive(m)
           \/ UNCHANGED vars
    PROVE  Quiet
BY DEF Quiet, BrokerRestarts, SendError, Time, FallsDue, GrowsStale, Reachable, Arrive, vars,
   ledger, hands, bounds

\* Attempts only grow: no statement takes a counted attempt back.
LEMMA AttemptsGrow ==
    ASSUME TypeOK, [Next]_vars, NEW o \in Obligations
    PROVE  attempts[o] \in Nat /\ attempts'[o] \in Nat /\ attempts[o] <= attempts'[o]
<1> USE DEF TypeOK
<1>1. ASSUME NEW p \in Obligations, Upsert(p) \/ Fail(p) \/ Deliver(p) PROVE attempts' = attempts
  BY <1>1 DEF Upsert, Fail, Deliver, ledger
<1>2. ASSUME NEW p \in Obligations, ClaimRow(p) PROVE attempts'[o] \in {attempts[o], attempts[o] + 1}
  BY <1>2 DEF ClaimRow, Count
<1>3. ASSUME NEW S \in SUBSET Unfinished, NEW C \in SUBSET Unfinished, Reclaim(S, C)
      PROVE attempts'[o] \in {attempts[o], attempts[o] + 1}
  BY <1>3 DEF Reclaim, Count
<1>4. attempts'[o] \in {attempts[o], attempts[o] + 1}
  BY <1>1, <1>2, <1>3, LedgerStep DEF Statement, ledger
<1>5. QED
  BY <1>4

\* The errors of the database are counted for good.
LEMMA NoErrorYet == ASSUME TypeOK, [Next]_vars, dbErrors' = 0 PROVE dbErrors = 0
<1> USE DEF TypeOK, DbError, SendError, bounds
<1>1. CASE \E o \in Obligations : Step(o)
  BY <1>1 DEF Step, RescueSkips, Rescue, Reaches, Skip, Record, Claim, Send, Delivered, Failed,
     Attempted, Swallowed
<1>2. CASE \E o \in Obligations : Fault(o)
  BY <1>2 DEF Fault, RecordFails, ClaimFails, Deny, SendFails, FinalizeFails, FinalizeRaises,
     Swallowed
<1>3. CASE Start \/ Recover \/ RecoverFails \/ Fetch \/ FetchReplyLost \/ Take \/ EndPoll \/ Crash
  BY <1>3 DEF Start, Recover, RecoverFails, Swallowed, Fetch, FetchReplyLost, Take, EndPoll, Crash
<1>4. CASE Quiet
  BY <1>4 DEF Quiet
<1>5. QED
  BY <1>1, <1>2, <1>3, <1>4, QuietSteps DEF Next, Consume, Poll

\* The steps that fail with a statement.
LEMMA ErrorSteps ==
    ASSUME TypeOK, NEW o \in Obligations,
           \/ RecordFails(o) \/ ClaimFails(o) \/ FinalizeFails(o) \/ FinalizeRaises(o)
           \/ RecoverFails
    PROVE  dbErrors' # 0
BY DEF TypeOK, RecordFails, ClaimFails, FinalizeFails, FinalizeRaises, RecoverFails, Swallowed,
   DbError
-----------------------------------------------------------------------------
Counted == CopiesCounted /\ CountedAhead

\* While nothing is sent and nothing new waits to be sent, the count holds.
LEMMA NothingSent ==
    ASSUME IInv, [Next]_vars, UNCHANGED copies, Awaiting' \subseteq Awaiting
    PROVE  Counted'
<1> SUFFICES ASSUME dbErrors' = 0, NEW o \in Obligations
             PROVE  copies'[o] <= attempts'[o] /\ (o \in Awaiting' => copies'[o] < attempts'[o])
  <2>1. Awaiting' \subseteq Obligations
    BY TypeStep DEF IInv, TypeOK, Awaiting
  <2>2. QED
    BY <2>1 DEF Counted, CopiesCounted, CountedAhead
<1>1. copies[o] <= attempts[o] /\ (o \in Awaiting => copies[o] < attempts[o])
  BY NoErrorYet DEF IInv, CopiesCounted, CountedAhead
<1>2. copies[o] \in Nat /\ copies' = copies
  BY DEF IInv, TypeOK
<1>3. QED
  BY <1>1, <1>2, AttemptsGrow DEF IInv

\* A send uses up the attempt that was counted for it.
LEMMA Sent ==
    ASSUME IInv, [Next]_vars, NEW o \in Obligations, at = "send", o \in work,
           at' \in Answered, UNCHANGED hands, Accept(o) \/ UNCHANGED copies
    PROVE  Counted'
<1>1. Awaiting = rescued \cup work /\ Awaiting' = rescued \ work
  BY DEF Awaiting, Answered, hands
<1>2. CASE UNCHANGED copies
  BY <1>1, <1>2, NothingSent
<1>3. CASE Accept(o)
  <2> SUFFICES ASSUME dbErrors' = 0, NEW p \in Obligations
               PROVE  copies'[p] <= attempts'[p] /\ (p \in Awaiting' => copies'[p] < attempts'[p])
    <3>1. Awaiting' \subseteq Obligations
      BY TypeStep DEF IInv, TypeOK, Awaiting
    <3>2. QED
      BY <3>1 DEF Counted, CopiesCounted, CountedAhead
  <2>1. copies[p] <= attempts[p] /\ (p \in Awaiting => copies[p] < attempts[p])
    BY NoErrorYet DEF IInv, CopiesCounted, CountedAhead
  <2>2. copies[p] \in Nat /\ copies'[p] = IF p = o THEN copies[p] + 1 ELSE copies[p]
    BY <1>3 DEF Accept, IInv, TypeOK
  <2>3. attempts[p] \in Nat /\ attempts'[p] \in Nat /\ attempts[p] <= attempts'[p]
    BY AttemptsGrow DEF IInv
  <2>4. CASE p = o
    BY <1>1, <2>1, <2>2, <2>3, <2>4
  <2>5. CASE p # o
    BY <1>1, <2>1, <2>2, <2>3, <2>5
  <2>6. QED
    BY <2>4, <2>5
<1>4. QED
  BY <1>2, <1>3
\* Leaving what is at work leaves less to be sent.
LEMMA LeaveShrinks ==
    ASSUME IInv, NEW o \in Obligations, o \in work, Leave(o), at # "send"
    PROVE  Awaiting' \subseteq Awaiting
<1>1. work = {o}
  BY DEF IInv, AtMostOne
<1>2. Awaiting' = rescued' /\ rescued' \subseteq rescued /\ o \notin rescued'
  BY DEF Leave, Awaiting, Answered
<1>3. QED
  BY <1>1, <1>2 DEF Awaiting

\* An attempt is counted before it is made (channels/outbox.py:599-606,
\* db/89:175-217), so copies never outnumber attempts.
LEMMA CountStep == IInv /\ [Next]_vars => Counted'
<1> SUFFICES ASSUME IInv, [Next]_vars PROVE Counted'
  OBVIOUS
<1> USE DEF hands, Answered
<1>1. ASSUME dbErrors' # 0 PROVE Counted'
  BY <1>1 DEF Counted, CopiesCounted, CountedAhead
<1>2. ASSUME NEW o \in Obligations, Step(o) PROVE Counted'
  <2>1. CASE RescueSkips(o) \/ Rescue(o) \/ Skip(o) \/ Record(o)
    <3>1. Awaiting' \subseteq Awaiting /\ UNCHANGED copies
      BY <2>1 DEF RescueSkips, Rescue, Skip, Record, Awaiting
    <3>2. QED
      BY <3>1, NothingSent
  <2>2. CASE Claim(o)
    <3>1. CASE Leave(o)
      BY <2>2, <3>1, LeaveShrinks, NothingSent DEF Claim
    <3>2. CASE ClaimRow(o) /\ at' = "send" /\ UNCHANGED hands
      <4>1. Awaiting = rescued /\ Awaiting' = rescued \cup {o} /\ UNCHANGED copies
        BY <2>2, <3>2 DEF Claim, Awaiting, IInv, AtMostOne
      <4>2. attempts'[o] = attempts[o] + 1
        BY <3>2 DEF ClaimRow, Count
      <4> SUFFICES ASSUME dbErrors' = 0, NEW p \in Obligations
                   PROVE  /\ copies[p] <= attempts'[p]
                          /\ p \in Awaiting' => copies[p] < attempts'[p]
        <5>1. Awaiting' \subseteq Obligations
          BY <4>1 DEF IInv, TypeOK
        <5>2. QED
          BY <4>1, <5>1 DEF Counted, CopiesCounted, CountedAhead
      <4>3. copies[p] <= attempts[p] /\ (p \in Awaiting => copies[p] < attempts[p])
        BY NoErrorYet DEF IInv, CopiesCounted, CountedAhead
      <4>4. copies[p] \in Nat /\ attempts[p] \in Nat
        BY DEF IInv, TypeOK
      <4>5. CASE p = o
        BY <4>2, <4>3, <4>4, <4>5
      <4>6. CASE p # o
        BY <4>1, <4>3, <4>4, <4>6, AttemptsGrow DEF IInv
      <4>7. QED
        BY <4>5, <4>6
    <3>3. QED
      BY <2>2, <3>1, <3>2 DEF Claim
  <2>3. CASE Send(o)
    BY <2>3, Sent DEF Send
  <2>4. CASE Delivered(o) \/ Failed(o)
    BY <2>4, LeaveShrinks, NothingSent DEF Delivered, Failed
  <2>5. QED
    BY <1>2, <2>1, <2>2, <2>3, <2>4 DEF Step
<1>3. ASSUME NEW o \in Obligations, Fault(o) PROVE Counted'
  <2>1. CASE Deny(o)
    BY <2>1, Sent DEF Deny
  <2>2. CASE SendFails(o)
    BY <2>2, Sent DEF SendFails
  <2>3. QED
    BY <1>1, <1>3, <2>1, <2>2, ErrorSteps DEF Fault, IInv
<1>4. CASE Recover
  <2>1. PICK S \in SUBSET Unfinished, C \in SUBSET Unfinished : Reclaim(S, C) /\ rescued' = C
    BY <1>4 DEF Recover
  <2>2. Awaiting' = C /\ UNCHANGED copies
    BY <1>4, <2>1 DEF Recover, Awaiting
  <2> SUFFICES ASSUME dbErrors' = 0, NEW p \in Obligations
               PROVE  copies[p] <= attempts'[p] /\ (p \in C => copies[p] < attempts'[p])
    <3>1. C \subseteq Obligations
      BY DEF Unfinished
    <3>2. QED
      BY <2>2, <3>1 DEF Counted, CopiesCounted, CountedAhead
  <2>3. copies[p] <= attempts[p]
    BY NoErrorYet DEF IInv, CopiesCounted
  <2>4. copies[p] \in Nat /\ attempts[p] \in Nat
    BY DEF IInv, TypeOK
  <2>5. attempts'[p] = IF p \in C THEN attempts[p] + 1 ELSE attempts[p]
    BY <2>1 DEF Reclaim, Count
  <2>6. QED
    BY <2>3, <2>4, <2>5
<1>5. CASE Start \/ Fetch \/ FetchReplyLost \/ Take \/ EndPoll \/ Crash
  <2>1. Awaiting' \subseteq Awaiting /\ UNCHANGED copies
    BY <1>5 DEF Start, Fetch, FetchReplyLost, Take, EndPoll, Crash, Awaiting
  <2>2. QED
    BY <2>1, NothingSent
<1>6. CASE RecoverFails
  BY <1>1, <1>6 DEF RecoverFails, Swallowed, DbError, IInv, TypeOK
<1>7. CASE Quiet
  BY <1>7, NothingSent DEF Quiet, Awaiting
<1>8. QED
  BY <1>2, <1>3, <1>4, <1>5, <1>6, <1>7, QuietSteps DEF Next, Consume, Poll
-----------------------------------------------------------------------------
\* Only a confirmed send makes an obligation delivered, and the consumer lets go
\* of it in the same step.
LEMMA NewlyDelivered ==
    ASSUME TypeOK, [Next]_vars, NEW o \in Obligations,
           state[o] # "delivered", state'[o] = "delivered"
    PROVE  at = "sent" /\ o \in work /\ Leave(o)
<1> USE DEF TypeOK
<1>1. ASSUME NEW p \in Obligations, Upsert(p) PROVE state'[o] # "delivered"
  BY <1>1 DEF Upsert, SetState, Upserted
<1>2. ASSUME NEW p \in Obligations, ClaimRow(p) PROVE state'[o] # "delivered"
  BY <1>2 DEF ClaimRow, SetState
<1>3. ASSUME NEW p \in Obligations, Fail(p) PROVE state'[o] # "delivered"
  BY <1>3 DEF Fail, SetState, ledger
<1>4. ASSUME NEW p \in Obligations, Deliver(p) PROVE p = o
  BY <1>4 DEF Deliver, SetState
<1>5. ASSUME NEW S \in SUBSET Unfinished, NEW C \in SUBSET Unfinished, Reclaim(S, C)
      PROVE state'[o] # "delivered"
  BY <1>5 DEF Reclaim
<1>6. QED
  BY <1>1, <1>2, <1>3, <1>4, <1>5, LedgerStep DEF Statement, ledger

\* The recovery holds open obligations only, and the envelope loop sends none that
\* the claim found delivered.
LEMMA OpenStep == IInv /\ [Next]_vars => HeldOpen'
<1> SUFFICES ASSUME IInv, [Next]_vars PROVE HeldOpen'
  OBVIOUS
<1> USE DEF hands
<1>1. rescued' \subseteq rescued \/ Recover
  <2>1. CASE \E o \in Obligations : Step(o)
    BY <2>1 DEF Step, RescueSkips, Rescue, Skip, Record, Claim, Send, Delivered, Failed, Leave
  <2>2. CASE \E o \in Obligations : Fault(o)
    BY <2>2 DEF Fault, RecordFails, ClaimFails, Deny, SendFails, FinalizeFails,
       FinalizeRaises, Leave
  <2>3. CASE Start \/ RecoverFails \/ Fetch \/ FetchReplyLost \/ Take \/ EndPoll \/ Crash
    BY <2>3 DEF Start, RecoverFails, Fetch, FetchReplyLost, Take, EndPoll, Crash
  <2>4. CASE Quiet
    BY <2>4 DEF Quiet
  <2>5. QED
    BY <2>1, <2>2, <2>3, <2>4, QuietSteps DEF Next, Consume, Poll
<1>2. \A o \in rescued' : state'[o] # "delivered"
  <2>1. CASE Recover
    BY <2>1 DEF Recover, Reclaim, Unfinished
  <2>2. ASSUME rescued' \subseteq rescued, NEW o \in rescued' PROVE state'[o] # "delivered"
    <3>1. o \in Obligations /\ state[o] # "delivered"
      BY <2>2 DEF IInv, TypeOK, HeldOpen
    <3>2. Leave(o) => o \notin rescued'
      BY DEF Leave
    <3>3. QED
      BY <2>2, <3>1, <3>2, NewlyDelivered DEF IInv
  <2>3. QED
    BY <1>1, <2>1, <2>2
<1>3. \/ UNCHANGED <<state, at, work, dbErrors>>
      \/ dbErrors' # 0 /\ at' # "claim"
      \/ at' \notin {"claim", "send"}
      \/ \E o \in Obligations : Record(o) \/ Rescue(o) \/ Claim(o)
  <2>1. CASE \E o \in Obligations : Step(o)
    BY <2>1 DEF Step, RescueSkips, Skip, Send, Delivered, Failed, Leave
  <2>2. CASE \E o \in Obligations : RecordFails(o) \/ ClaimFails(o)
    BY <2>2, ErrorSteps DEF RecordFails, ClaimFails, IInv
  <2>3. CASE \E o \in Obligations : Deny(o) \/ SendFails(o) \/ FinalizeFails(o) \/ FinalizeRaises(o)
    BY <2>3 DEF Deny, SendFails, FinalizeFails, FinalizeRaises, Leave
  <2>4. CASE Start \/ Recover \/ RecoverFails \/ Fetch \/ FetchReplyLost \/ Take \/ EndPoll
             \/ Crash
    BY <2>4 DEF Start, Recover, RecoverFails, Fetch, FetchReplyLost, Take, EndPoll, Crash
  <2>5. CASE Quiet
    BY <2>5 DEF Quiet
  <2>6. QED
    BY <2>1, <2>2, <2>3, <2>4, <2>5, QuietSteps DEF Next, Consume, Poll, Fault
<1>4. ASSUME NEW o \in Obligations, Record(o), at' = "claim" \/ at' = "send"
      PROVE  at' = "claim" /\ \A p \in work' : state'[p] # "delivered"
  BY <1>4 DEF Record
<1>5. ASSUME NEW o \in Obligations, Rescue(o)
      PROVE  at' = "send" /\ \A p \in work' : state'[p] # "delivered"
  BY <1>5 DEF Rescue, ledger, IInv, HeldOpen
<1>6. ASSUME NEW o \in Obligations, Claim(o), at' = "claim" \/ at' = "send"
      PROVE  at' = "send" /\ \A p \in work' : state'[p] # "delivered"
  BY <1>6 DEF Claim, ClaimRow, SetState, Leave, IInv, AtMostOne
<1>7. QED
  BY <1>2, <1>3, <1>4, <1>5, <1>6 DEF HeldOpen, IInv
-----------------------------------------------------------------------------
LEMMA Inductive == Spec => []IInv
<1>1. Init => IInv
  <2> SUFFICES ASSUME Init PROVE IInv
    OBVIOUS
  <2> USE DEF Init
  <2>0. <<>> \in Seq(Msgs)
    OBVIOUS
  <2>1. TypeOK
    <3>1. QueueType
      BY <2>0 DEF QueueType
    <3>2. LedgerType
      BY DEF LedgerType, States
    <3>3. HandsType
      BY DEF HandsType
    <3>4. BoundsType
      BY DEF BoundsType
    <3>5. QED
      BY <3>1, <3>2, <3>3, <3>4 DEF TypeOK, QueueType, LedgerType, HandsType, BoundsType
  <2>2. AtMostOne /\ HeldOpen
    BY DEF AtMostOne, HeldOpen
  <2>3. CopiesCounted /\ CountedAhead
    BY DEF CopiesCounted, CountedAhead, Awaiting, Answered
  <2>4. QED
    BY <2>1, <2>2, <2>3 DEF IInv
<1>2. IInv /\ [Next]_vars => IInv'
  BY TypeStep, OneStep, CountStep, OpenStep DEF IInv, Counted
<1>3. QED
  BY <1>1, <1>2, PTL DEF Spec

\* Queue, ledger and consumer keep their types (db/22_tables_channels.sql:234-253,
\* channels/outbox.py:88-160).
THEOREM TypeCorrect == Spec => []TypeOK
<1>1. IInv => TypeOK
  BY DEF IInv
<1>2. QED
  BY <1>1, Inductive, PTL

\* Every copy a platform got was counted as an attempt, as long as no statement
\* fails, for any number of crashes and failing sends.
THEOREM CopiesAreCounted == Spec => []CopiesCounted
<1>1. IInv => CopiesCounted
  BY DEF IInv
<1>2. QED
  BY <1>1, Inductive, PTL

\* A delivered obligation stays delivered and, as long as no statement fails, is
\* not sent again, whatever copies of its envelope arrive.
THEOREM DeliveredForGood == Spec => DeliveredIsFinal
<1>1. IInv /\ [Next]_vars
        => [\A o \in Obligations : state[o] = "delivered" =>
              /\ state'[o] = "delivered"
              /\ dbErrors = 0 => copies'[o] = copies[o]]_vars
  <2> SUFFICES ASSUME IInv, [Next]_vars, NEW o \in Obligations, state[o] = "delivered"
               PROVE  /\ state'[o] = "delivered"
                      /\ dbErrors = 0 => copies'[o] = copies[o]
    OBVIOUS
  <2> USE DEF IInv, TypeOK
  <2>1. state'[o] = "delivered"
    <3>1. ASSUME NEW p \in Obligations, Upsert(p) PROVE state'[o] = "delivered"
      BY <3>1 DEF Upsert, SetState, Upserted
    <3>2. ASSUME NEW p \in Obligations, ClaimRow(p), at = "claim", p \in work
          PROVE state'[o] = "delivered"
      BY <3>2 DEF ClaimRow, SetState, HeldOpen
    <3>3. ASSUME NEW p \in Obligations, Fail(p) PROVE state'[o] = "delivered"
      BY <3>3 DEF Fail, SetState, ledger
    <3>4. ASSUME NEW p \in Obligations, Deliver(p) PROVE state'[o] = "delivered"
      BY <3>4 DEF Deliver, SetState
    <3>5. ASSUME NEW S \in SUBSET Unfinished, NEW C \in SUBSET Unfinished, Reclaim(S, C)
          PROVE state'[o] = "delivered"
      BY <3>5 DEF Reclaim, Unfinished, Open
    <3>6. QED
      BY <3>1, <3>2, <3>3, <3>4, <3>5, LedgerStep DEF Statement, ledger
  <2>2. ASSUME dbErrors = 0 PROVE copies'[o] = copies[o]
    <3>1. CASE \E p \in Obligations : Send(p) \/ SendFails(p)
      BY <2>2, <3>1 DEF Send, SendFails, Accept, HeldOpen
    <3>2. CASE \E p \in Obligations : Step(p)
      BY <3>1, <3>2 DEF Step, RescueSkips, Rescue, Skip, Record, Claim, Delivered, Failed
    <3>3. CASE \E p \in Obligations : Fault(p)
      BY <3>1, <3>3 DEF Fault, RecordFails, ClaimFails, Deny, FinalizeFails, FinalizeRaises
    <3>4. CASE Start \/ Recover \/ RecoverFails \/ Fetch \/ FetchReplyLost \/ Take \/ EndPoll
               \/ Crash
      BY <3>4 DEF Start, Recover, RecoverFails, Fetch, FetchReplyLost, Take, EndPoll, Crash
    <3>5. CASE Quiet
      BY <3>5 DEF Quiet
    <3>6. QED
      BY <3>2, <3>3, <3>4, <3>5, QuietSteps DEF Next, Consume, Poll
  <2>3. QED
    BY <2>1, <2>2
<1>2. QED
  BY <1>1, Inductive, PTL DEF Spec, DeliveredIsFinal
-----------------------------------------------------------------------------
(* The consumer as a hop of the relay: what it holds is open in the ledger, *)
(* and what it is about to write down as delivered was handed over.        *)

\* Where the consumer holds what: claims of the recovery and envelopes are
\* never at work together.
Places ==
    /\ at \in {"down", "recover", "rescue", "route"} => work = {}
    /\ at \in {"down", "recover", "route", "claim"} => rescued = {}
    /\ at \in Answered \cup {"send"} => rescued = {} \/ work \subseteq rescued
    /\ at = "claim" => tracked

\* Rows it knows are open: neither unwritten nor settled nor given up.
RowsOpen == /\ \A o \in rescued : state[o] \in Open
            /\ tracked => \A o \in work : state[o] \in Open

HandedOver == at = "sent" => \A o \in work : copies[o] > 0

LEMMA PlacesStep == ASSUME TypeOK, AtMostOne, Places, [Next]_vars PROVE Places'
<1> USE DEF Places, hands, Answered
<1>1. ASSUME NEW o \in Obligations, RescueSkips(o) \/ Rescue(o) \/ Skip(o) PROVE Places'
  BY <1>1 DEF RescueSkips, Rescue, Skip
<1>2. ASSUME NEW o \in Obligations, Record(o) PROVE Places'
  BY <1>2 DEF Record
<1>3. ASSUME NEW o \in Obligations, o \in work, Leave(o), at \in Answered \cup {"send", "claim"}
      PROVE Places'
  BY <1>3 DEF Leave
<1>4. ASSUME NEW o \in Obligations, Claim(o) PROVE Places'
  BY <1>3, <1>4 DEF Claim
<1>5. ASSUME NEW o \in Obligations, Delivered(o) \/ Failed(o) PROVE Places'
  BY <1>3, <1>5 DEF Delivered, Failed
<1>6. ASSUME NEW o \in Obligations, RecordFails(o) \/ ClaimFails(o) PROVE Places'
  BY <1>6 DEF RecordFails, ClaimFails
<1>7. ASSUME NEW o \in Obligations, \/ Deny(o) \/ Send(o) \/ SendFails(o) \/ FinalizeFails(o)
      PROVE Places'
  BY <1>7 DEF Deny, Send, SendFails, FinalizeFails
<1>8. ASSUME NEW o \in Obligations, FinalizeRaises(o) PROVE Places'
  <2>1. CASE o \in rescued
    BY <1>8, <2>1 DEF FinalizeRaises
  <2>2. CASE o \notin rescued
    BY <1>3, <1>8, <2>2 DEF FinalizeRaises
  <2>3. QED
    BY <2>1, <2>2
<1>9. CASE Recover
  BY <1>9 DEF Recover
<1>10. CASE Start \/ RecoverFails \/ Fetch \/ FetchReplyLost \/ Take \/ EndPoll \/ Crash
  BY <1>10 DEF Start, RecoverFails, Fetch, FetchReplyLost, Take, EndPoll, Crash
<1>11. CASE \/ BrokerRestarts \/ (\E o \in Obligations : Time(o)) \/ UNCHANGED vars
            \/ (\E t \in Targets : Reachable(t)) \/ (\E m \in Msgs : Arrive(m))
  BY <1>11 DEF BrokerRestarts, Time, FallsDue, GrowsStale, Reachable, Arrive, vars
<1>12. QED
  BY <1>1, <1>2, <1>4, <1>5, <1>6, <1>7, <1>8, <1>9, <1>10, <1>11
  DEF Next, Consume, Poll, Step, Fault

\* An open row is closed only by the recovery, or by the send that is over.
LEMMA StaysOpen ==
    ASSUME TypeOK, [Next]_vars, NEW o \in Obligations, state[o] \in Open
    PROVE  \/ state'[o] \in Open \/ at = "recover"
           \/ o \in work /\ Leave(o)
<1> USE DEF TypeOK, Open
<1>1. ASSUME NEW p \in Obligations, Upsert(p) PROVE state'[o] \in Open
  BY <1>1 DEF Upsert, SetState, Upserted
<1>2. ASSUME NEW p \in Obligations, ClaimRow(p) PROVE state'[o] \in Open
  BY <1>2 DEF ClaimRow, SetState
<1>3. ASSUME NEW p \in Obligations, Fail(p) PROVE state'[o] \in Open
  BY <1>3 DEF Fail, SetState, ledger
<1>4. ASSUME NEW p \in Obligations, Deliver(p), p # o PROVE state'[o] \in Open
  BY <1>4 DEF Deliver, SetState
<1>5. QED
  BY <1>1, <1>2, <1>3, <1>4, LedgerStep DEF Statement, ledger

\* How the work in hand changes.
LEMMA WorkMoves ==
    ASSUME [Next]_vars
    PROVE  \/ UNCHANGED <<work, tracked>> \/ work' = {} \/ tracked' = FALSE
           \/ \E o \in Obligations : Record(o) \/ Rescue(o)
<1> USE DEF hands
<1>1. CASE \E o \in Obligations : Step(o)
  BY <1>1 DEF Step, RescueSkips, Skip, Claim, Send, Delivered, Failed, Leave
<1>2. CASE \E o \in Obligations : Fault(o)
  BY <1>2 DEF Fault, RecordFails, ClaimFails, Deny, SendFails, FinalizeFails,
     FinalizeRaises, Leave
<1>3. CASE Start \/ Recover \/ RecoverFails \/ Fetch \/ FetchReplyLost \/ Take \/ EndPoll
           \/ Crash
  BY <1>3 DEF Start, Recover, RecoverFails, Fetch, FetchReplyLost, Take, EndPoll, Crash
<1>4. CASE \/ BrokerRestarts \/ (\E o \in Obligations : Time(o)) \/ UNCHANGED vars
           \/ (\E t \in Targets : Reachable(t)) \/ (\E m \in Msgs : Arrive(m))
  BY <1>4 DEF BrokerRestarts, Time, FallsDue, GrowsStale, Reachable, Arrive, vars
<1>5. QED
  BY <1>1, <1>2, <1>3, <1>4 DEF Next, Consume, Poll

\* What the recovery holds is only what it has just claimed.
LEMMA RescuedMoves == ASSUME [Next]_vars PROVE rescued' \subseteq rescued \/ Recover
<1> USE DEF hands
<1>1. CASE \E o \in Obligations : Step(o)
  BY <1>1 DEF Step, RescueSkips, Rescue, Skip, Record, Claim, Send, Delivered, Failed, Leave
<1>2. CASE \E o \in Obligations : Fault(o)
  BY <1>2 DEF Fault, RecordFails, ClaimFails, Deny, SendFails, FinalizeFails,
     FinalizeRaises, Leave
<1>3. CASE Start \/ RecoverFails \/ Fetch \/ FetchReplyLost \/ Take \/ EndPoll \/ Crash
  BY <1>3 DEF Start, RecoverFails, Fetch, FetchReplyLost, Take, EndPoll, Crash
<1>4. CASE \/ BrokerRestarts \/ (\E o \in Obligations : Time(o)) \/ UNCHANGED vars
           \/ (\E t \in Targets : Reachable(t)) \/ (\E m \in Msgs : Arrive(m))
  BY <1>4 DEF BrokerRestarts, Time, FallsDue, GrowsStale, Reachable, Arrive, vars
<1>5. QED
  BY <1>1, <1>2, <1>3, <1>4 DEF Next, Consume, Poll

LEMMA RowsOpenStep ==
    ASSUME TypeOK, AtMostOne, Places, RowsOpen, [Next]_vars
    PROVE  RowsOpen'
<1>1. \A o \in rescued' : state'[o] \in Open
  <2>1. CASE Recover
    BY <2>1 DEF Recover, Reclaim, Unfinished, Open, TypeOK
  <2>2. ASSUME rescued' \subseteq rescued, NEW o \in rescued' PROVE state'[o] \in Open
    <3>1. o \in Obligations /\ state[o] \in Open /\ rescued # {}
      BY <2>2 DEF RowsOpen, TypeOK
    <3>2. at # "recover" /\ (Leave(o) => o \notin rescued')
      BY <3>1 DEF Places, Leave
    <3>3. QED
      BY <2>2, <3>1, <3>2, StaysOpen
  <2>3. QED
    BY <2>1, <2>2, RescuedMoves
<1>2. ASSUME tracked', NEW o \in work' PROVE state'[o] \in Open
  <2>1. CASE UNCHANGED <<work, tracked>>
    <3>1. o \in Obligations /\ state[o] \in Open /\ work # {}
      BY <1>2, <2>1 DEF RowsOpen, TypeOK
    <3>2. at # "recover" /\ (Leave(o) => work' = {})
      BY <3>1 DEF Places, Leave
    <3>3. QED
      BY <1>2, <3>1, <3>2, StaysOpen
  <2>2. ASSUME NEW p \in Obligations, Record(p) PROVE state'[o] \in Open
    <3>1. work = {} /\ Upsert(p) /\ state[p] \in States
      BY <2>2 DEF Record, Places, TypeOK
    <3>2. state'[p] # "delivered" /\ o = p
      BY <1>2, <2>2, <3>1 DEF Record
    <3>3. state'[p] = Upserted(state[p])
      BY <3>1 DEF Upsert, SetState
    <3>4. QED
      BY <3>1, <3>2, <3>3 DEF Upserted, States, Open
  <2>3. ASSUME NEW p \in Obligations, Rescue(p) PROVE state'[o] \in Open
    BY <1>2, <2>3 DEF Rescue, ledger, RowsOpen
  <2>4. QED
    BY <1>2, <2>1, <2>2, <2>3, WorkMoves
<1>3. QED
  BY <1>1, <1>2 DEF RowsOpen

\* A step sends a copy, and leaves the ledger alone, or it sends none.
LEMMA CopiesMove ==
    ASSUME [Next]_vars
    PROVE  \/ UNCHANGED copies
           \/ \E o \in Obligations : Accept(o) /\ UNCHANGED ledger
<1>1. CASE \E o \in Obligations : Step(o)
  BY <1>1 DEF Step, RescueSkips, Rescue, Skip, Record, Claim, Send, Delivered, Failed
<1>2. CASE \E o \in Obligations : Fault(o)
  BY <1>2 DEF Fault, RecordFails, ClaimFails, Deny, SendFails, FinalizeFails, FinalizeRaises
<1>3. CASE Start \/ Recover \/ RecoverFails \/ Fetch \/ FetchReplyLost \/ Take \/ EndPoll
           \/ Crash
  BY <1>3 DEF Start, Recover, RecoverFails, Fetch, FetchReplyLost, Take, EndPoll, Crash
<1>4. CASE \/ BrokerRestarts \/ (\E o \in Obligations : Time(o)) \/ UNCHANGED vars
           \/ (\E t \in Targets : Reachable(t)) \/ (\E m \in Msgs : Arrive(m))
  BY <1>4 DEF BrokerRestarts, Time, FallsDue, GrowsStale, Reachable, Arrive, vars
<1>5. QED
  BY <1>1, <1>2, <1>3, <1>4 DEF Next, Consume, Poll

LEMMA HandedOverStep ==
    ASSUME TypeOK, AtMostOne, HandedOver, [Next]_vars
    PROVE  HandedOver'
<1>1. \A o \in Obligations : copies'[o] >= copies[o]
  <2>1. CASE UNCHANGED copies
    BY <2>1 DEF TypeOK
  <2>2. ASSUME NEW p \in Obligations, Accept(p) PROVE \A o \in Obligations : copies'[o] >= copies[o]
    BY <2>2 DEF TypeOK, Accept
  <2>3. QED
    BY <2>1, <2>2, CopiesMove
<1>2. \/ at' # "sent" \/ (at = "sent" /\ work' = work)
      \/ \E o \in Obligations : Send(o)
  <2> USE DEF hands
  <2>1. CASE \E o \in Obligations : Step(o)
    BY <2>1 DEF Step, RescueSkips, Rescue, Skip, Record, Claim, Delivered, Failed, Leave
  <2>2. CASE \E o \in Obligations : Fault(o)
    BY <2>2 DEF Fault, RecordFails, ClaimFails, Deny, SendFails, FinalizeFails,
       FinalizeRaises, Leave
  <2>3. CASE Start \/ Recover \/ RecoverFails \/ Fetch \/ FetchReplyLost \/ Take \/ EndPoll
             \/ Crash
    BY <2>3 DEF Start, Recover, RecoverFails, Fetch, FetchReplyLost, Take, EndPoll, Crash
  <2>4. CASE \/ BrokerRestarts \/ (\E o \in Obligations : Time(o)) \/ UNCHANGED vars
             \/ (\E t \in Targets : Reachable(t)) \/ (\E m \in Msgs : Arrive(m))
    BY <2>4 DEF BrokerRestarts, Time, FallsDue, GrowsStale, Reachable, Arrive, vars
  <2>5. QED
    BY <2>1, <2>2, <2>3, <2>4 DEF Next, Consume, Poll
<1>3. ASSUME NEW o \in Obligations, Send(o) PROVE HandedOver'
  <2>1. copies'[o] > 0
    BY <1>3 DEF Send, Accept, TypeOK
  <2>2. work' = {o}
    BY <1>3 DEF Send, hands, AtMostOne
  <2>3. QED
    BY <2>1, <2>2 DEF HandedOver
<1>4. ASSUME at = "sent", work' = work PROVE HandedOver'
  <2>1. \A o \in work : copies[o] > 0 /\ copies[o] \in Nat /\ copies'[o] >= copies[o]
    BY <1>1, <1>4 DEF HandedOver, TypeOK
  <2>2. \A o \in work : copies'[o] \in Nat
    BY HandsTypes DEF HandsType, TypeOK
  <2>3. QED
    BY <1>4, <2>1, <2>2 DEF HandedOver
<1>5. CASE at' # "sent"
  BY <1>5 DEF HandedOver
<1>6. QED
  BY <1>2, <1>3, <1>4, <1>5

HopInv == IInv /\ Places /\ RowsOpen /\ HandedOver

LEMMA HopInvariant == Spec => []HopInv
<1>1. Init => Places /\ RowsOpen /\ HandedOver
  BY DEF Init, Places, RowsOpen, HandedOver, Answered
<1>2. IInv /\ Places /\ RowsOpen /\ HandedOver /\ [Next]_vars
        => Places' /\ RowsOpen' /\ HandedOver'
  BY PlacesStep, RowsOpenStep, HandedOverStep DEF IInv
<1>3. QED
  BY <1>1, <1>2, Inductive, PTL DEF Spec, HopInv
-----------------------------------------------------------------------------
\* The state of o in the abstract hop, and the obligations handed over.
StateOf(o) == IF state[o] = "none" THEN "none"
              ELSE IF state[o] = "delivered" THEN "done"
              ELSE IF state[o] = "abandoned" THEN "dropped" ELSE "owed"
Given == {o \in Obligations : copies[o] > 0}
hop == <<[o \in Obligations |-> StateOf(o)], Given>>

\* Rows of S that go from one of the states From to state to move in the hop.
LEMMA MoveRows ==
    ASSUME NEW S \in SUBSET Obligations, NEW From, NEW to,
           \A o \in S : StateOf(o) \in From /\ StateOf(o)' = to,
           \A o \in Obligations \ S : StateOf(o)' = StateOf(o)
    PROVE  Hop!Move(S, From, to)
BY DEF Hop!Move, StateOf

\* A row that is owed, or owed again after it was given up.
LEMMA Owing ==
    ASSUME NEW o \in Obligations, Given' = Given, StateOf(o) \in {"none", "dropped"},
           StateOf(o)' = "owed", \A p \in Obligations \ {o} : StateOf(p)' = StateOf(p)
    PROVE  Hop!Next
<1>1. Hop!Move({o}, {"none", "dropped"}, "owed")
  BY MoveRows
<1>2. Hop!Owe({o})
  BY <1>1 DEF Hop!Owe, Given
<1>3. QED
  BY <1>2 DEF Hop!Next

LEMMA Invisible ==
    ASSUME \A o \in Obligations : StateOf(o)' = StateOf(o), Given' = Given
    PROVE  UNCHANGED hop
BY DEF hop

\* Every step of the consumer is a step of the hop or invisible to it.
LEMMA StepRefines == ASSUME HopInv, [Next]_vars PROVE Hop!Next \/ UNCHANGED hop
<1>t. TypeOK /\ RowsOpen /\ HandedOver /\ Places
  BY DEF HopInv, IInv
<1>1. ASSUME NEW o \in Obligations, Accept(o), UNCHANGED ledger PROVE Hop!Next
  <2>1. Given' = Given \cup {o}
    BY <1>1, <1>t DEF Accept, Given, TypeOK
  <2>2. Hop!Give({o})
    BY <1>1, <2>1 DEF Hop!Give, Given, StateOf, ledger
  <2>3. QED
    BY <2>2 DEF Hop!Next
<1>2. ASSUME UNCHANGED copies PROVE Hop!Next \/ UNCHANGED hop
  <2>g. Given' = Given
    BY <1>2 DEF Given
  <2>1. ASSUME NEW o \in Obligations, Upsert(o) PROVE Hop!Next \/ UNCHANGED hop
    <3>1. \A p \in Obligations : state'[p] = IF p = o THEN Upserted(state[o]) ELSE state[p]
      BY <2>1 DEF Upsert, SetState
    <3>2. CASE state[o] \in {"none", "abandoned"}
      <4>1. /\ StateOf(o) \in {"none", "dropped"} /\ StateOf(o)' = "owed"
            /\ \A p \in Obligations \ {o} : StateOf(p)' = StateOf(p)
        BY <3>1, <3>2 DEF Upserted, StateOf
      <4>2. QED
        BY <2>g, <4>1, Owing
    <3>3. CASE state[o] \notin {"none", "abandoned"}
      <4>1. \A p \in Obligations : StateOf(p)' = StateOf(p)
        BY <3>1, <3>3 DEF Upserted, StateOf
      <4>2. QED
        BY <2>g, <4>1, Invisible
    <3>4. QED
      BY <3>2, <3>3
  <2>2. ASSUME NEW o \in Obligations, ClaimRow(o), at = "claim", o \in work
        PROVE  Hop!Next \/ UNCHANGED hop
    <3>1. state[o] \in Open
      BY <1>t, <2>2 DEF Places, RowsOpen
    <3>2. \A p \in Obligations : StateOf(p)' = StateOf(p)
      BY <2>2, <3>1 DEF ClaimRow, SetState, StateOf, Open
    <3>3. QED
      BY <2>g, <3>2, Invisible
  <2>3. ASSUME NEW o \in Obligations, Fail(o) PROVE Hop!Next \/ UNCHANGED hop
    <3>1. CASE state[o] = "delivered"
      BY <2>3, <2>g, <3>1, Invisible DEF Fail, ledger, StateOf
    <3>2. CASE state[o] # "delivered"
      <4>1. \A p \in Obligations : state'[p] = IF p = o THEN "failed" ELSE state[p]
        BY <2>3, <3>2 DEF Fail, SetState
      <4>2. CASE state[o] \in {"none", "abandoned"}
        <5>1. /\ StateOf(o) \in {"none", "dropped"} /\ StateOf(o)' = "owed"
              /\ \A p \in Obligations \ {o} : StateOf(p)' = StateOf(p)
          BY <4>1, <4>2 DEF StateOf
        <5>2. QED
          BY <2>g, <5>1, Owing
      <4>3. CASE state[o] \notin {"none", "abandoned"}
        <5>1. \A p \in Obligations : StateOf(p)' = StateOf(p)
          BY <3>2, <4>1, <4>3 DEF StateOf
        <5>2. QED
          BY <2>g, <5>1, Invisible
      <4>4. QED
        BY <4>2, <4>3
    <3>3. QED
      BY <3>1, <3>2
  <2>4. ASSUME NEW o \in Obligations, Deliver(o), at = "sent", tracked, o \in work
        PROVE  Hop!Next
    <3>1. state[o] \in Open /\ copies[o] > 0
      BY <1>t, <2>4 DEF RowsOpen, HandedOver
    <3>2. \A p \in Obligations : state'[p] = IF p = o THEN "delivered" ELSE state[p]
      BY <2>4 DEF Deliver, SetState
    <3>3. /\ StateOf(o) \in {"owed", "done"} /\ StateOf(o)' = "done"
          /\ \A p \in Obligations \ {o} : StateOf(p)' = StateOf(p)
      BY <3>1, <3>2 DEF StateOf, Open
    <3>4. Hop!Move({o}, {"owed", "done"}, "done")
      BY <3>3, MoveRows
    <3>5. Hop!Finish({o})
      BY <2>g, <3>1, <3>4 DEF Hop!Finish, Given
    <3>6. QED
      BY <3>5 DEF Hop!Next
  <2>5. ASSUME NEW S \in SUBSET Unfinished, NEW C \in SUBSET Unfinished, Reclaim(S, C)
        PROVE  Hop!Next
    <3> DEFINE D == S \ C
    <3>1. D \in SUBSET Obligations /\ \A o \in S \cup C : o \in Obligations /\ state[o] \in Open
      BY DEF Unfinished
    <3>2. \A o \in Obligations : state'[o] = IF o \in C THEN "attempting"
                                 ELSE IF o \in S THEN "abandoned" ELSE state[o]
      BY <2>5 DEF Reclaim
    <3>3. /\ \A o \in D : StateOf(o) \in {"owed"} /\ StateOf(o)' = "dropped"
          /\ \A o \in Obligations \ D : StateOf(o)' = StateOf(o)
      BY <3>1, <3>2 DEF StateOf, Open
    <3> HIDE DEF D
    <3>4. Hop!Move(D, {"owed"}, "dropped")
      BY <3>1, <3>3, MoveRows
    <3>5. Hop!Drop(D)
      BY <2>g, <3>4 DEF Hop!Drop, Given
    <3>6. QED
      BY <3>1, <3>5 DEF Hop!Next
  <2>6. CASE UNCHANGED state
    BY <2>g, <2>6, Invisible DEF StateOf
  <2>7. QED
    BY <1>t, <2>1, <2>2, <2>3, <2>4, <2>5, <2>6, LedgerStep DEF Statement, ledger
<1>3. QED
  BY <1>1, <1>2, CopiesMove

\* The consumer and the ledger of delivery obligations are an at-least-once hop of
\* the relay (channels/outbox.py, db/89): nothing is called delivered before a
\* platform has it, and what is delivered stays so.
THEOREM ConsumerHandsOver == Spec => HandsOver
<1>1. Init => Hop!Init
  BY DEF Init, Hop!Init
<1>2. HopInv /\ [Next]_vars => [Hop!Next]_(Hop!handover)
  BY StepRefines DEF Hop!handover, hop, StateOf, Given
<1>3. QED
  BY <1>1, <1>2, HopInvariant, PTL DEF Spec, HandsOver, Hop!Spec
=============================================================================
