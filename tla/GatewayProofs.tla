--------------------------- MODULE GatewayProofs ---------------------------
(***************************************************************************)
(* Proofs about Gateway for any number of events, consumers and faults.    *)
(*                                                                         *)
(* The argument rests on two facts that are not visible in the properties: *)
(* a row that waits has no started_at, so the constraint valid_completed   *)
(* turns a late settlement of it away; and every consumer that works on an *)
(* event made a claim of its own, numbered by the ghost variable token.    *)
(***************************************************************************)
EXTENDS Gateway, TLAPS

Working == {"busy", "returned", "raised"}

\* started_at is set exactly from the claim on.
StartedRows ==
    \A e \in Events :
        /\ status[e] \in {"absent", "pending", "recorded"} => e \notin started
        /\ status[e] \in {"processing", "completed", "failed"} => e \in started

\* A working consumer holds an event, under one of the claims made of it.
HeldClaims ==
    \A w \in Workers :
        pc[w] \in Working =>
            /\ held[w] \in Events
            /\ token[w] \in 1..claims[held[w]]

\* No two consumers share a claim.
DistinctClaims ==
    \A w1, w2 \in Workers :
        /\ w1 # w2 /\ held[w1] = held[w2]
        /\ pc[w1] \in Working /\ pc[w2] \in Working
        => token[w1] # token[w2]

\* Only a handler that came back lets its event be completed.
ReturnedRows ==
    /\ \A w \in Workers : pc[w] = "returned" => held[w] \in returned
    /\ \A e \in Events : status[e] = "completed" => e \in returned

IInv ==
    /\ TypeOK
    /\ StartedRows
    /\ ClaimAccounting
    /\ HeldClaims
    /\ DistinctClaims
    /\ ReturnedRows

-----------------------------------------------------------------------------
\* Every value stays in its type: the rows the SQL functions of
\* db/28a_tables_gateway.sql write satisfy the enum and the column types.
LEMMA TypeStep == IInv /\ [Next]_vars => TypeOK'
<1> SUFFICES ASSUME IInv, [Next]_vars PROVE TypeOK'
  OBVIOUS
<1> USE DEF IInv, TypeOK, Place, Status, Terminal, table, process, bounds, Goto
<1>1. ASSUME NEW e \in Events, Submit(e) \/ Record(e) PROVE TypeOK'
  BY <1>1 DEF Submit, Record, Insert
<1>2. ASSUME NEW e \in Events, AgeOut(e) \/ Cleanup(e) PROVE TypeOK'
  BY <1>2 DEF AgeOut, Cleanup
<1>3. ASSUME NEW w \in Workers, Start(w) \/ Stop(w) PROVE TypeOK'
  BY <1>3 DEF Start, Stop
<1>4. ASSUME NEW w \in Workers, Reclaim(w) PROVE TypeOK'
  BY <1>4 DEF Reclaim, Reclaimable
<1>5. ASSUME NEW w \in Workers, NEW e \in Events, Dequeue(w, e) PROVE TypeOK'
  BY <1>5 DEF Dequeue, ClaimRow
<1>6. ASSUME NEW w \in Workers, HandlerReturns(w) \/ HandlerRaises(w)
      PROVE TypeOK'
  BY <1>6 DEF HandlerReturns, HandlerRaises, HeldClaims, Working
<1>7. ASSUME NEW w \in Workers, Complete(w) PROVE TypeOK'
  BY <1>7 DEF Complete, SettleRow, LetGo, NoEvent
<1>8. ASSUME NEW w \in Workers, Fail(w) PROVE TypeOK'
  BY <1>8 DEF Fail, SettleRow, LetGo, NoEvent
<1>9. ASSUME NEW w \in Workers, ReclaimFails(w) \/ Crash(w) PROVE TypeOK'
  BY <1>9 DEF ReclaimFails, Crash, DbError, LetGo, NoEvent
<1>10. ASSUME NEW w \in Workers, CompleteErrors(w) PROVE TypeOK'
  BY <1>10 DEF CompleteErrors, DbError, SettleRow
<1>11. ASSUME NEW w \in Workers, FailErrors(w) PROVE TypeOK'
  BY <1>11 DEF FailErrors, DbError, SettleRow, LetGo, NoEvent
<1>12. ASSUME NEW w \in Workers, NEW e \in Events, DequeueReplyLost(w, e)
       PROVE TypeOK'
  BY <1>12 DEF DequeueReplyLost, ClaimRow, DbError
<1>13. CASE UNCHANGED vars
  BY <1>13 DEF vars
<1>14. QED
  BY <1>1, <1>2, <1>3, <1>4, <1>5, <1>6, <1>7, <1>8, <1>9, <1>10, <1>11,
     <1>12, <1>13 DEF Next, LoopStep, FaultStep

\* No step gives a waiting row a started_at or takes it from a settled one.
LEMMA StartedStep == IInv /\ [Next]_vars => StartedRows'
<1> SUFFICES ASSUME IInv, [Next]_vars PROVE StartedRows'
  OBVIOUS
<1> USE DEF IInv, TypeOK, Status, Terminal, table, process, bounds, Goto, StartedRows, HeldClaims,
            Working
<1>1. ASSUME NEW e \in Events, Submit(e) \/ Record(e) PROVE StartedRows'
  BY <1>1 DEF Submit, Record, Insert, IsNextId
<1>2. ASSUME NEW e \in Events, AgeOut(e) \/ Cleanup(e) PROVE StartedRows'
  BY <1>2 DEF AgeOut, Cleanup
<1>3. ASSUME NEW w \in Workers, Start(w) \/ Stop(w) PROVE StartedRows'
  BY <1>3 DEF Start, Stop
<1>4. ASSUME NEW w \in Workers, Reclaim(w) PROVE StartedRows'
  BY <1>4 DEF Reclaim, Reclaimable
<1>5. ASSUME NEW w \in Workers, NEW e \in Events, Dequeue(w, e)
      PROVE StartedRows'
  BY <1>5 DEF Dequeue, ClaimRow, OldestPending
<1>6. ASSUME NEW w \in Workers, HandlerReturns(w) \/ HandlerRaises(w)
      PROVE StartedRows'
  BY <1>6 DEF HandlerReturns, HandlerRaises
<1>7. ASSUME NEW w \in Workers, Complete(w) \/ CompleteErrors(w)
      PROVE StartedRows'
  BY <1>7 DEF Complete, CompleteErrors, DbError, Settleable, SettleRow, LetGo
<1>8. ASSUME NEW w \in Workers, Fail(w) \/ FailErrors(w) PROVE StartedRows'
  BY <1>8 DEF Fail, FailErrors, DbError, Settleable, SettleRow, LetGo
<1>9. ASSUME NEW w \in Workers, ReclaimFails(w) \/ Crash(w) PROVE StartedRows'
  BY <1>9 DEF ReclaimFails, Crash, DbError, LetGo
<1>10. ASSUME NEW w \in Workers, NEW e \in Events, DequeueReplyLost(w, e)
       PROVE StartedRows'
  BY <1>10 DEF DequeueReplyLost, ClaimRow, OldestPending, DbError
<1>11. CASE UNCHANGED vars
  BY <1>11 DEF vars
<1>12. QED
  BY <1>1, <1>2, <1>3, <1>4, <1>5, <1>6, <1>7, <1>8, <1>9, <1>10, <1>11
     DEF Next, LoopStep, FaultStep

\* Claims and reclaims stay in balance with the status of every row.
LEMMA AccountingStep == IInv /\ [Next]_vars => ClaimAccounting'
<1> SUFFICES ASSUME IInv, [Next]_vars PROVE ClaimAccounting'
  OBVIOUS
<1> USE DEF IInv, TypeOK, Status, Terminal, table, process, bounds, Goto, StartedRows, ClaimAccounting,
            HeldClaims, Working
<1>1. ASSUME NEW e \in Events, Submit(e) \/ Record(e) PROVE ClaimAccounting'
  BY <1>1 DEF Submit, Record, Insert, IsNextId
<1>2. ASSUME NEW e \in Events, AgeOut(e) \/ Cleanup(e) PROVE ClaimAccounting'
  BY <1>2 DEF AgeOut, Cleanup
<1>3. ASSUME NEW w \in Workers, Start(w) \/ Stop(w) PROVE ClaimAccounting'
  BY <1>3 DEF Start, Stop
<1>4. ASSUME NEW w \in Workers, Reclaim(w) PROVE ClaimAccounting'
  BY <1>4 DEF Reclaim, Reclaimable
<1>5. ASSUME NEW w \in Workers, NEW e \in Events, Dequeue(w, e)
      PROVE ClaimAccounting'
  BY <1>5 DEF Dequeue, ClaimRow, OldestPending
<1>6. ASSUME NEW w \in Workers, HandlerReturns(w) \/ HandlerRaises(w)
      PROVE ClaimAccounting'
  BY <1>6 DEF HandlerReturns, HandlerRaises
<1>7. ASSUME NEW w \in Workers, Complete(w) \/ CompleteErrors(w)
      PROVE ClaimAccounting'
  BY <1>7 DEF Complete, CompleteErrors, DbError, Settleable, SettleRow, LetGo
<1>8. ASSUME NEW w \in Workers, Fail(w) \/ FailErrors(w) PROVE ClaimAccounting'
  BY <1>8 DEF Fail, FailErrors, DbError, Settleable, SettleRow, LetGo
<1>9. ASSUME NEW w \in Workers, ReclaimFails(w) \/ Crash(w) PROVE ClaimAccounting'
  BY <1>9 DEF ReclaimFails, Crash, DbError, LetGo
<1>10. ASSUME NEW w \in Workers, NEW e \in Events, DequeueReplyLost(w, e)
       PROVE ClaimAccounting'
  BY <1>10 DEF DequeueReplyLost, ClaimRow, OldestPending, DbError
<1>11. CASE UNCHANGED vars
  BY <1>11 DEF vars
<1>12. QED
  BY <1>1, <1>2, <1>3, <1>4, <1>5, <1>6, <1>7, <1>8, <1>9, <1>10, <1>11
     DEF Next, LoopStep, FaultStep

\* A consumer works under a claim it made.
LEMMA HeldStep == IInv /\ [Next]_vars => HeldClaims'
<1> SUFFICES ASSUME IInv, [Next]_vars PROVE HeldClaims'
  OBVIOUS
<1> USE DEF IInv, TypeOK, Status, Terminal, table, process, bounds, Goto, HeldClaims, Working, Place
<1>1. ASSUME NEW e \in Events, Submit(e) \/ Record(e) PROVE HeldClaims'
  BY <1>1 DEF Submit, Record, Insert, IsNextId
<1>2. ASSUME NEW e \in Events, AgeOut(e) \/ Cleanup(e) PROVE HeldClaims'
  BY <1>2 DEF AgeOut, Cleanup
<1>3. ASSUME NEW w \in Workers, Start(w) \/ Stop(w) PROVE HeldClaims'
  BY <1>3 DEF Start, Stop
<1>4. ASSUME NEW w \in Workers, Reclaim(w) PROVE HeldClaims'
  BY <1>4 DEF Reclaim, Reclaimable
<1>5. ASSUME NEW w \in Workers, NEW e \in Events, Dequeue(w, e)
      PROVE HeldClaims'
  BY <1>5 DEF Dequeue, ClaimRow, OldestPending
<1>6. ASSUME NEW w \in Workers, HandlerReturns(w) \/ HandlerRaises(w)
      PROVE HeldClaims'
  BY <1>6 DEF HandlerReturns, HandlerRaises
<1>7. ASSUME NEW w \in Workers, Complete(w) \/ CompleteErrors(w)
      PROVE HeldClaims'
  BY <1>7 DEF Complete, CompleteErrors, DbError, Settleable, SettleRow, LetGo
<1>8. ASSUME NEW w \in Workers, Fail(w) \/ FailErrors(w) PROVE HeldClaims'
  BY <1>8 DEF Fail, FailErrors, DbError, Settleable, SettleRow, LetGo
<1>9. ASSUME NEW w \in Workers, ReclaimFails(w) \/ Crash(w) PROVE HeldClaims'
  BY <1>9 DEF ReclaimFails, Crash, DbError, LetGo
<1>10. ASSUME NEW w \in Workers, NEW e \in Events, DequeueReplyLost(w, e)
       PROVE HeldClaims'
  BY <1>10 DEF DequeueReplyLost, ClaimRow, OldestPending, DbError
<1>11. CASE UNCHANGED vars
  BY <1>11 DEF vars
<1>12. QED
  BY <1>1, <1>2, <1>3, <1>4, <1>5, <1>6, <1>7, <1>8, <1>9, <1>10, <1>11
     DEF Next, LoopStep, FaultStep

\* A new claim gets a number nobody works under.
LEMMA DistinctStep == IInv /\ [Next]_vars => DistinctClaims'
<1> SUFFICES ASSUME IInv, [Next]_vars PROVE DistinctClaims'
  OBVIOUS
<1> USE DEF IInv, TypeOK, Status, Terminal, table, process, bounds, Goto, HeldClaims, DistinctClaims,
            Working, Place
<1>1. ASSUME NEW e \in Events, Submit(e) \/ Record(e) PROVE DistinctClaims'
  BY <1>1 DEF Submit, Record, Insert, IsNextId
<1>2. ASSUME NEW e \in Events, AgeOut(e) \/ Cleanup(e) PROVE DistinctClaims'
  BY <1>2 DEF AgeOut, Cleanup
<1>3. ASSUME NEW w \in Workers, Start(w) \/ Stop(w) PROVE DistinctClaims'
  BY <1>3 DEF Start, Stop
<1>4. ASSUME NEW w \in Workers, Reclaim(w) PROVE DistinctClaims'
  BY <1>4 DEF Reclaim, Reclaimable
<1>5. ASSUME NEW w \in Workers, NEW e \in Events, Dequeue(w, e)
      PROVE DistinctClaims'
  BY <1>5 DEF Dequeue, ClaimRow, OldestPending
<1>6. ASSUME NEW w \in Workers, HandlerReturns(w) \/ HandlerRaises(w)
      PROVE DistinctClaims'
  BY <1>6 DEF HandlerReturns, HandlerRaises
<1>7. ASSUME NEW w \in Workers, Complete(w) \/ CompleteErrors(w)
      PROVE DistinctClaims'
  BY <1>7 DEF Complete, CompleteErrors, DbError, Settleable, SettleRow, LetGo
<1>8. ASSUME NEW w \in Workers, Fail(w) \/ FailErrors(w) PROVE DistinctClaims'
  BY <1>8 DEF Fail, FailErrors, DbError, Settleable, SettleRow, LetGo
<1>9. ASSUME NEW w \in Workers, ReclaimFails(w) \/ Crash(w) PROVE DistinctClaims'
  BY <1>9 DEF ReclaimFails, Crash, DbError, LetGo
<1>10. ASSUME NEW w \in Workers, NEW e \in Events, DequeueReplyLost(w, e)
       PROVE DistinctClaims'
  BY <1>10 DEF DequeueReplyLost, ClaimRow, OldestPending, DbError
<1>11. CASE UNCHANGED vars
  BY <1>11 DEF vars
<1>12. QED
  BY <1>1, <1>2, <1>3, <1>4, <1>5, <1>6, <1>7, <1>8, <1>9, <1>10, <1>11
     DEF Next, LoopStep, FaultStep

\* complete() is only called after the handler returned.
LEMMA ReturnedStep == IInv /\ [Next]_vars => ReturnedRows'
<1> SUFFICES ASSUME IInv, [Next]_vars PROVE ReturnedRows'
  OBVIOUS
<1> USE DEF IInv, TypeOK, Status, Terminal, table, process, bounds, Goto, ReturnedRows, HeldClaims,
            Working, Place
<1>1. ASSUME NEW e \in Events, Submit(e) \/ Record(e) PROVE ReturnedRows'
  BY <1>1 DEF Submit, Record, Insert, IsNextId
<1>2. ASSUME NEW e \in Events, AgeOut(e) \/ Cleanup(e) PROVE ReturnedRows'
  BY <1>2 DEF AgeOut, Cleanup
<1>3. ASSUME NEW w \in Workers, Start(w) \/ Stop(w) PROVE ReturnedRows'
  BY <1>3 DEF Start, Stop
<1>4. ASSUME NEW w \in Workers, Reclaim(w) PROVE ReturnedRows'
  BY <1>4 DEF Reclaim, Reclaimable
<1>5. ASSUME NEW w \in Workers, NEW e \in Events, Dequeue(w, e)
      PROVE ReturnedRows'
  BY <1>5 DEF Dequeue, ClaimRow, OldestPending
<1>6. ASSUME NEW w \in Workers, HandlerReturns(w) \/ HandlerRaises(w)
      PROVE ReturnedRows'
  BY <1>6 DEF HandlerReturns, HandlerRaises
<1>7. ASSUME NEW w \in Workers, Complete(w) \/ CompleteErrors(w)
      PROVE ReturnedRows'
  BY <1>7 DEF Complete, CompleteErrors, DbError, Settleable, SettleRow, LetGo
<1>8. ASSUME NEW w \in Workers, Fail(w) \/ FailErrors(w) PROVE ReturnedRows'
  BY <1>8 DEF Fail, FailErrors, DbError, Settleable, SettleRow, LetGo
<1>9. ASSUME NEW w \in Workers, ReclaimFails(w) \/ Crash(w) PROVE ReturnedRows'
  BY <1>9 DEF ReclaimFails, Crash, DbError, LetGo
<1>10. ASSUME NEW w \in Workers, NEW e \in Events, DequeueReplyLost(w, e)
       PROVE ReturnedRows'
  BY <1>10 DEF DequeueReplyLost, ClaimRow, OldestPending, DbError
<1>11. CASE UNCHANGED vars
  BY <1>11 DEF vars
<1>12. QED
  BY <1>1, <1>2, <1>3, <1>4, <1>5, <1>6, <1>7, <1>8, <1>9, <1>10, <1>11
     DEF Next, LoopStep, FaultStep

-----------------------------------------------------------------------------
LEMMA Inductive == Spec => []IInv
<1>1. Init => IInv
  BY GatewayAssumption
     DEF Init, IInv, TypeOK, StartedRows, ClaimAccounting, HeldClaims,
         DistinctClaims, ReturnedRows, Status, Terminal, Place, Working, NoEvent
<1>2. IInv /\ [Next]_vars => IInv'
  BY TypeStep, StartedStep, AccountingStep, HeldStep, DistinctStep,
     ReturnedStep DEF IInv
<1>3. QED
  BY <1>1, <1>2, PTL DEF Spec

\* The table and the consumers keep their types (db/28a_tables_gateway.sql:19-42).
THEOREM TypeCorrect == Spec => []TypeOK
<1>1. IInv => TypeOK
  BY DEF IInv
<1>2. QED
  BY <1>1, Inductive, PTL

\* Two consumers work on one event only after a reclaim: gateway_dequeue
\* claims atomically (db/28a_tables_gateway.sql:74-88).
THEOREM Exclusive == Spec => []ExclusiveUnlessReclaimed
<1>1. IInv => ExclusiveUnlessReclaimed
  <2> SUFFICES ASSUME IInv, NEW w1 \in Workers, NEW w2 \in Workers,
                      NEW e \in Events, w1 # w2, Holds(w1, e), Holds(w2, e)
               PROVE  reclaims[e] > 0
    BY DEF ExclusiveUnlessReclaimed
  <2>1. token[w1] \in 1..claims[e] /\ token[w2] \in 1..claims[e]
    BY DEF IInv, HeldClaims, Working, Holds
  <2>2. token[w1] # token[w2]
    BY DEF IInv, DistinctClaims, Working, Holds
  <2>3. claims[e] \in Nat /\ reclaims[e] \in Nat
    BY DEF IInv, TypeOK
  <2>4. claims[e] - reclaims[e] \in {0, 1}
    BY <2>3 DEF IInv, TypeOK, ClaimAccounting, Status, Terminal
  <2>5. claims[e] >= 2
    BY <2>1, <2>2, <2>3
  <2>6. QED
    BY <2>3, <2>4, <2>5
<1>2. QED
  BY <1>1, Inductive, PTL

\* Every event is run once and once more per reclaim.
THEOREM Accounting == Spec => []ClaimAccounting
<1>1. IInv => ClaimAccounting
  BY DEF IInv
<1>2. QED
  BY <1>1, Inductive, PTL

\* What the table calls completed was run to its end, what it calls failed
\* was at least claimed (core/gateway.py:277-304).
THEOREM SettledRan == Spec => []SettledEventsRan
<1>1. IInv => SettledEventsRan
  BY DEF IInv, TypeOK, ClaimAccounting, ReturnedRows, SettledEventsRan
<1>2. QED
  BY <1>1, Inductive, PTL

-----------------------------------------------------------------------------
\* Changing the status of one event moves that event in the abstract queue.
LEMMA MoveOne ==
    ASSUME TypeOK, NEW e \in Events, NEW t \in Status,
           status' = [status EXCEPT ![e] = t]
    PROVE  Queue!Move(e, StateOf(status[e]), StateOf(t))
BY DEF TypeOK, Queue!Move, queueState, StateOf, Status, Terminal

\* A settlement moves a running event to settled, or nothing.
LEMMA SettleRefines ==
    ASSUME IInv, NEW e \in Events, NEW t \in {"completed", "failed"},
           Settleable(e), SettleRow(e, t)
    PROVE  Queue!Settle(e) \/ UNCHANGED queueState
<1>1. CASE status[e] = "deleted"
  BY <1>1 DEF SettleRow, queueState
<1>2. CASE status[e] # "deleted"
  <2>1. status' = [status EXCEPT ![e] = t] /\ t \in Status
    BY <1>2 DEF SettleRow, Status, Terminal
  <2>2. status[e] \in {"processing", "completed", "failed"}
    BY <1>2 DEF Settleable, IInv, TypeOK, StartedRows, Status, Terminal
  <2>3. Queue!Move(e, StateOf(status[e]), StateOf(t))
    BY <2>1, MoveOne DEF IInv
  <2>4. CASE status[e] = "processing"
    BY <2>3, <2>4 DEF Queue!Settle, StateOf
  <2>5. CASE status[e] # "processing"
    BY <2>1, <2>2, <2>5 DEF queueState, StateOf, IInv, TypeOK
  <2>6. QED
    BY <2>4, <2>5
<1>3. QED
  BY <1>1, <1>2

\* Every step of the gateway is a step of the queue or leaves it alone.
LEMMA StepRefines ==
    IInv /\ [Next]_vars => [Queue!Next]_queueState
<1> SUFFICES ASSUME IInv, [Next]_vars PROVE Queue!Next \/ UNCHANGED queueState
  OBVIOUS
<1>1. ASSUME NEW e \in Events, Submit(e)
      PROVE Queue!Enqueue(e)
  <2>1. status[e] = "absent" /\ status' = [status EXCEPT ![e] = "pending"]
    BY <1>1 DEF Submit, Insert, IsNextId
  <2>2. Queue!Move(e, StateOf("absent"), StateOf("pending"))
    BY <2>1, MoveOne DEF IInv, Status, Terminal
  <2>3. QED
    BY <2>2 DEF Queue!Enqueue, StateOf
<1>2. ASSUME NEW e \in Events, Record(e)
      PROVE Queue!Note(e)
  <2>1. status[e] = "absent" /\ status' = [status EXCEPT ![e] = "recorded"]
    BY <1>2 DEF Record, Insert, IsNextId
  <2>2. Queue!Move(e, StateOf("absent"), StateOf("recorded"))
    BY <2>1, MoveOne DEF IInv, Status, Terminal
  <2>3. QED
    BY <2>2 DEF Queue!Note, StateOf
<1>3. ASSUME NEW e \in Events, ClaimRow(e)
      PROVE Queue!Run(e)
  <2>1. status[e] = "pending" /\ status' = [status EXCEPT ![e] = "processing"]
    BY <1>3 DEF ClaimRow, OldestPending
  <2>2. Queue!Move(e, StateOf("pending"), StateOf("processing"))
    BY <2>1, MoveOne DEF IInv, Status, Terminal
  <2>3. QED
    BY <2>2 DEF Queue!Run, StateOf
<1>4. ASSUME NEW e \in Events, Cleanup(e)
      PROVE Queue!Forget(e)
  <2>1. status[e] \in Terminal /\ status' = [status EXCEPT ![e] = "deleted"]
    BY <1>4 DEF Cleanup
  <2>2. Queue!Move(e, StateOf(status[e]), StateOf("deleted"))
    BY <2>1, MoveOne DEF IInv, Status
  <2>3. QED
    BY <2>1, <2>2 DEF Queue!Forget, StateOf, Terminal
<1>5. ASSUME NEW w \in Workers, Reclaim(w)
      PROVE Queue!TakeBack(Reclaimable)
  BY <1>5 DEF Reclaim, Reclaimable, Queue!TakeBack, queueState, StateOf, IInv,
     TypeOK, Status, Terminal
<1>6. ASSUME NEW w \in Workers,
             Complete(w) \/ CompleteErrors(w) \/ Fail(w) \/ FailErrors(w)
      PROVE Queue!Settle(held[w]) \/ UNCHANGED queueState
  <2>1. held[w] \in Events
    BY <1>6 DEF Complete, CompleteErrors, Fail, FailErrors, IInv, HeldClaims,
       Working
  <2>2. \/ UNCHANGED status
        \/ \E t \in {"completed", "failed"} :
              Settleable(held[w]) /\ SettleRow(held[w], t)
    BY <1>6 DEF Complete, CompleteErrors, Fail, FailErrors, table
  <2>3. QED
    BY <2>1, <2>2, SettleRefines DEF queueState
<1>7. ASSUME UNCHANGED status
      PROVE UNCHANGED queueState
  BY <1>7 DEF queueState
<1>8. \A w \in Workers :
        HandlerReturns(w) \/ HandlerRaises(w) \/ ReclaimFails(w) \/ Crash(w)
          \/ Start(w) \/ Stop(w) => UNCHANGED status
  BY DEF HandlerReturns, HandlerRaises, ReclaimFails, Crash, Start, Stop, table
<1>9. \A e \in Events : AgeOut(e) => UNCHANGED status
  BY DEF AgeOut
<1>10. ASSUME NEW w \in Workers, NEW e \in Events,
              Dequeue(w, e) \/ DequeueReplyLost(w, e)
       PROVE Queue!Run(e)
  BY <1>3, <1>10 DEF Dequeue, DequeueReplyLost
<1>11. Reclaimable \in SUBSET Events
  BY DEF Reclaimable, IInv, TypeOK
<1>12. CASE \E e \in Events : Submit(e) \/ Record(e) \/ AgeOut(e) \/ Cleanup(e)
  BY <1>1, <1>2, <1>4, <1>7, <1>9, <1>12 DEF Queue!Next
<1>13. CASE \E w \in Workers : LoopStep(w) \/ FaultStep(w) \/ Start(w) \/ Stop(w)
  <2> PICK w \in Workers : LoopStep(w) \/ FaultStep(w) \/ Start(w) \/ Stop(w)
    BY <1>13
  <2>1. CASE Complete(w) \/ CompleteErrors(w) \/ Fail(w) \/ FailErrors(w)
    <3>1. held[w] \in Events
      BY <2>1 DEF Complete, CompleteErrors, Fail, FailErrors, IInv, HeldClaims,
         Working
    <3>2. QED
      BY <1>6, <2>1, <3>1 DEF Queue!Next
  <2>2. CASE \E e \in Events : Dequeue(w, e) \/ DequeueReplyLost(w, e)
    BY <1>10, <2>2 DEF Queue!Next
  <2>3. CASE Reclaim(w)
    BY <1>5, <1>11, <2>3 DEF Queue!Next
  <2>4. CASE HandlerReturns(w) \/ HandlerRaises(w) \/ ReclaimFails(w)
               \/ Crash(w) \/ Start(w) \/ Stop(w)
    BY <1>7, <1>8, <2>4
  <2>5. QED
    BY <2>1, <2>2, <2>3, <2>4 DEF LoopStep, FaultStep
<1>14. CASE UNCHANGED vars
  BY <1>7, <1>14 DEF vars
<1>15. QED
  BY <1>12, <1>13, <1>14 DEF Next

\* The gateway delivers at least once: it implements EventQueue.
THEOREM Refinement == Spec => ImplementsQueue
<1>1. Init => Queue!Init
  BY DEF Init, Queue!Init, queueState, StateOf
<1>2. IInv /\ [Next]_vars => [Queue!Next]_queueState
  BY StepRefines
<1>3. QED
  BY <1>1, <1>2, Inductive, PTL DEF Spec, ImplementsQueue, Queue!Spec
=============================================================================
