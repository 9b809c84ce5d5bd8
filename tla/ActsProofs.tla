----------------------------- MODULE ActsProofs -----------------------------
\* Proofs about what the agent does to others, for any number of calls, loops,
\* senders, addresses, messages, reservations, faults and controls: first the
\* approval of protected tools (Approval), then the outbound safety (Outbound).
EXTENDS Approval, Outbound, WellFoundedInduction, FiniteSetTheorems, TLAPS

\* Approval for any number of calls, loops, escalations and faults.
\*
\* Everything rests on how one step may move one row: a row that is open may be
\* moved about by anybody, an approval only by the check of its own call, which
\* at the same time clears or refuses that call.
RowType == /\ request \in [Calls -> Unanswered \cup Decision \cup {"none", "consumed", "expired"}]
           /\ marked \in [Calls -> BOOLEAN]
           /\ late \in [Calls -> BOOLEAN]
CallType == call \in [Calls -> {"idle", "waiting", "leaving", "granted", "cleared",
                                "ran", "refused", "gone"}]
MessageType == /\ letter \in [Calls -> {"none", "queued", "posted", "noted"}]
               /\ shown \in [Calls -> BOOLEAN]
               /\ plain \in Decision \cup {"none"}
LoopType == /\ tries \in [Calls -> 0..MaxEscalations]
            /\ batch \in [Loops -> SUBSET Calls]
            /\ hand \in [Loops -> Calls \cup {NoCall}]
            /\ loopAt \in [Loops -> {"idle", "sending", "completing", "failing"}]

\* A loop that completes or fails has a row in its hand.
InHand == \A w \in Loops : loopAt[w] \in {"completing", "failing"} => hand[w] \in Calls

\* A call that has not asked has no row.
Unfiled == \A c \in Calls : call[c] = "idle" => request[c] = "none"

ApprovalInv == ApprovalTypeOK /\ InHand /\ Unfiled /\ RunsOnConsent /\ ConsumedByItsCall

\* How one step may move one row and the call it belongs to.
Evolves(c) ==
    \/ request'[c] = request[c]
    \/ /\ request[c] = "none" /\ request'[c] \in {"pending", "unrouted"}
       /\ call[c] = "idle" /\ call'[c] # "idle"
    \/ /\ request[c] \in Unanswered
       /\ request'[c] \in Unanswered \cup Decision \cup {"expired"}
    \/ /\ request[c] = "approved" /\ request'[c] = "consumed"
       /\ call[c] = "granted" /\ call'[c] \in {"cleared", "refused"}

\* The step leaves every call where it is.
Aside == call' = call
-----------------------------------------------------------------------------
LEMMA ApprovalInitInv == ApprovalInit => ApprovalInv
<1> SUFFICES ASSUME ApprovalInit PROVE ApprovalInv
  OBVIOUS
<1> USE ApprovalAssumption DEF ApprovalInit
<1>1. ApprovalTypeOK
  BY DEF ApprovalTypeOK
<1>2. InHand /\ Unfiled
  BY DEF InHand, Unfiled
<1>3. RunsOnConsent /\ ConsumedByItsCall
  BY DEF RunsOnConsent, ConsumedByItsCall
<1>4. QED
  BY <1>1, <1>2, <1>3 DEF ApprovalInv

\* The operator and the loops leave the calls alone.
LEMMA Bystanders ==
    ASSUME \/ \E c \in Calls : Operator(c)
           \/ CountOpen \/ PickNewest
           \/ \E w \in Loops : Loop(w)
           \/ UNCHANGED approvalVars
    PROVE  Aside
<1>1. ASSUME NEW c \in Calls, Operator(c) PROVE Aside
  BY <1>1 DEF Operator, Expiry, Post, Mark, Answer, Aside
<1>2. ASSUME NEW w \in Loops, Sweep(w) \/ SendText(w) PROVE Aside
  BY <1>2 DEF Sweep, SendText, Aside
<1>3. ASSUME NEW w \in Loops, CompleteEscalation(w) \/ FailEscalation(w) \/ LoopFails(w)
      PROVE Aside
  BY <1>3 DEF CompleteEscalation, FailEscalation, LoopFails, Settle, Aside
<1>4. CASE CountOpen \/ PickNewest \/ UNCHANGED approvalVars
  BY <1>4 DEF CountOpen, PickNewest, approvalVars, Aside
<1>5. QED
  BY <1>1, <1>2, <1>3, <1>4 DEF Loop

LEMMA RowTypes == ASSUME ApprovalInv, [ApprovalNext]_approvalVars PROVE RowType'
<1> USE DEF RowType, Unanswered, Decidable, Decision, requestVars
<1>0. RowType /\ ApprovalTypeOK
  BY DEF ApprovalInv, ApprovalTypeOK
<1>1. ASSUME NEW c \in Calls, File(c) \/ Poll(c) \/ GiveUp(c) \/ Leave(c) PROVE RowType'
  BY <1>0, <1>1 DEF File, Poll, GiveUp, Leave, Lapsed
<1>2. ASSUME NEW c \in Calls, WaitFails(c) \/ Consume(c) \/ FallBack(c) \/ RunTool(c) \/ Die(c)
      PROVE RowType'
  BY <1>0, <1>2 DEF WaitFails, Consume, FallBack, RunTool, Die
<1>3. ASSUME NEW c \in Calls, Operator(c) PROVE RowType'
  BY <1>0, <1>3 DEF Operator, Expiry, Post, Mark, Answer, Record
<1>4. CASE CountOpen
  BY <1>0, <1>4 DEF CountOpen
<1>5. CASE PickNewest
  <2>1. plain \in Decision
    BY <1>0, <1>5 DEF PickNewest, ApprovalTypeOK
  <2>2. QED
    BY <1>0, <1>5, <2>1 DEF PickNewest, Record
<1>6. ASSUME NEW w \in Loops, Sweep(w) PROVE RowType'
  BY <1>0, <1>6 DEF Sweep, Swept, Before
<1>7. ASSUME NEW w \in Loops, SendText(w) \/ LoopFails(w) PROVE RowType'
  BY <1>0, <1>7 DEF SendText, LoopFails
<1>8. ASSUME NEW w \in Loops, CompleteEscalation(w) \/ FailEscalation(w) PROVE RowType'
  BY <1>0, <1>8 DEF CompleteEscalation, FailEscalation, Settle, Before
<1>9. CASE UNCHANGED approvalVars
  BY <1>0, <1>9 DEF approvalVars
<1>10. QED
  BY <1>1, <1>2, <1>3, <1>4, <1>5, <1>6, <1>7, <1>8, <1>9 DEF ApprovalNext, Agent, Loop

LEMMA CallTypes == ASSUME ApprovalInv, [ApprovalNext]_approvalVars PROVE CallType'
<1> USE DEF CallType
<1>0. CallType
  BY DEF ApprovalInv, ApprovalTypeOK
<1>1. ASSUME NEW c \in Calls, File(c) \/ Poll(c) \/ GiveUp(c) \/ Leave(c) PROVE CallType'
  BY <1>0, <1>1 DEF File, Poll, GiveUp, Leave
<1>2. ASSUME NEW c \in Calls, WaitFails(c) \/ Consume(c) \/ FallBack(c) \/ RunTool(c) \/ Die(c)
      PROVE CallType'
  BY <1>0, <1>2 DEF WaitFails, Consume, FallBack, RunTool, Die
<1>3. CASE Aside
  BY <1>0, <1>3 DEF Aside
<1>4. QED
  BY <1>1, <1>2, <1>3, Bystanders DEF ApprovalNext, Agent

LEMMA MessageTypes == ASSUME ApprovalInv, [ApprovalNext]_approvalVars PROVE MessageType'
<1> USE DEF MessageType
<1>0. MessageType /\ ApprovalTypeOK
  BY DEF ApprovalInv, ApprovalTypeOK
<1>1. ASSUME NEW c \in Calls, Agent(c) PROVE MessageType'
  BY <1>0, <1>1 DEF Agent, File, Poll, GiveUp, Leave, WaitFails, Consume, FallBack, RunTool, Die
<1>2. ASSUME NEW c \in Calls, Operator(c) PROVE MessageType'
  BY <1>0, <1>2 DEF Operator, Expiry, Post, Mark, Answer
<1>3. CASE CountOpen \/ PickNewest
  BY <1>0, <1>3 DEF CountOpen, PickNewest
<1>4. ASSUME NEW w \in Loops, Loop(w) PROVE MessageType'
  <2>1. CASE SendText(w)
    BY <1>0, <2>1 DEF SendText, ApprovalTypeOK
  <2>2. QED
    BY <1>0, <1>4, <2>1 DEF Loop, Sweep, CompleteEscalation, FailEscalation, Settle, LoopFails
<1>5. CASE UNCHANGED approvalVars
  BY <1>0, <1>5 DEF approvalVars
<1>6. QED
  BY <1>1, <1>2, <1>3, <1>4, <1>5 DEF ApprovalNext

LEMMA LoopTypes == ASSUME ApprovalInv, [ApprovalNext]_approvalVars PROVE LoopType' /\ InHand'
<1> USE ApprovalAssumption DEF LoopType, InHand, loopVars, requestVars
<1>0. LoopType /\ InHand /\ ApprovalTypeOK
  BY DEF ApprovalInv, ApprovalTypeOK
<1>1. ASSUME NEW c \in Calls, Agent(c) PROVE LoopType' /\ InHand'
  BY <1>0, <1>1 DEF Agent, File, Poll, GiveUp, Leave, WaitFails, Consume, FallBack, RunTool, Die
<1>2. ASSUME NEW c \in Calls, Operator(c) PROVE LoopType' /\ InHand'
  BY <1>0, <1>2 DEF Operator, Expiry, Post, Mark, Answer
<1>3. CASE CountOpen \/ PickNewest
  BY <1>0, <1>3 DEF CountOpen, PickNewest
<1>4. ASSUME NEW w \in Loops, Sweep(w) PROVE LoopType' /\ InHand'
  <2>1. PICK R \in SUBSET Escalating : \E C \in SUBSET Candidates(R) :
          /\ tries' = [c \in Calls |-> IF c \in C THEN tries[c] + 1 ELSE tries[c]]
          /\ batch' = [batch EXCEPT ![w] = C]
          /\ loopAt' = [loopAt EXCEPT ![w] = IF C = {} THEN "idle" ELSE "sending"]
          /\ hand' = [hand EXCEPT ![w] = NoCall]
    BY <1>4 DEF Sweep
  <2>2. PICK C \in SUBSET Candidates(R) :
          /\ tries' = [c \in Calls |-> IF c \in C THEN tries[c] + 1 ELSE tries[c]]
          /\ batch' = [batch EXCEPT ![w] = C]
          /\ loopAt' = [loopAt EXCEPT ![w] = IF C = {} THEN "idle" ELSE "sending"]
          /\ hand' = [hand EXCEPT ![w] = NoCall]
    BY <2>1
  <2>3. C \subseteq Calls /\ \A c \in C : tries[c] < MaxEscalations
    BY DEF Candidates
  <2>4. tries' \in [Calls -> 0..MaxEscalations]
    <3>1. MaxEscalations \in Nat
      BY DEF ApprovalAssumption
    <3>2. \A c \in C : tries[c] + 1 \in 0..MaxEscalations
      BY <1>0, <2>3, <3>1
    <3>3. QED
      BY <1>0, <2>2, <2>3, <3>2
  <2>5. batch' \in [Loops -> SUBSET Calls]
    BY <1>0, <2>2, <2>3
  <2>6. QED
    BY <1>0, <2>2, <2>4, <2>5
<1>5. ASSUME NEW w \in Loops, SendText(w) PROVE LoopType' /\ InHand'
  <2>1. PICK c \in batch[w] :
          /\ hand' = [hand EXCEPT ![w] = c]
          /\ batch' = [batch EXCEPT ![w] = @ \ {c}]
          /\ \/ loopAt' = [loopAt EXCEPT ![w] = "completing"]
             \/ loopAt' = [loopAt EXCEPT ![w] = "failing"]
    BY <1>5 DEF SendText
  <2>2. c \in Calls
    BY <1>0
  <2>3. tries' = tries
    BY <1>5 DEF SendText
  <2>4. QED
    BY <1>0, <2>1, <2>2, <2>3
<1>6. ASSUME NEW w \in Loops, CompleteEscalation(w) \/ FailEscalation(w) \/ LoopFails(w)
      PROVE LoopType' /\ InHand'
  BY <1>0, <1>6 DEF CompleteEscalation, FailEscalation, LoopFails, Settle, NextRow
<1>7. CASE UNCHANGED approvalVars
  BY <1>0, <1>7 DEF approvalVars
<1>8. QED
  BY <1>1, <1>2, <1>3, <1>4, <1>5, <1>6, <1>7 DEF ApprovalNext, Loop

LEMMA FaultType == ASSUME ApprovalInv, [ApprovalNext]_approvalVars
                   PROVE (approvalFaults \in 0..MaxApprovalFaults)'
<1> USE ApprovalAssumption DEF ApprovalAssumption, Fault
<1>0. approvalFaults \in 0..MaxApprovalFaults
  BY DEF ApprovalInv, ApprovalTypeOK
<1>1. ASSUME NEW c \in Calls, Agent(c) PROVE (approvalFaults \in 0..MaxApprovalFaults)'
  BY <1>0, <1>1 DEF Agent, File, Poll, GiveUp, Leave, WaitFails, Consume, FallBack, RunTool, Die
<1>2. ASSUME NEW c \in Calls, Operator(c) PROVE (approvalFaults \in 0..MaxApprovalFaults)'
  BY <1>0, <1>2 DEF Operator, Expiry, Post, Mark, Answer
<1>3. CASE CountOpen \/ PickNewest \/ UNCHANGED approvalVars
  BY <1>0, <1>3 DEF CountOpen, PickNewest, approvalVars
<1>4. ASSUME NEW w \in Loops, Loop(w) PROVE (approvalFaults \in 0..MaxApprovalFaults)'
  BY <1>0, <1>4 DEF Loop, Sweep, SendText, CompleteEscalation, FailEscalation, Settle, LoopFails
<1>5. QED
  BY <1>1, <1>2, <1>3, <1>4 DEF ApprovalNext

LEMMA TypeStep == ASSUME ApprovalInv, [ApprovalNext]_approvalVars PROVE ApprovalTypeOK' /\ InHand'
  BY RowTypes, CallTypes, MessageTypes, LoopTypes, FaultType
  DEF ApprovalTypeOK, RowType, CallType, MessageType, LoopType
-----------------------------------------------------------------------------
\* No step moves a row in any other way than Evolves says.
LEMMA RowSteps == ASSUME ApprovalInv, [ApprovalNext]_approvalVars PROVE \A c \in Calls : Evolves(c)
<1> USE DEF Evolves, Unanswered, Decidable, Decision, requestVars
<1>0. ApprovalTypeOK /\ InHand /\ RunsOnConsent /\ Unfiled
  BY DEF ApprovalInv
<1>1. ASSUME NEW c \in Calls, File(c) PROVE \A d \in Calls : Evolves(d)
  BY <1>0, <1>1 DEF File, ApprovalTypeOK, Unfiled
<1>2. ASSUME NEW c \in Calls, Poll(c) \/ Leave(c) PROVE \A d \in Calls : Evolves(d)
  BY <1>0, <1>2 DEF Poll, Leave, Lapsed, ApprovalTypeOK
<1>3. ASSUME NEW c \in Calls, Consume(c) \/ FallBack(c) PROVE \A d \in Calls : Evolves(d)
  BY <1>0, <1>3 DEF Consume, FallBack, ApprovalTypeOK
<1>4. ASSUME NEW c \in Calls, GiveUp(c) \/ WaitFails(c) \/ RunTool(c) \/ Die(c)
      PROVE \A d \in Calls : Evolves(d)
  BY <1>4 DEF GiveUp, WaitFails, RunTool, Die
<1>5. ASSUME NEW c \in Calls, Operator(c) PROVE \A d \in Calls : Evolves(d)
  BY <1>0, <1>5 DEF Operator, Expiry, Post, Mark, Answer, Record, ApprovalTypeOK
<1>6. CASE PickNewest
  <2>1. plain \in Decision
    BY <1>0, <1>6 DEF PickNewest, ApprovalTypeOK
  <2>2. QED
    BY <1>0, <1>6, <2>1 DEF PickNewest, Record, ApprovalTypeOK
<1>7. CASE CountOpen \/ UNCHANGED approvalVars
  BY <1>7 DEF CountOpen, approvalVars
<1>8. ASSUME NEW w \in Loops, Sweep(w) PROVE \A d \in Calls : Evolves(d)
  <2>1. PICK R \in SUBSET Escalating : \E C \in SUBSET Candidates(R) :
          request' = [c \in Calls |-> IF c \in C THEN "escalating" ELSE Swept(R)[c]]
    BY <1>8 DEF Sweep
  <2>2. PICK C \in SUBSET Candidates(R) :
          request' = [c \in Calls |-> IF c \in C THEN "escalating" ELSE Swept(R)[c]]
    BY <2>1
  <2>3. \A d \in Calls : \/ Swept(R)[d] = request[d]
                         \/ request[d] \in Unanswered /\ Swept(R)[d] \in Unanswered \cup {"expired"}
    BY DEF Swept, Before, Overdue, Escalating
  <2>4. \A d \in C : d \in Calls /\ Swept(R)[d] \in {"pending", "slack_delivered"}
    BY DEF Candidates
  <2>5. QED
    BY <2>2, <2>3, <2>4
<1>9. ASSUME NEW w \in Loops, SendText(w) \/ LoopFails(w) PROVE \A d \in Calls : Evolves(d)
  BY <1>9 DEF SendText, LoopFails
<1>10. ASSUME NEW w \in Loops, CompleteEscalation(w) \/ FailEscalation(w)
       PROVE \A d \in Calls : Evolves(d)
  BY <1>0, <1>10 DEF CompleteEscalation, FailEscalation, Settle, Before, InHand, ApprovalTypeOK
<1>11. QED
  BY <1>1, <1>2, <1>3, <1>4, <1>5, <1>6, <1>7, <1>8, <1>9, <1>10
  DEF ApprovalNext, Agent, Loop

\* How one step may move one call, and what its row then says.
Advances(c) ==
    \/ call'[c] = call[c]
    \/ call'[c] \in {"refused", "gone"}
    \/ call[c] \in {"idle", "waiting"} /\ call'[c] \in {"waiting", "leaving"}
    \/ call[c] = "waiting" /\ call'[c] = "granted" /\ request'[c] = "approved"
    \/ call[c] = "granted" /\ call'[c] = "cleared"
    \/ call[c] = "cleared" /\ call'[c] = "ran"

LEMMA CallSteps ==
    ASSUME ApprovalInv, [ApprovalNext]_approvalVars
    PROVE  \A c \in Calls : Advances(c) /\ (call'[c] # call[c] => call'[c] # "idle")
<1> USE DEF Advances
<1>0. CallType /\ RowType
  BY DEF ApprovalInv, ApprovalTypeOK, CallType, RowType
<1>1. ASSUME NEW c \in Calls, File(c) \/ Poll(c) \/ GiveUp(c) \/ Leave(c)
      PROVE \A d \in Calls : Advances(d) /\ (call'[d] # call[d] => call'[d] # "idle")
  BY <1>0, <1>1 DEF File, Poll, GiveUp, Leave, CallType, RowType
<1>2. ASSUME NEW c \in Calls, WaitFails(c) \/ Consume(c) \/ FallBack(c) \/ RunTool(c) \/ Die(c)
      PROVE \A d \in Calls : Advances(d) /\ (call'[d] # call[d] => call'[d] # "idle")
  BY <1>0, <1>2 DEF WaitFails, Consume, FallBack, RunTool, Die, CallType
<1>3. CASE Aside
  BY <1>3 DEF Aside
<1>4. QED
  BY <1>1, <1>2, <1>3, Bystanders DEF ApprovalNext, Agent

LEMMA ApprovalInductive == ASSUME ApprovalInv, [ApprovalNext]_approvalVars PROVE ApprovalInv'
<1>1. /\ \A c \in Calls : Evolves(c)
      /\ \A c \in Calls : Advances(c) /\ (call'[c] # call[c] => call'[c] # "idle")
  BY RowSteps, CallSteps
<1>2. RunsOnConsent /\ ConsumedByItsCall /\ Unfiled /\ ApprovalTypeOK
  BY DEF ApprovalInv
<1>3. Unfiled'
  BY <1>1, <1>2 DEF Unfiled, Evolves, Unanswered, Decidable
<1>4. RunsOnConsent'
  <2> SUFFICES ASSUME NEW c \in Calls, call'[c] \in {"granted", "cleared", "ran"}
               PROVE  request'[c] \in {"approved", "consumed"}
    BY DEF RunsOnConsent
  <2>1. call[c] \in {"granted", "cleared", "ran"} \/ request'[c] = "approved"
    BY <1>1 DEF Advances
  <2>2. QED
    BY <1>1, <1>2, <2>1 DEF RunsOnConsent, Evolves, Unanswered, Decidable
<1>5. ConsumedByItsCall'
  <2> SUFFICES ASSUME NEW c \in Calls, request'[c] = "consumed"
               PROVE  call'[c] \in {"cleared", "ran", "refused", "gone"}
    BY DEF ConsumedByItsCall
  <2>1. CASE request[c] = "consumed"
    <3>1. call[c] \in {"cleared", "ran", "refused", "gone"}
      BY <1>2, <2>1 DEF ConsumedByItsCall
    <3>2. QED
      BY <1>1, <3>1 DEF Advances
  <2>2. CASE request[c] # "consumed"
    BY <1>1, <2>2 DEF Evolves, Unanswered, Decidable, Decision
  <2>3. QED
    BY <2>1, <2>2
<1>6. QED
  BY <1>3, <1>4, <1>5, TypeStep DEF ApprovalInv

\* At all times every row, call, message and loop is in a state the code names.
THEOREM ApprovalTypeCorrect == ApprovalSpec => []ApprovalTypeOK
<1>1. ApprovalInv => ApprovalTypeOK
  BY DEF ApprovalInv
<1>2. QED
  BY ApprovalInitInv, ApprovalInductive, <1>1, PTL DEF ApprovalSpec

\* A call is cleared and its tool runs only while its row says the operator
\* approved it.
THEOREM ConsentFirst == ApprovalSpec => []RunsOnConsent
<1>1. ApprovalInv => RunsOnConsent
  BY DEF ApprovalInv
<1>2. QED
  BY ApprovalInitInv, ApprovalInductive, <1>1, PTL DEF ApprovalSpec

\* An approval is used up by the policy check of its own call and nothing else.
THEOREM UsedByItsCall == ApprovalSpec => []ConsumedByItsCall
<1>1. ApprovalInv => ConsumedByItsCall
  BY DEF ApprovalInv
<1>2. QED
  BY ApprovalInitInv, ApprovalInductive, <1>1, PTL DEF ApprovalSpec

\* No answer replaces another, and what has expired or was consumed stays so.
THEOREM AnswersStand == ApprovalSpec => DecisionStands
<1>1. ASSUME ApprovalInv, [ApprovalNext]_approvalVars
      PROVE  \A c \in Calls : request[c] \in Decision \cup {"consumed", "expired"} =>
                request'[c] \in {request[c]} \cup
                    (IF request[c] = "approved" THEN {"consumed"} ELSE {})
  BY <1>1, RowSteps DEF Evolves, Decision, Unanswered, Decidable
<1>2. QED
  BY ApprovalInitInv, ApprovalInductive, <1>1, PTL DEF ApprovalSpec, DecisionStands
-----------------------------------------------------------------------------
\* The refinement.

AbstractStep == [Consents!Next]_<<[c \in Calls |-> ConsentOf(c)], [c \in Calls |-> FateOf(c)]>>

\* The step concerns no row and no call but that of c.
Only(c) == \A d \in Calls \ {c} : request'[d] = request[d] /\ call'[d] = call[d]

\* What one call and its row show to the outside after a step.
LEMMA Shown ==
    ASSUME NEW c \in Calls, Only(c)
    PROVE  /\ [d \in Calls |-> ConsentOf(d)]' =
                  [[d \in Calls |-> ConsentOf(d)] EXCEPT ![c] = ConsentOf(c)']
           /\ [d \in Calls |-> FateOf(d)]' =
                  [[d \in Calls |-> FateOf(d)] EXCEPT ![c] = FateOf(c)']
  BY DEF Only, ConsentOf, FateOf

\* A step that concerns one call is a step of Consent when what that call
\* shows moves as Consent says.
Allowed(c) ==
    \/ ConsentOf(c)' = ConsentOf(c) /\ FateOf(c)' = FateOf(c)
    \/ /\ ConsentOf(c) = "none" /\ FateOf(c) = "pending"
       /\ ConsentOf(c)' = "open" /\ FateOf(c)' = "pending"
    \/ /\ ConsentOf(c) = "open" /\ ConsentOf(c)' \in {"granted", "denied", "lapsed"}
       /\ FateOf(c)' = FateOf(c)
    \/ /\ FateOf(c) = "pending" /\ FateOf(c)' = "ran"
       /\ ConsentOf(c) = "granted" /\ ConsentOf(c)' = "granted"
    \/ /\ FateOf(c) = "pending" /\ FateOf(c)' \in {"refused", "gone"}
       /\ \/ ConsentOf(c)' = ConsentOf(c)
          \/ ConsentOf(c) = "open" /\ ConsentOf(c)' = "lapsed"
          \/ ConsentOf(c) = "none" /\ ConsentOf(c)' = "open"

LEMMA OneCall == ASSUME NEW c \in Calls, Only(c), Allowed(c) PROVE AbstractStep
<1> DEFINE cs == [d \in Calls |-> ConsentOf(d)]
           fs == [d \in Calls |-> FateOf(d)]
<1>1. cs' = [cs EXCEPT ![c] = ConsentOf(c)'] /\ fs' = [fs EXCEPT ![c] = FateOf(c)']
  BY Shown
<1>2. cs[c] = ConsentOf(c) /\ fs[c] = FateOf(c)
  OBVIOUS
<1>3. cs = [cs EXCEPT ![c] = cs[c]] /\ fs = [fs EXCEPT ![c] = fs[c]]
  OBVIOUS
<1> HIDE DEF cs, fs
<1>4. CASE ConsentOf(c)' = ConsentOf(c) /\ FateOf(c)' = FateOf(c)
  <2>1. UNCHANGED <<cs, fs>>
    BY <1>1, <1>2, <1>3, <1>4
  <2>2. QED
    BY <2>1 DEF AbstractStep, cs, fs
<1>5. CASE /\ ConsentOf(c) = "none" /\ FateOf(c) = "pending"
           /\ ConsentOf(c)' = "open" /\ FateOf(c)' = "pending"
  <2>1. /\ cs[c] = "none" /\ fs[c] = "pending"
        /\ cs' = [cs EXCEPT ![c] = "open"] /\ fs' = fs
    BY <1>1, <1>2, <1>3, <1>5
  <2>2. Consents!Ask(c)
    BY <2>1 DEF Consents!Ask, cs, fs
  <2>3. QED
    BY <2>2 DEF AbstractStep, Consents!Next
<1>6. CASE /\ ConsentOf(c) = "open" /\ ConsentOf(c)' \in {"granted", "denied", "lapsed"}
           /\ FateOf(c)' = FateOf(c)
  <2>1. /\ cs[c] = "open" /\ fs' = fs
        /\ \E a \in {"granted", "denied", "lapsed"} : cs' = [cs EXCEPT ![c] = a]
    BY <1>1, <1>2, <1>3, <1>6
  <2>2. Consents!Answer(c)
    BY <2>1 DEF Consents!Answer, cs, fs
  <2>3. QED
    BY <2>2 DEF AbstractStep, Consents!Next
<1>7. CASE /\ FateOf(c) = "pending" /\ FateOf(c)' = "ran"
           /\ ConsentOf(c) = "granted" /\ ConsentOf(c)' = "granted"
  <2>1. /\ cs[c] = "granted" /\ fs[c] = "pending"
        /\ cs' = cs /\ fs' = [fs EXCEPT ![c] = "ran"]
    BY <1>1, <1>2, <1>3, <1>7
  <2>2. Consents!Run(c)
    BY <2>1 DEF Consents!Run, cs, fs
  <2>3. QED
    BY <2>2 DEF AbstractStep, Consents!Next
<1>8. CASE /\ FateOf(c) = "pending" /\ FateOf(c)' \in {"refused", "gone"}
           /\ \/ ConsentOf(c)' = ConsentOf(c)
              \/ ConsentOf(c) = "open" /\ ConsentOf(c)' = "lapsed"
              \/ ConsentOf(c) = "none" /\ ConsentOf(c)' = "open"
  <2>1. /\ fs[c] = "pending"
        /\ \E o \in {"refused", "gone"} : fs' = [fs EXCEPT ![c] = o]
    BY <1>1, <1>2, <1>8
  <2>2. \/ cs' = cs
        \/ cs[c] = "open" /\ cs' = [cs EXCEPT ![c] = "lapsed"]
        \/ cs[c] = "none" /\ cs' = [cs EXCEPT ![c] = "open"]
    BY <1>1, <1>2, <1>3, <1>8
  <2>3. Consents!Drop(c)
    BY <2>1, <2>2 DEF Consents!Drop, cs, fs
  <2>4. QED
    BY <2>3 DEF AbstractStep, Consents!Next
<1>9. QED
  BY <1>4, <1>5, <1>6, <1>7, <1>8 DEF Allowed

LEMMA AgentRefines == ASSUME ApprovalInv, NEW c \in Calls, Agent(c) PROVE AbstractStep
<1> USE DEF Allowed, Only, ConsentOf, FateOf, Unanswered, Decidable, Decision, requestVars
<1>0. RowType /\ CallType /\ RunsOnConsent /\ Unfiled
  BY DEF ApprovalInv, ApprovalTypeOK, RowType, CallType
<1>1. CASE File(c)
  BY <1>0, <1>1, OneCall DEF File, RowType, CallType, Unfiled
<1>2. CASE Poll(c)
  BY <1>0, <1>2, OneCall DEF Poll, Lapsed, RowType, CallType
<1>3. CASE Leave(c)
  BY <1>0, <1>3, OneCall DEF Leave, Lapsed, RowType, CallType
<1>4. CASE GiveUp(c) \/ WaitFails(c) \/ Die(c)
  BY <1>0, <1>4, OneCall DEF GiveUp, WaitFails, Die, RowType, CallType
<1>5. CASE Consume(c)
  BY <1>0, <1>5, OneCall DEF Consume, RowType, CallType
<1>6. CASE FallBack(c)
  BY <1>0, <1>6, OneCall DEF FallBack, RowType, CallType, RunsOnConsent
<1>7. CASE RunTool(c)
  BY <1>0, <1>7, OneCall DEF RunTool, RowType, CallType, RunsOnConsent
<1>8. QED
  BY <1>1, <1>2, <1>3, <1>4, <1>5, <1>6, <1>7 DEF Agent

\* A step that changes no call and moves rows only among the open states shows
\* nothing.
StillOpen == \A c \in Calls : \/ request'[c] = request[c]
                              \/ request[c] \in Unanswered /\ request'[c] \in Unanswered

LEMMA Unseen == Aside /\ StillOpen => AbstractStep
<1> SUFFICES ASSUME Aside, StillOpen PROVE AbstractStep
  OBVIOUS
<1>1. \A c \in Calls : ConsentOf(c)' = ConsentOf(c) /\ FateOf(c)' = FateOf(c)
  BY DEF StillOpen, ConsentOf, FateOf, Aside, Unanswered, Decidable
<1>2. UNCHANGED <<[c \in Calls |-> ConsentOf(c)], [c \in Calls |-> FateOf(c)]>>
  BY <1>1
<1>3. QED
  BY <1>2 DEF AbstractStep

\* The expiry of several late requests in one sweep is one Lapse.
LEMMA SweepRefines == ASSUME ApprovalInv, NEW w \in Loops, Sweep(w) PROVE AbstractStep
<1> DEFINE cs == [d \in Calls |-> ConsentOf(d)]
           fs == [d \in Calls |-> FateOf(d)]
<1> USE DEF Unanswered, Decidable
<1>1. Aside
  BY DEF Sweep, Aside
<1>2. PICK R \in SUBSET Escalating : \E C \in SUBSET Candidates(R) :
        request' = [c \in Calls |-> IF c \in C THEN "escalating" ELSE Swept(R)[c]]
  BY DEF Sweep
<1>3. PICK C \in SUBSET Candidates(R) :
        request' = [c \in Calls |-> IF c \in C THEN "escalating" ELSE Swept(R)[c]]
  BY <1>2
<1>4. \A d \in Calls : IF d \in Overdue THEN Swept(R)[d] = "expired"
                       ELSE \/ Swept(R)[d] = request[d]
                            \/ request[d] \in Unanswered /\ Swept(R)[d] \in Unanswered
  BY DEF Swept, Before, Escalating
<1>5. \A d \in C : d \in Calls \ Overdue /\ request[d] \in Unanswered
  BY DEF Candidates, Swept, Overdue, Escalating
<1>6. \A d \in Calls : IF d \in Overdue THEN request'[d] = "expired"
                       ELSE \/ request'[d] = request[d]
                            \/ request[d] \in Unanswered /\ request'[d] \in Unanswered
  BY <1>3, <1>4, <1>5
<1>7. \A d \in Overdue : d \in Calls /\ ConsentOf(d) = "open"
  BY DEF Overdue, ConsentOf
<1>8. \A d \in Calls : ConsentOf(d)' = IF d \in Overdue THEN "lapsed" ELSE ConsentOf(d)
  BY <1>6 DEF ConsentOf
<1>9. cs' = [d \in Calls |-> IF d \in Overdue THEN "lapsed" ELSE cs[d]]
  BY <1>8
<1>10. fs' = fs
  BY <1>1 DEF Aside, FateOf
<1>11. Overdue \in SUBSET {d \in Calls : cs[d] = "open"}
  BY <1>7
<1>12. Consents!Lapse
  <2> HIDE DEF cs, fs
  <2>1. \E D \in SUBSET {d \in Calls : cs[d] = "open"} :
          cs' = [d \in Calls |-> IF d \in D THEN "lapsed" ELSE cs[d]]
    BY <1>9, <1>11
  <2>2. QED
    BY <2>1, <1>10 DEF Consents!Lapse, cs, fs
<1>13. QED
  BY <1>12 DEF AbstractStep, Consents!Next

LEMMA OthersRefine ==
    ASSUME ApprovalInv,
           \/ \E c \in Calls : Operator(c)
           \/ CountOpen \/ PickNewest
           \/ \E w \in Loops : Loop(w)
           \/ UNCHANGED approvalVars
    PROVE  AbstractStep
<1> USE DEF StillOpen, Unanswered, Decidable, Decision, requestVars
<1>0. RowType /\ Aside /\ InHand
  BY Bystanders DEF ApprovalInv, ApprovalTypeOK, RowType
<1>1. ASSUME NEW c \in Calls, Expiry(c) \/ Post(c) \/ Mark(c) PROVE AbstractStep
  BY <1>0, <1>1, Unseen DEF Expiry, Post, Mark, RowType
<1>2. ASSUME NEW c \in Calls, NEW d \in Decision, Record(c, d) PROVE AbstractStep
  BY <1>0, <1>2, OneCall DEF Record, Allowed, Only, ConsentOf, FateOf, Aside, RowType
<1>3. ASSUME NEW c \in Calls, Answer(c) PROVE AbstractStep
  BY <1>2, <1>3 DEF Answer
<1>4. CASE PickNewest
  <2>1. CASE OpenRequests = {} /\ UNCHANGED request
    <3>1. StillOpen
      BY <2>1
    <3>2. Aside
      BY <1>0
    <3>3. QED
      BY <3>1, <3>2, Unseen
  <2>2. CASE OpenRequests # {} /\ Record(Newest, plain)
    <3>1. plain \in Decision
      BY <1>4 DEF PickNewest, ApprovalInv, ApprovalTypeOK
    <3>2. CASE Newest \in Calls
      BY <1>2, <2>2, <3>1, <3>2
    <3>3. CASE Newest \notin Calls
      <4>1. request' = request
        BY <1>0, <2>2, <3>3 DEF Record, RowType
      <4>2. QED
        BY <1>0, <4>1, Unseen
    <3>4. QED
      BY <3>2, <3>3
  <2>3. QED
    BY <1>4, <2>1, <2>2 DEF PickNewest
<1>5. CASE CountOpen \/ UNCHANGED approvalVars
  BY <1>0, <1>5, Unseen DEF CountOpen, approvalVars
<1>6. ASSUME NEW w \in Loops, SendText(w) \/ LoopFails(w) PROVE AbstractStep
  BY <1>0, <1>6, Unseen DEF SendText, LoopFails
<1>7. ASSUME NEW w \in Loops, CompleteEscalation(w) \/ FailEscalation(w) PROVE AbstractStep
  BY <1>0, <1>7, Unseen
  DEF CompleteEscalation, FailEscalation, Settle, Before, RowType, InHand
<1>8. QED
  BY <1>1, <1>3, <1>4, <1>5, <1>6, <1>7, SweepRefines DEF Operator, Loop

\* Approval implements Consent: one request, one answer, at most one run and
\* only after a yes; no answer reaches a call that has ended.
THEOREM Implements == ApprovalSpec => ImplementsConsent
<1>1. ApprovalInit => Consents!Init
  BY DEF ApprovalInit, Consents!Init, ConsentOf, FateOf
<1>2. ASSUME ApprovalInv, [ApprovalNext]_approvalVars PROVE AbstractStep
  BY <1>2, AgentRefines, OthersRefine DEF ApprovalNext
<1>3. QED
  BY ApprovalInitInv, ApprovalInductive, <1>1, <1>2, PTL
  DEF ApprovalSpec, ImplementsConsent, Consents!Spec, AbstractStep
-----------------------------------------------------------------------------
\* Outbound for any number of senders, addresses, messages,
\* reservations, faults and controls, and for any charges and budgets.
\* A sender past the reservation has one.
Ticketed == \A w \in Senders :
    stage[w] \in {"sending", "sent", "failed"} => ticket[w] \in Events

\* No reservation puts more on record as debt than it charged.
DebtWithinCost == \A i \in Events : ledger[i].debt <= ledger[i].cost

SenderType == /\ stage \in [Senders -> {"idle", "cleared", "sending", "sent", "failed"}]
              /\ task \in [Senders -> Keys \X Entities]
              /\ ticket \in [Senders -> Events \cup {NoEvent}]
ControlType == /\ linked \in BOOLEAN /\ optedOut \in BOOLEAN
               /\ stopped \subseteq Entities
               /\ suspended \subseteq Entities \cup {"all"}
               /\ settled \subseteq Keys
               /\ underway \in [Entities -> SUBSET Senders]
               /\ optUnderway \subseteq Senders
BudgetType == /\ points \in [Budgets -> Int] /\ strain \in [Budgets -> Nat]
              /\ silent \in [Budgets -> Nat] /\ gained \in [Budgets -> Nat]
LedgerType == ledger \in [Events -> Reservation]
BoundType == /\ outboundFaults \in 0..MaxOutboundFaults
             /\ controlsUsed \in 0..MaxControls
             /\ links \in 0..MaxLinks

OutboundInv == /\ OutboundTypeOK /\ Ticketed /\ DebtWithinCost
        /\ BarsBind /\ OneReservation /\ StrainCoversDebt

\* The controls.
Controlled ==
    \/ \E a \in Addresses : Hear(a) \/ Stop(a) \/ Restart(a)
    \/ \E x \in Entities \cup {"all"} : Suspend(x) \/ Resume(x)

LEMMA Split ==
    ASSUME [OutboundNext]_outboundVars
    PROVE  (\E w \in Senders : Sending(w)) \/ Controlled \/ Link \/ UNCHANGED outboundVars
<1>1. CASE OutboundNext
  BY <1>1, Zenon DEF OutboundNext, Controlled
<1>2. CASE UNCHANGED outboundVars
  BY <1>2
<1>3. QED
  BY <1>1, <1>2
-----------------------------------------------------------------------------
LEMMA InitType == OutboundInit => OutboundTypeOK
<1> SUFFICES ASSUME OutboundInit PROVE OutboundTypeOK
  OBVIOUS
<1> USE OutboundAssumption DEF OutboundAssumption, OutboundInit
<1>1. SomeKey \in Keys
  BY DEF SomeKey
<1>2. SenderType
  BY <1>1 DEF SenderType, Entities
<1>3. ControlType /\ BoundType
  <2>1. ControlType
    BY DEF ControlType
  <2>2. /\ 0 \in 0..MaxOutboundFaults /\ 0 \in 0..MaxControls /\ 0 \in 0..MaxLinks
    OBVIOUS
  <2>3. QED
    BY <2>1, <2>2 DEF BoundType
<1>4. BudgetType
  BY DEF BudgetType
<1>5. LedgerType
  BY <1>1 DEF LedgerType, Reservation, Status, Entities
<1>6. QED
  BY <1>2, <1>3, <1>4, <1>5
  DEF OutboundTypeOK, SenderType, ControlType, BudgetType, LedgerType, BoundType

LEMMA OutboundInitInv == OutboundInit => OutboundInv
<1> SUFFICES ASSUME OutboundInit PROVE OutboundInv
  OBVIOUS
<1> USE OutboundAssumption DEF OutboundAssumption, OutboundInit
<1>1. OutboundTypeOK
  BY InitType
<1>2. Ticketed /\ DebtWithinCost
  BY DEF Ticketed, DebtWithinCost
<1>3. BarsBind /\ OneReservation
  BY DEF BarsBind, OneReservation
<1>4. StrainCoversDebt
  BY DEF StrainCoversDebt
<1>5. QED
  BY <1>1, <1>2, <1>3, <1>4 DEF OutboundInv
-----------------------------------------------------------------------------
LEMMA SenderTypes == ASSUME OutboundInv, [OutboundNext]_outboundVars PROVE SenderType' /\ Ticketed'
<1> USE OutboundAssumption DEF OutboundAssumption, SenderType, Ticketed
<1>0. SenderType /\ Ticketed /\ linked \in BOOLEAN /\ NoEvent \notin Events
  BY DEF OutboundInv, OutboundTypeOK, NoEvent, Events
<1>1. ASSUME NEW w \in Senders, Sending(w) PROVE SenderType' /\ Ticketed'
  <2>1. ASSUME NEW k \in Keys, Clear(w, k) PROVE SenderType' /\ Ticketed'
    <3>1. k \in Mails \X Addresses
      OBVIOUS
    <3>2. EntityOf(k[2]) \in Entities
      BY <3>1 DEF EntityOf, Entities
    <3>3. QED
      BY <1>0, <2>1, <3>2 DEF Clear
  <2>2. ASSUME NEW k \in Keys, Refuse(w, k) PROVE SenderType' /\ Ticketed'
    BY <1>0, <2>2 DEF Refuse, senderVars
  <2>3. CASE Reuse(w)
    BY <1>0, <2>3 DEF Reuse, Held
  <2>4. CASE ReserveReply(w) \/ Charge(w)
    <3>1. /\ \E c, d : Reserve(w, c, d)
          /\ task' = task
      BY <2>4, Zenon DEF ReserveReply, Charge
    <3>2. PICK i \in Events : /\ ticket' = [ticket EXCEPT ![w] = i]
                              /\ stage' = [stage EXCEPT ![w] = "sending"]
      BY <3>1 DEF Reserve
    <3>3. QED
      BY <1>0, <3>1, <3>2
  <2>5. CASE Send(w) \/ SendFails(w)
    BY <1>0, <2>5 DEF Send, SendFails
  <2>6. CASE Deny(w) \/ Finalize(w) \/ FinalizeFails(w) \/ SenderDies(w)
    BY <1>0, <2>6 DEF Deny, Finalize, FinalizeFails, SenderDies, GoIdle
  <2>7. QED
    BY <1>1, <2>1, <2>2, <2>3, <2>4, <2>5, <2>6 DEF Sending
<1>2. CASE Controlled \/ Link \/ UNCHANGED outboundVars
  BY <1>0, <1>2 DEF Controlled, Hear, Stop, Restart, Suspend, Resume, Control, Link,
     senderVars, outboundVars
<1>3. QED
  BY <1>1, <1>2, Split

LEMMA ControlTypes == ASSUME OutboundInv, [OutboundNext]_outboundVars PROVE ControlType'
<1> USE DEF ControlType, controlVars
<1>0. ControlType /\ SenderType
  BY DEF OutboundInv, OutboundTypeOK, SenderType
<1>1. ASSUME NEW w \in Senders, Sending(w) PROVE ControlType'
  <2>1. ASSUME NEW k \in Keys, Clear(w, k) \/ Refuse(w, k) PROVE ControlType'
    <3>1. CASE Clear(w, k)
      BY <1>0, <3>1 DEF Clear
    <3>2. CASE Refuse(w, k)
      BY <1>0, <3>2 DEF Refuse
    <3>3. QED
      BY <2>1, <3>1, <3>2
  <2>2. CASE Reuse(w) \/ ReserveReply(w) \/ Charge(w) \/ Send(w) \/ SendFails(w)
    BY <1>0, <2>2 DEF Reuse, ReserveReply, Charge, Send, SendFails
  <2>3. KeyOf(w) \in Keys
    BY <1>0 DEF SenderType, KeyOf
  <2>4. CASE Deny(w) \/ Finalize(w) \/ FinalizeFails(w) \/ SenderDies(w)
    BY <1>0, <2>3, <2>4 DEF Deny, Finalize, FinalizeFails, SenderDies, GoIdle
  <2>5. QED
    BY <1>1, <2>1, <2>2, <2>4 DEF Sending
<1>2. ASSUME NEW a \in Addresses, Hear(a) \/ Stop(a) \/ Restart(a) PROVE ControlType'
  <2>1. EntityOf(a) \in Entities
    BY DEF EntityOf, Entities
  <2>2. CASE Hear(a) \/ Restart(a)
    BY <1>0, <2>1, <2>2 DEF Hear, Restart, Control
  <2>3. CASE Stop(a)
    <3>1. Past(EntityOf(a)) \in SUBSET Senders /\ AllPast \subseteq Senders
      BY DEF Past, AllPast
    <3>2. /\ underway' \in [Entities -> SUBSET Senders]
          /\ optUnderway' \subseteq Senders
      BY <1>0, <2>1, <2>3, <3>1 DEF Stop
    <3>3. QED
      BY <1>0, <2>1, <2>3, <3>2 DEF Stop, Control
  <2>4. QED
    BY <1>2, <2>2, <2>3
<1>3. ASSUME NEW x \in Entities \cup {"all"}, Suspend(x) \/ Resume(x) PROVE ControlType'
  BY <1>0, <1>3 DEF Suspend, Resume, Control, Past
<1>4. CASE Link \/ UNCHANGED outboundVars
  BY <1>0, <1>4 DEF Link, outboundVars
<1>5. QED
  BY <1>1, <1>2, <1>3, <1>4, Split DEF Controlled

LEMMA BoundTypes == ASSUME OutboundInv, [OutboundNext]_outboundVars PROVE BoundType'
<1> USE OutboundAssumption DEF OutboundAssumption, BoundType, outboundBounds, OutboundFault
<1>0. BoundType
  BY DEF OutboundInv, OutboundTypeOK
<1>1. ASSUME NEW w \in Senders, Sending(w) PROVE BoundType'
  <2>1. ASSUME NEW k \in Keys, Clear(w, k) \/ Refuse(w, k) PROVE BoundType'
    BY <1>0, <2>1 DEF Clear, Refuse
  <2>2. CASE Reuse(w) \/ ReserveReply(w) \/ Charge(w) \/ Deny(w) \/ Send(w) \/ Finalize(w)
    BY <1>0, <2>2 DEF Reuse, ReserveReply, Charge, Deny, Send, Finalize
  <2>3. CASE SendFails(w) \/ FinalizeFails(w) \/ SenderDies(w)
    BY <1>0, <2>3 DEF SendFails, FinalizeFails, SenderDies
  <2>4. QED
    BY <1>1, <2>1, <2>2, <2>3 DEF Sending
<1>2. CASE Controlled
  BY <1>0, <1>2 DEF Controlled, Hear, Stop, Restart, Suspend, Resume, Control
<1>3. CASE Link \/ UNCHANGED outboundVars
  BY <1>0, <1>3 DEF Link, outboundVars
<1>4. QED
  BY <1>1, <1>2, <1>3, Split
-----------------------------------------------------------------------------
\* The steps that touch neither the budgets nor the ledger.
Still == UNCHANGED <<points, strain, silent, gained, ledger>>

\* The statements that do.
Booking ==
    \/ \E w \in Senders : ReserveReply(w) \/ Charge(w) \/ Deny(w) \/ Finalize(w)
    \/ \E a \in Addresses : Credit(a) /\ UNCHANGED ledger

LEMMA Booked == ASSUME [OutboundNext]_outboundVars PROVE Still \/ Booking
<1>1. ASSUME NEW w \in Senders, Sending(w) PROVE Still \/ Booking
  <2>1. ASSUME NEW k \in Keys, Clear(w, k) \/ Refuse(w, k) PROVE Still
    BY <2>1 DEF Clear, Refuse, budgetVars, Still
  <2>2. CASE Reuse(w) \/ Send(w) \/ SendFails(w) \/ FinalizeFails(w) \/ SenderDies(w)
    BY <2>2 DEF Reuse, Send, SendFails, FinalizeFails, SenderDies, budgetVars, Still
  <2>3. QED
    BY <1>1, <2>1, <2>2 DEF Sending, Booking
<1>2. CASE Controlled
  BY <1>2 DEF Controlled, Hear, Stop, Restart, Suspend, Resume, Control, budgetVars, Still, Booking
<1>3. CASE Link \/ UNCHANGED outboundVars
  BY <1>3 DEF Link, outboundVars, budgetVars, Still
<1>4. QED
  BY <1>1, <1>2, <1>3, Split

\* A reservation that is made is the only open one of its key, with no more
\* debt than cost.
LEMMA Reserves ==
    ASSUME OutboundInv, NEW w \in Senders, NEW c \in Nat, NEW d \in Nat, d <= c,
           Held(w) = {}, Reserve(w, c, d)
    PROVE  LedgerType' /\ DebtWithinCost' /\ OneReservation'
<1>1. LedgerType /\ DebtWithinCost /\ OneReservation /\ SenderType
  BY DEF OutboundInv, OutboundTypeOK, LedgerType, SenderType
<1>2. PICK i \in Events :
        ledger' = [ledger EXCEPT ![i] = [key |-> KeyOf(w), entity |-> EntityAt(w),
                                         status |-> "authorized", cost |-> c, debt |-> d]]
  BY DEF Reserve
<1>3. KeyOf(w) \in Keys /\ EntityAt(w) \in Entities
  BY <1>1 DEF SenderType, KeyOf, EntityAt
<1>4. LedgerType' /\ DebtWithinCost'
  BY <1>1, <1>2, <1>3 DEF LedgerType, Reservation, Status, DebtWithinCost
<1>5. OneReservation'
  <2>1. \A j \in Events : ledger[j].status = "authorized" => ledger[j].key # KeyOf(w)
    BY DEF Held
  <2>2. /\ ledger'[i].key = KeyOf(w)
        /\ \A j \in Events : j # i => ledger'[j] = ledger[j]
    BY <1>1, <1>2 DEF LedgerType
  <2>3. QED
    BY <1>1, <2>1, <2>2 DEF OneReservation
<1>6. QED
  BY <1>4, <1>5

\* A reservation that is concluded stays what it was but for its status.
LEMMA Concludes ==
    ASSUME OutboundInv, NEW i \in Events, NEW s \in {"delivered", "failed"}, Conclude(i, s)
    PROVE  LedgerType' /\ DebtWithinCost' /\ OneReservation'
<1>1. LedgerType /\ DebtWithinCost /\ OneReservation
  BY DEF OutboundInv, OutboundTypeOK, LedgerType
<1>2. CASE ledger' = ledger
  <2>1. LedgerType' /\ DebtWithinCost'
    BY <1>1, <1>2 DEF LedgerType, DebtWithinCost
  <2>2. OneReservation'
    BY <1>1, <1>2 DEF OneReservation
  <2>3. QED
    BY <2>1, <2>2
<1>3. CASE ledger' = [ledger EXCEPT ![i].status = s]
  <2>1. \A j \in Events : /\ ledger'[j].key = ledger[j].key
                          /\ ledger'[j].cost = ledger[j].cost
                          /\ ledger'[j].debt = ledger[j].debt
                          /\ ledger'[j].status \in {ledger[j].status, s}
    BY <1>1, <1>3 DEF LedgerType, Reservation
  <2>2. LedgerType'
    BY <1>1, <1>3 DEF LedgerType, Reservation, Status
  <2>3. QED
    BY <1>1, <2>1, <2>2 DEF DebtWithinCost, OneReservation
<1>4. QED
  BY <1>2, <1>3 DEF Conclude

LEMMA LedgerStep ==
    ASSUME OutboundInv, [OutboundNext]_outboundVars
    PROVE  LedgerType' /\ DebtWithinCost' /\ OneReservation'
<1> USE OutboundAssumption DEF OutboundAssumption
<1>0. LedgerType /\ DebtWithinCost /\ OneReservation /\ Ticketed
  BY DEF OutboundInv, OutboundTypeOK, LedgerType
<1>1. ASSUME NEW w \in Senders, ReserveReply(w)
      PROVE LedgerType' /\ DebtWithinCost' /\ OneReservation'
  BY <1>1, Reserves DEF ReserveReply
<1>2. ASSUME NEW w \in Senders, Charge(w)
      PROVE LedgerType' /\ DebtWithinCost' /\ OneReservation'
  <2>1. PICK g \in Gains : \E c \in Costs :
          Reserve(w, c, Least(c, Debt(Least(MaxPoints, points[BudgetAt(w)] + g) - c)))
    BY <1>2, Zenon DEF Charge
  <2>2. PICK c \in Costs :
          Reserve(w, c, Least(c, Debt(Least(MaxPoints, points[BudgetAt(w)] + g) - c)))
    BY <2>1
  <2>3. Held(w) = {}
    BY <1>2 DEF Charge
  <2>4. BudgetAt(w) \in Budgets
    <3>1. task[w] \in Keys \X Entities
      BY DEF OutboundInv, OutboundTypeOK
    <3>2. task[w][1] \in Mails \X Addresses /\ task[w][2] \in Entities
      BY <3>1
    <3>3. QED
      BY <3>2 DEF BudgetAt, Budgets, EntityAt, AddressAt, KeyOf
  <2>5. points[BudgetAt(w)] \in Int
    BY <2>4 DEF OutboundInv, OutboundTypeOK
  <2>6. MaxPoints \in Nat /\ g \in Nat /\ c \in Nat
    OBVIOUS
  <2>7. Least(MaxPoints, points[BudgetAt(w)] + g) - c \in Int
    BY <2>5, <2>6 DEF Least
  <2>8. \A q \in Int : Least(c, Debt(q)) \in 0..c
    BY <2>6 DEF Least, Debt, AtLeastZero
  <2>9. QED
    BY <2>2, <2>3, <2>6, <2>7, <2>8, Reserves
<1>3. ASSUME NEW w \in Senders, Finalize(w)
      PROVE LedgerType' /\ DebtWithinCost' /\ OneReservation'
  BY <1>0, <1>3, Concludes DEF Finalize, Ticketed
<1>4. CASE ledger' = ledger
  BY <1>0, <1>4 DEF LedgerType, DebtWithinCost, OneReservation
<1>5. ASSUME NEW w \in Senders, Deny(w) PROVE ledger' = ledger
  BY <1>5 DEF Deny
<1>6. QED
  BY <1>1, <1>2, <1>3, <1>4, <1>5, Booked DEF Booking, Still
-----------------------------------------------------------------------------
\* What a step may do to one budget: regain g, then charge c with the part that
\* is debt; or be credited g; or be refunded what a reservation cost.
Regained(p, s, q, t, g) == /\ q = Least(MaxPoints, p + g)
                           /\ t = AtLeastZero(s - g)
Charged(p, s, q, t, g, c) ==
    /\ q = Least(MaxPoints, p + g) - c
    /\ t = AtLeastZero(s - g) + Least(c, Debt(q))
Refunded(p, s, q, t, c, d) == /\ q = Least(MaxPoints, p + c)
                              /\ t = AtLeastZero(s - d)

Covered(p, s) == p \in Int /\ s \in Nat /\ p <= MaxPoints /\ s >= -p

LEMMA OneBudget ==
    ASSUME NEW p, NEW s, Covered(p, s), NEW q, NEW t,
           NEW g \in Nat, NEW c \in Nat, NEW d \in Nat, d <= c,
           \/ Regained(p, s, q, t, g)
           \/ Charged(p, s, q, t, g, c)
           \/ Refunded(p, s, q, t, c, d)
    PROVE  Covered(q, t)
<1> USE OutboundAssumption DEF OutboundAssumption, Covered, Least, AtLeastZero
<1>1. MaxPoints \in Nat
  OBVIOUS
<1>2. CASE Regained(p, s, q, t, g)
  BY <1>1, <1>2 DEF Regained
<1>3. CASE Charged(p, s, q, t, g, c)
  <2> DEFINE r == Least(MaxPoints, p + g)
             u == AtLeastZero(s - g)
  <2>1. r \in Int /\ u \in Nat /\ r <= MaxPoints /\ u >= -r
    BY <1>1
  <2>2. q = r - c /\ t = u + Least(c, Debt(r - c))
    BY <1>3 DEF Charged
  <2> HIDE DEF r, u
  <2>3. QED
    BY <1>1, <2>1, <2>2 DEF Debt
<1>4. CASE Refunded(p, s, q, t, c, d)
  BY <1>1, <1>4 DEF Refunded
<1>5. QED
  BY <1>2, <1>3, <1>4

\* Every budget moves in one of these ways or stays.
Moves(p, s, q, t) ==
    \/ q = p /\ t = s
    \/ \E g, c, d \in Nat : /\ d <= c
                            /\ \/ Regained(p, s, q, t, g)
                               \/ Charged(p, s, q, t, g, c)
                               \/ Refunded(p, s, q, t, c, d)

\* The amounts are found by one statement for one budget.
At(b) == /\ points' = [points EXCEPT ![b] = points'[b]]
         /\ strain' = [strain EXCEPT ![b] = strain'[b]]
         /\ Moves(points[b], strain[b], points'[b], strain'[b])

LEMMA OneMoves ==
    ASSUME OutboundInv, NEW b \in Budgets, At(b)
    PROVE  /\ points' \in [Budgets -> Int] /\ strain' \in [Budgets -> Nat]
           /\ StrainCoversDebt'
<1>1. points \in [Budgets -> Int] /\ strain \in [Budgets -> Nat] /\ StrainCoversDebt
  BY DEF OutboundInv, OutboundTypeOK
<1>2. \A a \in Budgets : Covered(points[a], strain[a])
  BY <1>1 DEF StrainCoversDebt, Covered
<1>3. Covered(points'[b], strain'[b])
  BY <1>2, OneBudget DEF At, Moves
<1>4. \A a \in Budgets : Covered(points'[a], strain'[a])
  <2>1. SUFFICES ASSUME NEW a \in Budgets, a # b PROVE Covered(points'[a], strain'[a])
    BY <1>3
  <2>2. points'[a] = points[a] /\ strain'[a] = strain[a]
    BY <1>1, <2>1 DEF At
  <2>3. QED
    BY <1>2, <2>2
<1>5. /\ points' = [a \in Budgets |-> points'[a]]
      /\ strain' = [a \in Budgets |-> strain'[a]]
  BY <1>1 DEF At
<1>6. QED
  BY <1>4, <1>5 DEF Covered, StrainCoversDebt

\* A budget statement, its lookup aside.
BudgetStep == \/ points' = points /\ strain' = strain
              \/ \E b \in Budgets : At(b)

LEMMA SenderBudget == ASSUME OutboundInv, NEW w \in Senders PROVE BudgetAt(w) \in Budgets
<1>1. task[w] \in Keys \X Entities
  BY DEF OutboundInv, OutboundTypeOK
<1>2. task[w][1] \in Mails \X Addresses /\ task[w][2] \in Entities
  BY <1>1, OutboundAssumption DEF OutboundAssumption
<1>3. QED
  BY <1>2 DEF BudgetAt, Budgets, EntityAt, AddressAt, KeyOf

LEMMA ChargeStep ==
    ASSUME OutboundInv, NEW w \in Senders, Charge(w)
    PROVE  /\ \E b \in Budgets : At(b)
           /\ gained' \in [Budgets -> Nat]
<1> DEFINE b == BudgetAt(w)
<1>0. b \in Budgets
  BY SenderBudget
<1>1. /\ points \in [Budgets -> Int] /\ strain \in [Budgets -> Nat]
      /\ gained \in [Budgets -> Nat]
  BY DEF OutboundInv, OutboundTypeOK
<1>2. Gains \subseteq Nat /\ Costs \subseteq Nat
  BY OutboundAssumption DEF OutboundAssumption
<1>3. PICK g \in Gains : \E c \in Costs :
        /\ points' = [points EXCEPT ![b] = Least(MaxPoints, points[b] + g) - c]
        /\ strain' = [strain EXCEPT ![b] = AtLeastZero(strain[b] - g)
                         + Least(c, Debt(Least(MaxPoints, points[b] + g) - c))]
        /\ gained' = [gained EXCEPT ![b] = @ + g]
  BY Zenon DEF Charge
<1>4. PICK c \in Costs :
        /\ points' = [points EXCEPT ![b] = Least(MaxPoints, points[b] + g) - c]
        /\ strain' = [strain EXCEPT ![b] = AtLeastZero(strain[b] - g)
                         + Least(c, Debt(Least(MaxPoints, points[b] + g) - c))]
        /\ gained' = [gained EXCEPT ![b] = @ + g]
  BY <1>3
<1> HIDE DEF b
<1>5. g \in Nat /\ c \in Nat /\ 0 \in Nat /\ 0 <= c
  BY <1>2
<1>6. Charged(points[b], strain[b], points'[b], strain'[b], g, c)
  BY <1>0, <1>1, <1>4 DEF Charged
<1>7. At(b)
  BY <1>0, <1>1, <1>4, <1>5, <1>6 DEF At, Moves
<1>8. gained' \in [Budgets -> Nat]
  BY <1>0, <1>1, <1>4, <1>5
<1>9. QED
  BY <1>0, <1>7, <1>8

LEMMA DenyStep ==
    ASSUME OutboundInv, NEW w \in Senders, Deny(w)
    PROVE  /\ \E b \in Budgets : At(b)
           /\ gained' \in [Budgets -> Nat]
<1> DEFINE b == BudgetAt(w)
<1>0. b \in Budgets
  BY SenderBudget
<1>1. /\ points \in [Budgets -> Int] /\ strain \in [Budgets -> Nat]
      /\ gained \in [Budgets -> Nat]
  BY DEF OutboundInv, OutboundTypeOK
<1>2. PICK g \in Gains :
        /\ points' = [points EXCEPT ![b] = Least(MaxPoints, points[b] + g)]
        /\ strain' = [strain EXCEPT ![b] = AtLeastZero(strain[b] - g)]
        /\ gained' = [gained EXCEPT ![b] = @ + g]
  BY Zenon DEF Deny
<1> HIDE DEF b
<1>3. g \in Nat /\ 0 \in Nat /\ 0 <= 0
  BY OutboundAssumption DEF OutboundAssumption
<1>4. Regained(points[b], strain[b], points'[b], strain'[b], g)
  BY <1>0, <1>1, <1>2 DEF Regained
<1>5. At(b)
  BY <1>0, <1>1, <1>2, <1>3, <1>4 DEF At, Moves
<1>6. gained' \in [Budgets -> Nat]
  BY <1>0, <1>1, <1>2, <1>3
<1>7. QED
  BY <1>0, <1>5, <1>6

LEMMA CreditStep ==
    ASSUME OutboundInv, NEW a \in Addresses, Credit(a)
    PROVE  /\ \E b \in Budgets : At(b)
           /\ gained' \in [Budgets -> Nat] /\ silent' \in [Budgets -> Nat]
<1> DEFINE b == <<EntityOf(a), a>>
<1>0. b \in Budgets
  BY DEF Budgets, EntityOf, Entities
<1>1. /\ points \in [Budgets -> Int] /\ strain \in [Budgets -> Nat]
      /\ gained \in [Budgets -> Nat] /\ silent \in [Budgets -> Nat]
  BY DEF OutboundInv, OutboundTypeOK
<1>2. PICK g \in Gains :
        /\ points' = [points EXCEPT ![b] = Least(MaxPoints, @ + g)]
        /\ strain' = [strain EXCEPT ![b] = AtLeastZero(@ - g)]
        /\ silent' = [silent EXCEPT ![b] = 0]
        /\ gained' = [gained EXCEPT ![b] = @ + g]
  BY Zenon DEF Credit
<1> HIDE DEF b
<1>3. g \in Nat /\ 0 \in Nat /\ 0 <= 0
  BY OutboundAssumption DEF OutboundAssumption
<1>4. Regained(points[b], strain[b], points'[b], strain'[b], g)
  BY <1>0, <1>1, <1>2 DEF Regained
<1>5. At(b)
  BY <1>0, <1>1, <1>2, <1>3, <1>4 DEF At, Moves
<1>6. gained' \in [Budgets -> Nat] /\ silent' \in [Budgets -> Nat]
  BY <1>0, <1>1, <1>2, <1>3
<1>7. QED
  BY <1>0, <1>5, <1>6

LEMMA ConcludeStep ==
    ASSUME OutboundInv, NEW i \in Events, NEW o \in {"delivered", "failed"}, Conclude(i, o)
    PROVE  BudgetStep /\ silent' \in [Budgets -> Nat]
<1> DEFINE r == ledger[i]
           b == <<r.entity, r.key[2]>>
<1>1. /\ points \in [Budgets -> Int] /\ strain \in [Budgets -> Nat]
      /\ silent \in [Budgets -> Nat] /\ r \in Reservation /\ DebtWithinCost
  BY DEF OutboundInv, OutboundTypeOK
<1>2. r.key \in Mails \X Addresses /\ r.entity \in Entities
  BY <1>1, OutboundAssumption DEF OutboundAssumption, Reservation
<1>3. b \in Budgets
  BY <1>2 DEF Budgets
<1>4. CASE points' = points /\ strain' = strain
  <2>1. \/ silent' = silent
        \/ silent' = [silent EXCEPT ![b] = @ + 1]
    BY <1>4, Zenon DEF Conclude
  <2>2. silent' \in [Budgets -> Nat]
    BY <1>1, <1>3, <2>1
  <2>3. QED
    BY <1>4, <2>2 DEF BudgetStep
<1>5. CASE /\ points' = [points EXCEPT ![b] = Least(MaxPoints, @ + r.cost)]
           /\ strain' = [strain EXCEPT ![b] = AtLeastZero(@ - r.debt)]
           /\ silent' = silent
  <2>1. r.cost \in Nat /\ r.debt \in Nat /\ r.debt <= r.cost /\ 0 \in Nat
    BY <1>1 DEF Reservation, DebtWithinCost
  <2> HIDE DEF b, r
  <2>2. Refunded(points[b], strain[b], points'[b], strain'[b], r.cost, r.debt)
    BY <1>1, <1>3, <1>5 DEF Refunded
  <2>3. At(b)
    BY <1>1, <1>3, <1>5, <2>1, <2>2 DEF At, Moves
  <2>4. QED
    BY <1>1, <1>3, <1>5, <2>3 DEF BudgetStep
<1>6. QED
  BY <1>4, <1>5, Zenon DEF Conclude

LEMMA BudgetStays ==
    ASSUME OutboundInv, [OutboundNext]_outboundVars
    PROVE  BudgetStep /\ silent' \in [Budgets -> Nat] /\ gained' \in [Budgets -> Nat]
<1>0. silent \in [Budgets -> Nat] /\ gained \in [Budgets -> Nat] /\ Ticketed
  BY DEF OutboundInv, OutboundTypeOK
<1>1. CASE Still
  BY <1>0, <1>1 DEF Still, BudgetStep
<1>2. ASSUME NEW w \in Senders, ReserveReply(w)
      PROVE points' = points /\ strain' = strain /\ silent' = silent /\ gained' = gained
  BY <1>2 DEF ReserveReply, budgetVars
<1>3. ASSUME NEW w \in Senders, Charge(w)
      PROVE BudgetStep /\ silent' = silent /\ gained' \in [Budgets -> Nat]
  <2>1. silent' = silent
    BY <1>3 DEF Charge
  <2>2. QED
    BY <1>3, <2>1, ChargeStep DEF BudgetStep
<1>4. ASSUME NEW w \in Senders, Deny(w)
      PROVE BudgetStep /\ silent' = silent /\ gained' \in [Budgets -> Nat]
  <2>1. silent' = silent
    BY <1>4 DEF Deny
  <2>2. QED
    BY <1>4, <2>1, DenyStep DEF BudgetStep
<1>5. ASSUME NEW w \in Senders, Finalize(w)
      PROVE BudgetStep /\ silent' \in [Budgets -> Nat] /\ gained' = gained
  <2>1. gained' = gained
    BY <1>5 DEF Finalize
  <2>2. ticket[w] \in Events /\ \E o \in {"delivered", "failed"} : Conclude(ticket[w], o)
    BY <1>0, <1>5 DEF Finalize, Ticketed
  <2>3. QED
    BY <2>1, <2>2, ConcludeStep
<1>6. ASSUME NEW a \in Addresses, Credit(a)
      PROVE /\ BudgetStep /\ silent' \in [Budgets -> Nat] /\ gained' \in [Budgets -> Nat]
  BY <1>6, CreditStep DEF BudgetStep
<1>7. QED
  BY <1>0, <1>1, <1>2, <1>3, <1>4, <1>5, <1>6, Booked DEF Booking, BudgetStep
-----------------------------------------------------------------------------
LEMMA BarsStep == ASSUME OutboundInv, [OutboundNext]_outboundVars PROVE BarsBind'
<1>0. SenderType /\ ControlType /\ BarsBind
  BY DEF OutboundInv, OutboundTypeOK, SenderType, ControlType
<1>1. ASSUME NEW w \in Senders, Sending(w) PROVE BarsBind'
  <2>1. ASSUME NEW k \in Keys, Clear(w, k) PROVE BarsBind'
    <3>1. /\ UNCHANGED <<stopped, suspended, underway>>
          /\ task'[w] = <<k, EntityOf(k[2])>> /\ ~Barred(EntityOf(k[2]))
          /\ \A v \in Senders : v # w => stage'[v] = stage[v] /\ task'[v] = task[v]
      BY <1>0, <2>1 DEF Clear, controlVars, SenderType
    <3>2. QED
      BY <1>0, <3>1 DEF BarsBind, Barred, EntityAt
  <2>2. ASSUME /\ UNCHANGED <<stopped, suspended, underway, task>>
               /\ \A v \in Senders : stage'[v] \in {"cleared", "sending"}
                                       => stage[v] \in {"cleared", "sending"}
        PROVE BarsBind'
    BY <1>0, <2>2 DEF BarsBind, Barred, EntityAt
  <2>3. ASSUME NEW k \in Keys, Refuse(w, k) PROVE BarsBind'
    BY <2>2, <2>3 DEF Refuse, controlVars, senderVars
  <2>4. CASE Reuse(w) \/ Send(w) \/ SendFails(w)
    BY <1>0, <2>2, <2>4 DEF Reuse, Send, SendFails, controlVars, SenderType
  <2>5. CASE ReserveReply(w) \/ Charge(w)
    <3>1. /\ UNCHANGED <<stopped, suspended, underway, task>>
          /\ stage[w] = "cleared"
          /\ \E c, d : Reserve(w, c, d)
      BY <2>5, Zenon DEF ReserveReply, Charge, controlVars
    <3>2. stage' = [stage EXCEPT ![w] = "sending"]
      BY <3>1 DEF Reserve
    <3>3. QED
      BY <1>0, <2>2, <3>1, <3>2 DEF SenderType
  <2>6. CASE Deny(w) \/ Finalize(w) \/ FinalizeFails(w) \/ SenderDies(w)
    <3>1. GoIdle(w)
      BY <2>6 DEF Deny, Finalize, FinalizeFails, SenderDies
    <3>2. /\ UNCHANGED <<stopped, suspended, task>>
          /\ stage'[w] = "idle"
          /\ \A v \in Senders : v # w => stage'[v] = stage[v]
          /\ \A e \in Entities : underway'[e] = underway[e] \ {w}
      BY <1>0, <3>1 DEF GoIdle, SenderType
    <3>3. \A v \in Senders : task[v][2] \in Entities
      BY <1>0 DEF SenderType
    <3>4. QED
      BY <1>0, <3>2, <3>3 DEF BarsBind, Barred, EntityAt
  <2>7. QED
    BY <1>1, <2>1, <2>3, <2>4, <2>5, <2>6 DEF Sending
<1>2. ASSUME /\ UNCHANGED <<stage, task>>
             /\ \A e \in Entities : Barred(e)' =>
                   \/ Barred(e) /\ underway'[e] = underway[e]
                   \/ underway'[e] = Past(e)
      PROVE BarsBind'
  <2>1. \A v \in Senders : EntityAt(v) \in Entities /\ EntityAt(v)' = EntityAt(v)
    BY <1>0, <1>2 DEF SenderType, EntityAt
  <2>2. QED
    BY <1>0, <1>2, <2>1 DEF BarsBind, Past
<1>3. ASSUME NEW a \in Addresses, Hear(a) PROVE BarsBind'
  BY <1>2, <1>3 DEF Hear, Control, senderVars, controlVars, Barred
<1>4. ASSUME NEW a \in Addresses, Stop(a) PROVE BarsBind'
  <2>1. EntityOf(a) \in Entities
    BY DEF EntityOf, Entities
  <2>2. /\ UNCHANGED <<stage, task, suspended>>
        /\ stopped' = stopped \cup {EntityOf(a)}
        /\ underway' = IF Barred(EntityOf(a)) THEN underway
                       ELSE [underway EXCEPT ![EntityOf(a)] = Past(EntityOf(a))]
    BY <1>4 DEF Stop, Control, senderVars
  <2>3. \A e \in Entities : e # EntityOf(a) =>
          Barred(e)' = Barred(e) /\ underway'[e] = underway[e]
    BY <1>0, <2>1, <2>2 DEF Barred, ControlType
  <2>4. \/ Barred(EntityOf(a)) /\ underway' = underway
        \/ underway'[EntityOf(a)] = Past(EntityOf(a))
    BY <1>0, <2>1, <2>2 DEF ControlType
  <2>5. QED
    BY <1>2, <2>2, <2>3, <2>4
<1>5. ASSUME NEW a \in Addresses, Restart(a) PROVE BarsBind'
  BY <1>2, <1>5 DEF Restart, Control, senderVars, Barred
<1>6. ASSUME NEW x \in Entities \cup {"all"}, Suspend(x) PROVE BarsBind'
  <2>1. /\ UNCHANGED <<stage, task, stopped>>
        /\ suspended' = suspended \cup {x}
        /\ underway' = [e \in Entities |-> IF Barred(e) \/ x \notin {e, "all"}
                                           THEN underway[e] ELSE Past(e)]
    BY <1>6 DEF Suspend, Control, senderVars
  <2>2. ASSUME NEW e \in Entities, Barred(e)'
        PROVE  \/ Barred(e) /\ underway'[e] = underway[e]
               \/ underway'[e] = Past(e)
    BY <2>1, <2>2 DEF Barred
  <2>3. QED
    BY <1>2, <2>1, <2>2
<1>7. ASSUME NEW x \in Entities \cup {"all"}, Resume(x) PROVE BarsBind'
  BY <1>2, <1>7 DEF Resume, Control, senderVars, Barred
<1>8. CASE Link
  BY <1>2, <1>8 DEF Link, senderVars, controlVars, Barred
<1>9. CASE UNCHANGED outboundVars
  BY <1>2, <1>9 DEF outboundVars, Barred
<1>10. QED
  BY <1>1, <1>3, <1>4, <1>5, <1>6, <1>7, <1>8, <1>9, Split DEF Controlled
-----------------------------------------------------------------------------
LEMMA OutboundInductive == ASSUME OutboundInv, [OutboundNext]_outboundVars PROVE OutboundInv'
<1>1. SenderType' /\ Ticketed' /\ ControlType' /\ BoundType'
  BY SenderTypes, ControlTypes, BoundTypes
<1>2. LedgerType' /\ DebtWithinCost' /\ OneReservation'
  BY LedgerStep
<1>3. BudgetType' /\ StrainCoversDebt'
  <2>1. BudgetStep /\ silent' \in [Budgets -> Nat] /\ gained' \in [Budgets -> Nat]
    BY BudgetStays
  <2>2. CASE points' = points /\ strain' = strain
    BY <2>1, <2>2 DEF OutboundInv, OutboundTypeOK, BudgetType, StrainCoversDebt
  <2>3. CASE \E b \in Budgets : At(b)
    BY <2>1, <2>3, OneMoves DEF BudgetType
  <2>4. QED
    BY <2>1, <2>2, <2>3 DEF BudgetStep
<1>4. OutboundTypeOK'
  BY <1>1, <1>2, <1>3
  DEF OutboundTypeOK, SenderType, ControlType, BudgetType, LedgerType, BoundType
<1>5. QED
  BY <1>1, <1>2, <1>3, <1>4, BarsStep DEF OutboundInv

LEMMA Invariance == OutboundSpec => []OutboundInv
<1>1. OutboundInv /\ [OutboundNext]_outboundVars => OutboundInv'
  BY OutboundInductive
<1>2. QED
  BY OutboundInitInv, <1>1, PTL DEF OutboundSpec

\* Every variable keeps its type: budgets stay numbers however charges and
\* refunds are reordered, and every reservation names a real entity.
THEOREM OutboundTypeCorrect == OutboundSpec => []OutboundTypeOK
<1>1. OutboundInv => OutboundTypeOK
  BY DEF OutboundInv
<1>2. QED
  BY Invariance, <1>1, PTL

\* authorize_outbound: no sender passes the controls of a stopped or suspended
\* entity, by a new reservation or an old one.
THEOREM ControlsBind == OutboundSpec => []BarsBind
<1>1. OutboundInv => BarsBind
  BY DEF OutboundInv
<1>2. QED
  BY Invariance, <1>1, PTL

\* authorize_outbound: retries of one message share one open reservation.
THEOREM ReservedOnce == OutboundSpec => []OneReservation
<1>1. OutboundInv => OneReservation
  BY DEF OutboundInv
<1>2. QED
  BY Invariance, <1>1, PTL

\* contact_budgets: whatever the order of charges, refunds and credits, a
\* budget below zero has strain enough to keep all but urgent sends out.
THEOREM DebtIsStrain == OutboundSpec => []StrainCoversDebt
<1>1. OutboundInv => StrainCoversDebt
  BY DEF OutboundInv
<1>2. QED
  BY Invariance, <1>1, PTL
-----------------------------------------------------------------------------
(* Sums of costs over sets of reservations.                                *)
Smaller == {p \in Nat \X Nat : p[1] < p[2]}

\* Induction, stated with a set of numbers for the provers' sake.
LEMMA Induction ==
    ASSUME NEW T \in SUBSET Nat,
           \A n \in Nat : (\A m \in Nat : m < n => m \in T) => n \in T
    PROVE  \A n \in Nat : n \in T
<1>1. IsWellFoundedOn(Smaller, Nat)
  BY NatLessThanWellFounded DEF OpToRel, Smaller
<1>2. ASSUME NEW n \in Nat \ T PROVE FALSE
  <2>1. PICK k \in Nat \ T : \A m \in Nat \ T : <<m, k>> \notin Smaller
    BY <1>1, <1>2, WFMin
  <2>2. ASSUME NEW m \in Nat \ T PROVE ~(m < k)
    <3>1. <<m, k>> \notin Smaller
      BY <2>1, <2>2
    <3>2. <<m, k>> \in Nat \X Nat /\ <<m, k>>[1] = m /\ <<m, k>>[2] = k
      BY <2>1, <2>2
    <3>3. QED
      BY <3>1, <3>2 DEF Smaller
  <2>3. QED
    BY <2>1, <2>2
<1>3. QED
  BY <1>2

\* The iterations of MapThenSumSet over the subsets of S, for costs c.
First(s) == CHOOSE x \in s : TRUE
Iterates(f, c, S) ==
    f = [s \in SUBSET S |-> IF s = {} THEN 0 ELSE c[First(s)].cost + f[s \ {First(s)}]]
SumOver(c, S) == (CHOOSE f : Iterates(f, c, S))[S]

LEMMA Unfold == ASSUME NEW c, NEW S PROVE MapThenSumSet(LAMBDA i : c[i].cost, S) = SumOver(c, S)
BY DEF MapThenSumSet, MapThenFoldSet, SumOver, Iterates, First

LEMMA Rest ==
    ASSUME NEW s, IsFiniteSet(s), s # {}
    PROVE  /\ First(s) \in s /\ IsFiniteSet(s \ {First(s)})
           /\ Cardinality(s) \in Nat /\ Cardinality(s \ {First(s)}) \in Nat
           /\ Cardinality(s \ {First(s)}) < Cardinality(s)
<1>1. First(s) \in s
  BY DEF First
<1>2. IsFiniteSet(s \ {First(s)}) /\ Cardinality(s \ {First(s)}) = Cardinality(s) - 1
  BY <1>1, FS_RemoveElement
<1>3. QED
  BY <1>1, <1>2, FS_CardinalityType

\* The value at a set depends only on the costs of its members.
LEMMA Agreement ==
    ASSUME NEW c, NEW d, NEW S, NEW R, NEW f, NEW g, Iterates(f, c, S), Iterates(g, d, R),
           NEW s \in SUBSET (S \cap R), IsFiniteSet(s), \A x \in s : c[x].cost = d[x].cost
    PROVE  f[s] = g[s]
<1> DEFINE T == {n \in Nat : \A r \in SUBSET s :
                     IsFiniteSet(r) /\ Cardinality(r) = n => f[r] = g[r]}
<1>1. ASSUME NEW n \in Nat, \A m \in Nat : m < n => m \in T PROVE n \in T
  <2> SUFFICES ASSUME NEW r \in SUBSET s, IsFiniteSet(r), Cardinality(r) = n PROVE f[r] = g[r]
    OBVIOUS
  <2>1. r \in SUBSET S /\ r \in SUBSET R
    OBVIOUS
  <2>2. CASE r = {}
    BY <2>1, <2>2 DEF Iterates
  <2>3. CASE r # {}
    <3> DEFINE x == First(r)
               q == r \ {x}
    <3>1. x \in r /\ IsFiniteSet(q) /\ Cardinality(q) \in Nat /\ Cardinality(q) < n
      BY <2>3, Rest
    <3>2. f[q] = g[q]
      BY <1>1, <3>1
    <3>3. c[x].cost = d[x].cost
      BY <3>1
    <3>4. f[r] = c[x].cost + f[q] /\ g[r] = d[x].cost + g[q]
      BY <2>1, <2>3 DEF Iterates
    <3>5. QED
      BY <3>2, <3>3, <3>4
  <2>4. QED
    BY <2>2, <2>3
<1>2. \A n \in Nat : n \in T
  <2> HIDE DEF T
  <2>1. T \in SUBSET Nat
    BY DEF T
  <2>2. QED
    BY <1>1, <2>1, Induction
<1>3. Cardinality(s) \in T
  BY <1>2, FS_CardinalityType
<1>4. QED
  BY <1>3

\* MapThenSumSet is well defined on finite sets.
LEMMA Iteration ==
    ASSUME NEW c, NEW S, IsFiniteSet(S)
    PROVE  Iterates(CHOOSE f : Iterates(f, c, S), c, S)
<1> DEFINE T == {n \in Nat : \A r \in SUBSET S :
                     IsFiniteSet(r) /\ Cardinality(r) = n => \E f : Iterates(f, c, r)}
<1>1. ASSUME NEW n \in Nat, \A m \in Nat : m < n => m \in T PROVE n \in T
  <2> SUFFICES ASSUME NEW r \in SUBSET S, IsFiniteSet(r), Cardinality(r) = n
               PROVE  \E f : Iterates(f, c, r)
    OBVIOUS
  <2> DEFINE Rec(s) == IF s = {} THEN 0 ELSE c[First(s)].cost + SumOver(c, s \ {First(s)})
             f == [s \in SUBSET r |-> Rec(s)]
  <2>1. ASSUME NEW s \in SUBSET r, s # {} PROVE f[s \ {First(s)}] = SumOver(c, s \ {First(s)})
    <3> DEFINE q == s \ {First(s)}
               h == CHOOSE g : Iterates(g, c, q)
    <3>1. /\ First(s) \in s /\ IsFiniteSet(q) /\ q \in SUBSET S /\ q \in SUBSET r
          /\ Cardinality(q) \in Nat /\ Cardinality(q) < n
      <4>1. IsFiniteSet(s) /\ Cardinality(s) <= n
        BY FS_Subset
      <4>2. QED
        BY <2>1, <4>1, Rest, FS_CardinalityType
    <3>2. Iterates(h, c, q)
      BY <1>1, <3>1
    <3>3. h[q] = Rec(q)
      <4>1. CASE q = {}
        BY <3>2, <4>1 DEF Iterates
      <4>2. CASE q # {}
        <5> DEFINE y == First(q)
                   p == q \ {y}
                   k == CHOOSE g : Iterates(g, c, p)
        <5>1. y \in q /\ IsFiniteSet(p) /\ p \in SUBSET S /\ Cardinality(p) \in Nat
              /\ Cardinality(p) < n
          BY <3>1, <4>2, Rest
        <5>2. Iterates(k, c, p)
          BY <1>1, <5>1
        <5>3. h[p] = k[p]
          BY <3>2, <5>1, <5>2, Agreement
        <5>4. h[q] = c[y].cost + h[p]
          BY <3>2, <4>2 DEF Iterates
        <5>5. QED
          BY <4>2, <5>3, <5>4 DEF SumOver
      <4>3. QED
        BY <4>1, <4>2
    <3>4. QED
      BY <3>1, <3>3 DEF SumOver
  <2>2. Iterates(f, c, r)
    BY <2>1 DEF Iterates
  <2>3. QED
    BY <2>2
<1>2. \A n \in Nat : n \in T
  <2> HIDE DEF T
  <2>1. T \in SUBSET Nat
    BY DEF T
  <2>2. QED
    BY <1>1, <2>1, Induction
<1>3. Cardinality(S) \in T
  BY <1>2, FS_CardinalityType
<1>4. QED
  BY <1>3

LEMMA SumRest ==
    ASSUME NEW c, NEW s, IsFiniteSet(s)
    PROVE  SumOver(c, s) = IF s = {} THEN 0 ELSE c[First(s)].cost + SumOver(c, s \ {First(s)})
<1> DEFINE q == s \ {First(s)}
           f == CHOOSE g : Iterates(g, c, s)
           h == CHOOSE g : Iterates(g, c, q)
<1>1. Iterates(f, c, s)
  BY Iteration
<1>2. CASE s = {}
  BY <1>1, <1>2 DEF Iterates, SumOver
<1>3. CASE s # {}
  <2>1. IsFiniteSet(q)
    BY <1>3, Rest
  <2>2. Iterates(h, c, q)
    BY <2>1, Iteration
  <2>3. f[q] = h[q]
    BY <1>1, <2>1, <2>2, Agreement
  <2>4. f[s] = c[First(s)].cost + f[q]
    BY <1>1, <1>3 DEF Iterates
  <2>5. QED
    BY <1>3, <2>3, <2>4 DEF SumOver
<1>4. QED
  BY <1>2, <1>3

LEMMA SumAgrees ==
    ASSUME NEW c, NEW d, NEW s, IsFiniteSet(s), \A x \in s : c[x].cost = d[x].cost
    PROVE  SumOver(c, s) = SumOver(d, s)
BY Iteration, Agreement DEF SumOver

\* A sum of integers is one, and a member more adds its cost.
LEMMA SumAdds ==
    ASSUME NEW c, NEW S, IsFiniteSet(S), \A x \in S : c[x].cost \in Int
    PROVE  /\ \A s \in SUBSET S : SumOver(c, s) \in Int
           /\ \A s \in SUBSET S : \A i \in S \ s : SumOver(c, s \cup {i}) = SumOver(c, s) + c[i].cost
<1> DEFINE T == {n \in Nat : \A s \in SUBSET S : IsFiniteSet(s) /\ Cardinality(s) = n =>
                     /\ SumOver(c, s) \in Int
                     /\ \A i \in s : SumOver(c, s) = SumOver(c, s \ {i}) + c[i].cost}
<1>1. ASSUME NEW n \in Nat, \A m \in Nat : m < n => m \in T PROVE n \in T
  <2> SUFFICES ASSUME NEW s \in SUBSET S, IsFiniteSet(s), Cardinality(s) = n
               PROVE  /\ SumOver(c, s) \in Int
                      /\ \A i \in s : SumOver(c, s) = SumOver(c, s \ {i}) + c[i].cost
    OBVIOUS
  <2> DEFINE x == First(s)
             q == s \ {x}
  <2>1. CASE s = {}
    <3>1. SumOver(c, s) = 0
      BY <2>1, SumRest
    <3>2. QED
      BY <2>1, <3>1
  <2>2. CASE s # {}
    <3>1. x \in s /\ IsFiniteSet(q) /\ Cardinality(q) \in Nat /\ Cardinality(q) < n
      BY <2>2, Rest
    <3>2. SumOver(c, q) \in Int /\ \A i \in q : SumOver(c, q) = SumOver(c, q \ {i}) + c[i].cost
      BY <1>1, <3>1
    <3>3. SumOver(c, s) = c[x].cost + SumOver(c, q) /\ c[x].cost \in Int
      BY <2>2, <3>1, SumRest
    <3>4. ASSUME NEW i \in s, i # x PROVE SumOver(c, s) = SumOver(c, s \ {i}) + c[i].cost
      <4> DEFINE r == s \ {i}
                 p == q \ {i}
      <4>1. SumOver(c, q) = SumOver(c, p) + c[i].cost /\ c[i].cost \in Int
        BY <3>2, <3>4
      <4>2. IsFiniteSet(r) /\ IsFiniteSet(p) /\ Cardinality(r) \in Nat /\ Cardinality(r) < n
            /\ Cardinality(p) \in Nat /\ Cardinality(p) < n
        <5>1. Cardinality(r) = n - 1 /\ IsFiniteSet(r)
          BY <3>4, FS_RemoveElement
        <5>2. Cardinality(p) = Cardinality(q) - 1 /\ IsFiniteSet(p)
          BY <3>1, <3>4, FS_RemoveElement
        <5>3. QED
          BY <3>1, <5>1, <5>2, FS_CardinalityType
      <4>3. SumOver(c, p) \in Int /\ \A k \in r : SumOver(c, r) = SumOver(c, r \ {k}) + c[k].cost
        BY <1>1, <4>2
      <4>4. p = r \ {x} /\ x \in r
        BY <3>1, <3>4
      <4>5. SumOver(c, r) = SumOver(c, p) + c[x].cost
        BY <4>3, <4>4
      <4>6. QED
        BY <3>3, <4>1, <4>3, <4>5
    <3>5. SumOver(c, s) \in Int
      BY <3>2, <3>3
    <3>6. SumOver(c, s) = SumOver(c, s \ {x}) + c[x].cost
      BY <3>2, <3>3
    <3>7. QED
      BY <3>4, <3>5, <3>6
  <2>3. QED
    BY <2>1, <2>2
<1>2. \A n \in Nat : n \in T
  <2> HIDE DEF T
  <2>1. T \in SUBSET Nat
    BY DEF T
  <2>2. QED
    BY <1>1, <2>1, Induction
<1>3. ASSUME NEW s \in SUBSET S
      PROVE  /\ SumOver(c, s) \in Int
             /\ \A i \in s : SumOver(c, s) = SumOver(c, s \ {i}) + c[i].cost
  <2>1. IsFiniteSet(s) /\ Cardinality(s) \in Nat
    BY FS_Subset, FS_CardinalityType
  <2>2. QED
    BY <1>2, <2>1
<1>4. ASSUME NEW s \in SUBSET S, NEW i \in S \ s
      PROVE  SumOver(c, s \cup {i}) = SumOver(c, s) + c[i].cost
  <2>1. (s \cup {i}) \in SUBSET S /\ (s \cup {i}) \ {i} = s
    BY <1>4
  <2>2. QED
    BY <1>3, <2>1
<1>5. QED
  BY <1>3, <1>4
-----------------------------------------------------------------------------
(* What a budget was charged for, and what is left.                        *)
Counted(c, b) == {i \in Events : /\ c[i].status \in {"authorized", "delivered"}
                                 /\ <<c[i].entity, c[i].key[2]>> = b}
Spent(c, b) == SumOver(c, Counted(c, b))
Backed == \A b \in Budgets : points[b] + Spent(ledger, b) <= MaxPoints + gained[b]

LEMMA BackedIsNothingFree == Backed <=> NothingFree
BY DEF Backed, NothingFree, MapThenSumSet, MapThenFoldSet, Spent, SumOver, Iterates, First, Counted

LEMMA EventsFinite == IsFiniteSet(Events)
<1>1. MaxEvents \in Nat
  BY OutboundAssumption DEF OutboundAssumption
<1>2. QED
  BY <1>1, FS_Interval DEF Events

\* A change of one reservation moves a sum by what this one counts for.
Part(c, i, b) == IF i \in Counted(c, b) THEN c[i].cost ELSE 0

LEMMA SpentMoves ==
    ASSUME NEW c \in [Events -> Reservation], NEW d \in [Events -> Reservation],
           NEW i \in Events, \A j \in Events \ {i} : d[j] = c[j], NEW b \in Budgets
    PROVE  /\ Spent(c, b) \in Int /\ Spent(d, b) \in Int
           /\ Spent(d, b) = Spent(c, b) - Part(c, i, b) + Part(d, i, b)
<1>1. IsFiniteSet(Events)
  BY EventsFinite
<1>2. \A j \in Events : c[j].cost \in Int /\ d[j].cost \in Int
  BY DEF Reservation
<1> DEFINE s == Counted(c, b) \ {i}
<1>3. s \in SUBSET Events /\ IsFiniteSet(s) /\ i \notin s
  BY <1>1, FS_Subset DEF Counted
<1>4. s = Counted(d, b) \ {i}
  BY DEF Counted
<1>5. SumOver(c, s) = SumOver(d, s)
  BY <1>3, SumAgrees
<1>6. /\ SumOver(c, s) \in Int /\ SumOver(c, s \cup {i}) = SumOver(c, s) + c[i].cost
      /\ SumOver(d, s) \in Int /\ SumOver(d, s \cup {i}) = SumOver(d, s) + d[i].cost
  <2> HIDE DEF s
  <2>1. /\ \A t \in SUBSET Events : SumOver(c, t) \in Int
        /\ \A t \in SUBSET Events : \A j \in Events \ t :
               SumOver(c, t \cup {j}) = SumOver(c, t) + c[j].cost
    BY <1>1, <1>2, SumAdds
  <2>2. /\ \A t \in SUBSET Events : SumOver(d, t) \in Int
        /\ \A t \in SUBSET Events : \A j \in Events \ t :
               SumOver(d, t \cup {j}) = SumOver(d, t) + d[j].cost
    BY <1>1, <1>2, SumAdds
  <2>3. QED
    BY <1>3, <2>1, <2>2
<1>7. Spent(c, b) = SumOver(c, s) + Part(c, i, b)
  <2>1. CASE i \in Counted(c, b)
    <3>1. Counted(c, b) = s \cup {i}
      BY <2>1
    <3>2. QED
      BY <1>6, <2>1, <3>1 DEF Spent, Part
  <2>2. CASE i \notin Counted(c, b)
    <3>1. Counted(c, b) = s
      BY <2>2
    <3>2. QED
      BY <1>6, <2>2, <3>1 DEF Spent, Part
  <2>3. QED
    BY <2>1, <2>2
<1>8. Spent(d, b) = SumOver(d, s) + Part(d, i, b)
  <2>1. CASE i \in Counted(d, b)
    <3>1. Counted(d, b) = s \cup {i}
      BY <1>4, <2>1
    <3>2. QED
      BY <1>6, <2>1, <3>1 DEF Spent, Part
  <2>2. CASE i \notin Counted(d, b)
    <3>1. Counted(d, b) = s
      BY <1>4, <2>2
    <3>2. QED
      BY <1>6, <2>2, <3>1 DEF Spent, Part
  <2>3. QED
    BY <2>1, <2>2
<1>9. Part(c, i, b) \in Int /\ Part(d, i, b) \in Int
  BY <1>2 DEF Part
<1> HIDE DEF s
<1>10. QED
  BY <1>5, <1>6, <1>7, <1>8, <1>9

\* A reservation is charged to the budget of its sender.
LEMMA ReserveSpends ==
    ASSUME OutboundInv, NEW w \in Senders, NEW c \in Nat, NEW d \in Nat, Reserve(w, c, d),
           NEW b \in Budgets
    PROVE  /\ Spent(ledger, b) \in Int
           /\ Spent(ledger', b) = Spent(ledger, b) + IF b = BudgetAt(w) THEN c ELSE 0
<1>1. ledger \in [Events -> Reservation] /\ SenderType
  BY DEF OutboundInv, OutboundTypeOK, SenderType
<1>2. PICK i \in Events : /\ ledger[i].status = "none"
                          /\ ledger' = [ledger EXCEPT ![i] = [key |-> KeyOf(w),
                                entity |-> EntityAt(w), status |-> "authorized",
                                cost |-> c, debt |-> d]]
  BY DEF Reserve
<1>3. KeyOf(w) \in Keys /\ EntityAt(w) \in Entities
  BY <1>1 DEF SenderType, KeyOf, EntityAt
<1>4. ledger' \in [Events -> Reservation] /\ \A j \in Events \ {i} : ledger'[j] = ledger[j]
  BY <1>1, <1>2, <1>3 DEF Reservation, Status
<1>5. /\ ledger'[i].status = "authorized" /\ ledger'[i].cost = c
      /\ ledger'[i].entity = EntityAt(w) /\ ledger'[i].key = KeyOf(w)
  BY <1>1, <1>2
<1>6. Part(ledger, i, b) = 0
  BY <1>2 DEF Part, Counted
<1>7. Part(ledger', i, b) = IF b = BudgetAt(w) THEN c ELSE 0
  BY <1>5 DEF Part, Counted, BudgetAt, AddressAt
<1>8. /\ Spent(ledger, b) \in Int
      /\ Spent(ledger', b) = Spent(ledger, b) - Part(ledger, i, b) + Part(ledger', i, b)
  BY <1>1, <1>4, SpentMoves
<1>9. QED
  BY <1>6, <1>7, <1>8

LEMMA ChargeBacked == ASSUME OutboundInv, Backed, NEW w \in Senders, Charge(w) PROVE Backed'
<1> DEFINE b == BudgetAt(w)
           D(c, g) == Least(c, Debt(Least(MaxPoints, points[b] + g) - c))
<1>0. b \in Budgets
  BY SenderBudget
<1>1. points \in [Budgets -> Int] /\ gained \in [Budgets -> Nat]
  BY DEF OutboundInv, OutboundTypeOK
<1>2. Gains \subseteq Nat /\ Costs \subseteq Nat /\ MaxPoints \in Nat
  BY OutboundAssumption DEF OutboundAssumption
<1>3. PICK g \in Gains : \E c \in Costs :
        /\ points' = [points EXCEPT ![b] = Least(MaxPoints, points[b] + g) - c]
        /\ gained' = [gained EXCEPT ![b] = @ + g]
        /\ Reserve(w, c, D(c, g))
  BY Zenon DEF Charge
<1>4. PICK c \in Costs :
        /\ points' = [points EXCEPT ![b] = Least(MaxPoints, points[b] + g) - c]
        /\ gained' = [gained EXCEPT ![b] = @ + g]
        /\ Reserve(w, c, D(c, g))
  BY <1>3
<1>5. g \in Nat /\ c \in Nat /\ points[b] \in Int /\ gained[b] \in Nat
  BY <1>0, <1>1, <1>2
<1>6. D(c, g) \in Nat
  BY <1>2, <1>5 DEF Least, Debt, AtLeastZero
<1>7. \A a \in Budgets : /\ Spent(ledger, a) \in Int
                         /\ Spent(ledger', a) = Spent(ledger, a) + IF a = b THEN c ELSE 0
  BY <1>4, <1>5, <1>6, ReserveSpends
<1> HIDE DEF b, D
<1>8. ASSUME NEW a \in Budgets PROVE points'[a] + Spent(ledger', a) <= MaxPoints + gained'[a]
  <2>1. points[a] + Spent(ledger, a) <= MaxPoints + gained[a] /\ points[a] \in Int
        /\ Spent(ledger, a) \in Int /\ gained[a] \in Nat
    BY <1>1, <1>7 DEF Backed
  <2>2. CASE a = b
    <3>1. /\ points'[a] = Least(MaxPoints, points[a] + g) - c /\ gained'[a] = gained[a] + g
          /\ Spent(ledger', a) = Spent(ledger, a) + c
      BY <1>0, <1>1, <1>4, <1>7, <2>2
    <3>2. QED
      BY <1>2, <1>5, <2>1, <3>1 DEF Least
  <2>3. CASE a # b
    BY <1>1, <1>4, <1>7, <2>1, <2>3
  <2>4. QED
    BY <2>2, <2>3
<1>9. QED
  BY <1>8 DEF Backed

\* Regeneration and credits put no more into a budget than is put on record.
LEMMA GainBacked ==
    ASSUME OutboundInv, Backed, ledger' = ledger, NEW b \in Budgets, NEW g \in Gains,
           points' = [points EXCEPT ![b] = Least(MaxPoints, points[b] + g)],
           gained' = [gained EXCEPT ![b] = @ + g]
    PROVE  Backed'
<1>1. /\ points \in [Budgets -> Int] /\ gained \in [Budgets -> Nat]
      /\ ledger \in [Events -> Reservation]
  BY DEF OutboundInv, OutboundTypeOK
<1>2. g \in Nat /\ MaxPoints \in Nat
  BY OutboundAssumption DEF OutboundAssumption
<1>3. ASSUME NEW a \in Budgets PROVE points'[a] + Spent(ledger', a) <= MaxPoints + gained'[a]
  <2>1. Spent(ledger, a) \in Int
    <3>1. \A j \in Events : ledger[j].cost \in Int
      BY <1>1 DEF Reservation
    <3>2. \A t \in SUBSET Events : SumOver(ledger, t) \in Int
      BY <3>1, EventsFinite, SumAdds
    <3>3. QED
      BY <3>2 DEF Spent, Counted
  <2>2. points[a] + Spent(ledger, a) <= MaxPoints + gained[a] /\ points[a] \in Int
        /\ gained[a] \in Nat
    BY <1>1 DEF Backed
  <2>3. CASE a = b
    <3>1. points'[a] = Least(MaxPoints, points[a] + g) /\ gained'[a] = gained[a] + g
      BY <1>1, <2>3
    <3>2. QED
      BY <1>2, <2>1, <2>2, <3>1 DEF Least
  <2>4. CASE a # b
    <3>1. points'[a] = points[a] /\ gained'[a] = gained[a]
      BY <1>1, <2>4
    <3>2. QED
      BY <2>2, <3>1
  <2>5. QED
    BY <2>3, <2>4
<1>4. QED
  BY <1>3 DEF Backed

\* What is refunded is counted no more.
LEMMA ConcludeBacked ==
    ASSUME OutboundInv, Backed, NEW i \in Events, NEW o \in {"delivered", "failed"},
           Conclude(i, o), gained' = gained
    PROVE  Backed'
<1> DEFINE r == ledger[i]
           b == <<r.entity, r.key[2]>>
<1>1. /\ points \in [Budgets -> Int] /\ gained \in [Budgets -> Nat]
      /\ ledger \in [Events -> Reservation] /\ r \in Reservation /\ MaxPoints \in Nat
  BY OutboundAssumption DEF OutboundInv, OutboundTypeOK, OutboundAssumption
<1>2. r.cost \in Nat
  BY <1>1 DEF Reservation
<1>3. b \in Budgets
  <2>1. r.key \in Mails \X Addresses /\ r.entity \in Entities
    BY <1>1, OutboundAssumption DEF OutboundAssumption, Reservation
  <2>2. QED
    BY <2>1 DEF Budgets
<1>4. CASE ledger' = ledger /\ points' = points
  BY <1>4 DEF Backed
<1>5. CASE r.status = "authorized" /\ ledger' = [ledger EXCEPT ![i].status = o]
  <2>1. /\ ledger' \in [Events -> Reservation] /\ \A j \in Events \ {i} : ledger'[j] = ledger[j]
    BY <1>1, <1>5 DEF Reservation, Status
  <2>2. /\ ledger'[i].status = o /\ ledger'[i].cost = r.cost
        /\ ledger'[i].entity = r.entity /\ ledger'[i].key = r.key
    BY <1>1, <1>5 DEF Reservation
  <2>3. ASSUME NEW a \in Budgets
        PROVE  /\ Spent(ledger, a) \in Int
               /\ Spent(ledger', a) = Spent(ledger, a) -
                      IF a = b /\ o = "failed" THEN r.cost ELSE 0
    <3>1. Part(ledger, i, a) = IF a = b THEN r.cost ELSE 0
      BY <1>5 DEF Part, Counted
    <3>2. Part(ledger', i, a) = IF a = b /\ o = "delivered" THEN r.cost ELSE 0
      BY <2>2 DEF Part, Counted
    <3>3. /\ Spent(ledger, a) \in Int
          /\ Spent(ledger', a) = Spent(ledger, a) - Part(ledger, i, a) + Part(ledger', i, a)
      BY <1>1, <2>1, SpentMoves
    <3>4. QED
      BY <1>2, <3>1, <3>2, <3>3
  <2>4. points' = IF o = "failed" THEN [points EXCEPT ![b] = Least(MaxPoints, @ + r.cost)]
                  ELSE points
    BY <1>5 DEF Conclude
  <2> HIDE DEF r, b
  <2>5. ASSUME NEW a \in Budgets PROVE points'[a] + Spent(ledger', a) <= MaxPoints + gained'[a]
    <3>1. points[a] + Spent(ledger, a) <= MaxPoints + gained[a] /\ points[a] \in Int
          /\ gained'[a] = gained[a] /\ gained[a] \in Nat
      BY <1>1 DEF Backed
    <3>2. CASE a = b /\ o = "failed"
      <4>1. points'[a] = Least(MaxPoints, points[a] + r.cost)
        BY <1>1, <1>3, <2>4, <3>2
      <4>2. Spent(ledger', a) = Spent(ledger, a) - r.cost /\ Spent(ledger, a) \in Int
        BY <2>3, <3>2
      <4>3. QED
        BY <1>1, <1>2, <3>1, <4>1, <4>2 DEF Least
    <3>3. CASE ~(a = b /\ o = "failed")
      <4>1. points'[a] = points[a]
        BY <1>1, <2>4, <3>3
      <4>2. Spent(ledger', a) = Spent(ledger, a) - 0 /\ Spent(ledger, a) \in Int
        BY <2>3, <3>3
      <4>3. QED
        BY <3>1, <4>1, <4>2
    <3>4. QED
      BY <3>2, <3>3
  <2>6. QED
    BY <2>5 DEF Backed
<1>6. QED
  BY <1>4, <1>5 DEF Conclude

LEMMA BackedStep == ASSUME OutboundInv, Backed, [OutboundNext]_outboundVars PROVE Backed'
<1>1. CASE Still
  BY <1>1 DEF Still, Backed
<1>2. ASSUME NEW w \in Senders, ReserveReply(w) PROVE Backed'
  <2>1. points' = points /\ gained' = gained /\ Reserve(w, 0, 0)
    BY <1>2 DEF ReserveReply, budgetVars
  <2>2. ASSUME NEW b \in Budgets PROVE points'[b] + Spent(ledger', b) <= MaxPoints + gained'[b]
    <3>1. Spent(ledger', b) = Spent(ledger, b) + 0 /\ Spent(ledger, b) \in Int
      BY <2>1, ReserveSpends
    <3>2. QED
      BY <2>1, <3>1 DEF Backed
  <2>3. QED
    BY <2>2 DEF Backed
<1>3. ASSUME NEW w \in Senders, Charge(w) PROVE Backed'
  BY <1>3, ChargeBacked
<1>4. ASSUME NEW w \in Senders, Deny(w) PROVE Backed'
  <2>1. ledger' = ledger /\ BudgetAt(w) \in Budgets
    BY <1>4, SenderBudget DEF Deny
  <2>2. PICK g \in Gains :
          /\ points' = [points EXCEPT ![BudgetAt(w)] = Least(MaxPoints, points[BudgetAt(w)] + g)]
          /\ gained' = [gained EXCEPT ![BudgetAt(w)] = @ + g]
    BY <1>4, Zenon DEF Deny
  <2>3. QED
    BY <2>1, <2>2, GainBacked
<1>5. ASSUME NEW w \in Senders, Finalize(w) PROVE Backed'
  <2>1. ticket[w] \in Events /\ gained' = gained
        /\ \E o \in {"delivered", "failed"} : Conclude(ticket[w], o)
    BY <1>5 DEF Finalize, OutboundInv, Ticketed
  <2>2. QED
    BY <2>1, ConcludeBacked
<1>6. ASSUME NEW a \in Addresses, Credit(a), ledger' = ledger PROVE Backed'
  <2>1. <<EntityOf(a), a>> \in Budgets /\ points \in [Budgets -> Int]
    BY DEF Budgets, EntityOf, Entities, OutboundInv, OutboundTypeOK
  <2>2. PICK g \in Gains :
          /\ points' = [points EXCEPT ![<<EntityOf(a), a>>] = Least(MaxPoints, @ + g)]
          /\ gained' = [gained EXCEPT ![<<EntityOf(a), a>>] = @ + g]
    BY <1>6, Zenon DEF Credit
  <2>3. points' = [points EXCEPT ![<<EntityOf(a), a>>] =
                      Least(MaxPoints, points[<<EntityOf(a), a>>] + g)]
    BY <2>2
  <2>4. QED
    BY <1>6, <2>1, <2>2, <2>3, GainBacked
<1>7. QED
  BY <1>1, <1>2, <1>3, <1>4, <1>5, <1>6, Booked DEF Booking

LEMMA BackedInit == OutboundInit => Backed
<1> SUFFICES ASSUME OutboundInit PROVE Backed
  OBVIOUS
<1>1. ASSUME NEW b \in Budgets PROVE points[b] + Spent(ledger, b) <= MaxPoints + gained[b]
  <2>1. Counted(ledger, b) = {}
    BY DEF Counted, OutboundInit
  <2>2. Spent(ledger, b) = 0
    <3>1. SumOver(ledger, {}) = 0
      BY SumRest, FS_EmptySet
    <3>2. QED
      BY <2>1, <3>1 DEF Spent
  <2>3. points[b] = MaxPoints /\ gained[b] = 0 /\ MaxPoints \in Nat
    BY OutboundAssumption DEF OutboundInit, OutboundAssumption
  <2>4. QED
    BY <2>2, <2>3
<1>2. QED
  BY <1>1 DEF Backed

\* finalize_outbound and contact_budgets: however retries, crashes, refunds and
\* credits mix, what is left of a budget and what was charged for messages under
\* way or delivered never exceed what there was and what came in.
THEOREM NothingPaidTwice == OutboundSpec => []NothingFree
<1>1. OutboundInv /\ Backed /\ [OutboundNext]_outboundVars => Backed'
  BY BackedStep
<1>2. Backed => NothingFree
  BY BackedIsNothingFree
<1>3. QED
  BY Invariance, BackedInit, <1>1, <1>2, PTL DEF OutboundSpec
=============================================================================
