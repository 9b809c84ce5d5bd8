------------------------------ MODULE Approval ------------------------------
(***************************************************************************)
(* Operator approval: a protected tool call files a request and waits for  *)
(* the operator, who answers with a Slack button, a text carrying the      *)
(* request's code, or a bare "yes" or "no"; loops of the channel workers   *)
(* escalate unanswered requests to iMessage; the answer is consumed by the *)
(* policy check right before the tool runs.                                *)
(*                                                                         *)
(* Requests are numbered in the order of created_at.  Of the clock only    *)
(* "expires_at has passed" is kept.  A waiter's own deadline runs on       *)
(* another clock and may pass at any poll; escalate_after and the two      *)
(* minutes after which an escalation counts as interrupted may have passed *)
(* at any sweep.                                                           *)
(***************************************************************************)
EXTENDS Naturals, FiniteSets

CONSTANTS
    MaxCalls,          \* protected calls of the agents
    ChatCalls,         \* those made in a chat; the others are heartbeats
    Loops,             \* escalation loops, one per channel worker process
    MaxEscalations,    \* operator.approval.max_escalation_attempts
    MaxApprovalFaults  \* bound: failed statements and dead processes

Calls == 1..MaxCalls

ASSUME ApprovalAssumption ==
    /\ {MaxCalls, MaxEscalations, MaxApprovalFaults} \subseteq Nat
    /\ ChatCalls \subseteq Calls

VARIABLES
    request,   \* operator_tool_approval_requests.status
    marked,    \* slack_delivered_at is set
    tries,     \* escalation_attempts
    late,      \* expires_at has passed
    letter,    \* the outbox message with the Slack buttons
    shown,     \* the operator has a message with buttons or a code
    call,      \* where the agent's call stands
    batch,     \* rows an escalation loop has claimed and not begun to send
    hand,      \* the row it is sending
    loopAt,    \* where the loop stands
    plain,     \* a bare decision that has counted one open request
    approvalFaults

requestVars == <<request, marked, tries, late>>
loopVars == <<batch, hand, loopAt>>
approvalVars == <<request, marked, tries, late, letter, shown, call,
                  batch, hand, loopAt, plain, approvalFaults>>

Decidable == {"pending", "slack_delivered", "escalating", "escalated"}
Unanswered == Decidable \cup {"unrouted"}
Decision == {"approved", "denied"}
NoCall == 0

ApprovalTypeOK ==
    /\ request \in [Calls -> Unanswered \cup Decision \cup {"none", "consumed", "expired"}]
    /\ marked \in [Calls -> BOOLEAN]
    /\ tries \in [Calls -> 0..MaxEscalations]
    /\ late \in [Calls -> BOOLEAN]
    /\ letter \in [Calls -> {"none", "queued", "posted", "noted"}]
    /\ shown \in [Calls -> BOOLEAN]
    /\ call \in [Calls -> {"idle", "waiting", "leaving", "granted", "cleared",
                           "ran", "refused", "gone"}]
    /\ batch \in [Loops -> SUBSET Calls]
    /\ hand \in [Loops -> Calls \cup {NoCall}]
    /\ loopAt \in [Loops -> {"idle", "sending", "completing", "failing"}]
    /\ plain \in Decision \cup {"none"}
    /\ approvalFaults \in 0..MaxApprovalFaults

ApprovalInit ==
    /\ request = [c \in Calls |-> "none"]
    /\ marked = [c \in Calls |-> FALSE]
    /\ tries = [c \in Calls |-> 0]
    /\ late = [c \in Calls |-> FALSE]
    /\ letter = [c \in Calls |-> "none"]
    /\ shown = [c \in Calls |-> FALSE]
    /\ call = [c \in Calls |-> "idle"]
    /\ batch = [w \in Loops |-> {}]
    /\ hand = [w \in Loops |-> NoCall]
    /\ loopAt = [w \in Loops |-> "idle"]
    /\ plain = "none"
    /\ approvalFaults = 0

Fault == /\ approvalFaults < MaxApprovalFaults
         /\ approvalFaults' = approvalFaults + 1

Lapsed(c) == IF request[c] \in Unanswered THEN "expired" ELSE request[c]

-----------------------------------------------------------------------------
\* The agent's call.

\* The row and its outbox message are one transaction.  Without an operator on
\* Slack the row is unrouted, nothing is sent and the call is refused at once.
File(c) ==
    /\ call[c] = "idle"
    /\ \A d \in Calls : d < c => call[d] # "idle"
    /\ \/ /\ request' = [request EXCEPT ![c] = "pending"]
          /\ letter' = [letter EXCEPT ![c] = "queued"]
          /\ call' = [call EXCEPT ![c] = "waiting"]
       \/ /\ request' = [request EXCEPT ![c] = "unrouted"]
          /\ call' = [call EXCEPT ![c] = "refused"]
          /\ UNCHANGED letter
    /\ UNCHANGED <<marked, tries, late, shown, loopVars, plain, approvalFaults>>

\* get_operator_tool_approval_status expires a late row before it reads it; a
\* final status ends the wait.
Poll(c) ==
    /\ call[c] = "waiting"
    /\ LET seen == IF late[c] THEN Lapsed(c) ELSE request[c] IN
         /\ seen \notin Unanswered
         /\ request' = [request EXCEPT ![c] = seen]
         /\ call' = [call EXCEPT ![c] = IF seen = "approved" THEN "granted" ELSE "refused"]
    /\ UNCHANGED <<marked, tries, late, letter, shown, loopVars, plain, approvalFaults>>

\* Mutant: the waiter has no deadline of its own.
GiveUp_NoDeadline(c) ==
    /\ call[c] = "waiting"
    /\ late[c]
    /\ request[c] \in Unanswered
    /\ call' = [call EXCEPT ![c] = "leaving"]
    /\ UNCHANGED <<requestVars, letter, shown, loopVars, plain, approvalFaults>>

\* The status was not final, and the waiter's deadline has passed.
GiveUp(c) ==
    /\ call[c] = "waiting"
    /\ ~late[c]
    /\ request[c] \in Unanswered
    /\ call' = [call EXCEPT ![c] = "leaving"]
    /\ UNCHANGED <<requestVars, letter, shown, loopVars, plain, approvalFaults>>

\* Whatever the row says by now, the call is refused.
Leave(c) ==
    /\ call[c] = "leaving"
    /\ request' = [request EXCEPT ![c] = Lapsed(c)]
    /\ call' = [call EXCEPT ![c] = "refused"]
    /\ UNCHANGED <<marked, tries, late, letter, shown, loopVars, plain, approvalFaults>>

\* The callback fails closed: filing, a poll or the expiry raised.
WaitFails(c) ==
    /\ call[c] \in {"waiting", "leaving"}
    /\ Fault
    /\ call' = [call EXCEPT ![c] = "refused"]
    /\ UNCHANGED <<requestVars, letter, shown, loopVars, plain>>

\* evaluate_tool_call consumes the proof if it is good and nothing else stands
\* against the call; a connector policy, a hook or the outbound safety may refuse
\* the call after that.
Consume(c) ==
    /\ call[c] = "granted"
    /\ \/ /\ request[c] = "approved"
          /\ ~late[c]
          /\ request' = [request EXCEPT ![c] = "consumed"]
          /\ \E p \in {"cleared", "refused"} : call' = [call EXCEPT ![c] = p]
       \/ /\ call' = [call EXCEPT ![c] = "refused"]
          /\ UNCHANGED request
    /\ UNCHANGED <<marked, tries, late, letter, shown, loopVars, plain, approvalFaults>>

\* The policy check raised, before its commit or after it: the in-process
\* policy decides, and takes a chat for consent.  The tool is not among those
\* the operator has approved for good.
FallBack(c) ==
    /\ call[c] = "granted"
    /\ Fault
    /\ request' \in {request, IF request[c] = "approved" /\ ~late[c]
                              THEN [request EXCEPT ![c] = "consumed"] ELSE request}
    /\ call' = [call EXCEPT ![c] = IF c \in ChatCalls THEN "cleared" ELSE "refused"]
    /\ UNCHANGED <<marked, tries, late, letter, shown, loopVars, plain>>

RunTool(c) ==
    /\ call[c] = "cleared"
    /\ call' = [call EXCEPT ![c] = "ran"]
    /\ UNCHANGED <<requestVars, letter, shown, loopVars, plain, approvalFaults>>

\* The agent's process dies, or its turn is cancelled.
Die(c) ==
    /\ call[c] \in {"waiting", "leaving", "granted", "cleared"}
    /\ Fault
    /\ call' = [call EXCEPT ![c] = "gone"]
    /\ UNCHANGED <<requestVars, letter, shown, loopVars, plain>>

\* Of a row that is denied, consumed or expired nobody looks at expires_at.
Expiry(c) ==
    /\ request[c] \in Unanswered \cup {"approved"}
    /\ ~late[c]
    /\ late' = [late EXCEPT ![c] = TRUE]
    /\ UNCHANGED <<request, marked, tries, letter, shown, call, loopVars, plain,
                   approvalFaults>>

-----------------------------------------------------------------------------
\* The Slack message.

\* To an answered request it makes no difference any more.
Post(c) ==
    /\ letter[c] = "queued"
    /\ request[c] \in Decidable
    /\ letter' = [letter EXCEPT ![c] = "posted"]
    /\ shown' = [shown EXCEPT ![c] = TRUE]
    /\ UNCHANGED <<requestVars, call, loopVars, plain, approvalFaults>>

\* mark_operator_tool_approval_slack_delivered comes after the send and finds
\* the row pending or leaves it; a mark that raises is only logged.
Mark(c) ==
    /\ letter[c] = "posted"
    /\ request[c] = "pending"
    /\ ~late[c]
    /\ letter' = [letter EXCEPT ![c] = "noted"]
    /\ \/ /\ request' = [request EXCEPT ![c] = "slack_delivered"]
          /\ marked' = [marked EXCEPT ![c] = TRUE]
          /\ UNCHANGED approvalFaults
       \/ Fault /\ UNCHANGED <<request, marked>>
    /\ UNCHANGED <<tries, late, shown, call, loopVars, plain>>

-----------------------------------------------------------------------------
\* The operator.

\* record_operator_tool_approval_decision.
Record(c, d) ==
    /\ request[c] \in Decidable
    /\ ~late[c]
    /\ request' = [request EXCEPT ![c] = d]

\* A button of the Slack message, or a text with the code of a message.
Answer(c) ==
    /\ shown[c]
    /\ \E d \in Decision : Record(c, d)
    /\ UNCHANGED <<marked, tries, late, letter, shown, call, loopVars, plain,
                   approvalFaults>>

OpenRequests == {c \in Calls : request[c] \in Decidable /\ ~late[c]}

\* try_resolve_operator_tool_approval_from_inbound, a text without a code: one
\* statement counts the open requests, a later one picks the newest of them.
CountOpen ==
    /\ plain = "none"
    /\ Cardinality(OpenRequests) = 1
    /\ plain' \in Decision
    /\ UNCHANGED <<requestVars, letter, shown, call, loopVars, approvalFaults>>

Newest == CHOOSE c \in OpenRequests : \A d \in OpenRequests : d <= c

PickNewest ==
    /\ plain # "none"
    /\ plain' = "none"
    /\ \/ OpenRequests # {} /\ Record(Newest, plain)
       \/ OpenRequests = {} /\ UNCHANGED request
    /\ UNCHANGED <<marked, tries, late, letter, shown, call, loopVars, approvalFaults>>

-----------------------------------------------------------------------------
\* The escalation loops.

\* Where an interrupted escalation returns to.
Before(c) == IF marked[c] THEN "slack_delivered" ELSE "pending"

\* Mutant: the deadline also expires what was approved.
Overdue_Approved == {c \in Calls : request[c] \in Unanswered \cup {"approved"} /\ late[c]}

\* Mutant: interrupted escalations are not looked for.
Escalating_Forgotten == {}

Overdue == {c \in Calls : request[c] \in Unanswered /\ late[c]}
Escalating == {c \in Calls : request[c] = "escalating" /\ ~late[c]}
Swept(R) == [c \in Calls |-> IF c \in Overdue THEN "expired"
                             ELSE IF c \in R THEN Before(c) ELSE request[c]]

Candidates(R) == {c \in Calls : /\ Swept(R)[c] \in {"pending", "slack_delivered"}
                                /\ ~late[c]
                                /\ tries[c] < MaxEscalations}

\* claim_operator_tool_approval_escalations: expires what is late, takes the
\* interrupted escalations back, claims what is due.  Without an iMessage
\* recipient nothing is claimed.
Sweep(w) ==
    /\ loopAt[w] = "idle"
    /\ \E R \in SUBSET Escalating : \E C \in SUBSET Candidates(R) :
         /\ Overdue \cup R \cup C # {}
         /\ request' = [c \in Calls |-> IF c \in C THEN "escalating" ELSE Swept(R)[c]]
         /\ tries' = [c \in Calls |-> IF c \in C THEN tries[c] + 1 ELSE tries[c]]
         /\ batch' = [batch EXCEPT ![w] = C]
         /\ loopAt' = [loopAt EXCEPT ![w] = IF C = {} THEN "idle" ELSE "sending"]
         /\ hand' = [hand EXCEPT ![w] = NoCall]
    /\ UNCHANGED <<marked, late, letter, shown, call, plain, approvalFaults>>

\* The send may fail with the text delivered or not.
SendText(w) ==
    /\ loopAt[w] = "sending"
    /\ \E c \in batch[w] :
         /\ hand' = [hand EXCEPT ![w] = c]
         /\ batch' = [batch EXCEPT ![w] = @ \ {c}]
         /\ \/ /\ shown' = [shown EXCEPT ![c] = TRUE]
               /\ loopAt' = [loopAt EXCEPT ![w] = "completing"]
               /\ UNCHANGED approvalFaults
            \/ /\ Fault
               /\ shown' \in {shown, [shown EXCEPT ![c] = TRUE]}
               /\ loopAt' = [loopAt EXCEPT ![w] = "failing"]
    /\ UNCHANGED <<requestVars, letter, call, plain>>

NextRow(w) == IF batch[w] = {} THEN "idle" ELSE "sending"

Settle(w, s) ==
    /\ request' = IF request[hand[w]] = "escalating"
                  THEN [request EXCEPT ![hand[w]] = s] ELSE request
    /\ loopAt' = [loopAt EXCEPT ![w] = NextRow(w)]
    /\ hand' = [hand EXCEPT ![w] = NoCall]
    /\ UNCHANGED <<marked, tries, late, letter, shown, call, batch, plain>>

\* Neither statement asks whose escalation it ends.
CompleteEscalation(w) ==
    /\ loopAt[w] = "completing"
    /\ \/ Settle(w, "escalated") /\ UNCHANGED approvalFaults
       \/ /\ Fault
          /\ loopAt' = [loopAt EXCEPT ![w] = "failing"]
          /\ UNCHANGED <<requestVars, letter, shown, call, batch, hand, plain>>

FailEscalation(w) ==
    /\ loopAt[w] = "failing"
    /\ Settle(w, Before(hand[w]))
    /\ UNCHANGED approvalFaults

\* The sweep raises or its process dies; what it claimed stays escalating.
LoopFails(w) ==
    /\ loopAt[w] # "idle"
    /\ Fault
    /\ loopAt' = [loopAt EXCEPT ![w] = "idle"]
    /\ batch' = [batch EXCEPT ![w] = {}]
    /\ hand' = [hand EXCEPT ![w] = NoCall]
    /\ UNCHANGED <<requestVars, letter, shown, call, plain>>

-----------------------------------------------------------------------------
Agent(c) == \/ File(c) \/ Poll(c) \/ GiveUp(c) \/ Leave(c) \/ WaitFails(c)
            \/ Consume(c) \/ FallBack(c) \/ RunTool(c) \/ Die(c)
Operator(c) == Expiry(c) \/ Post(c) \/ Mark(c) \/ Answer(c)
Loop(w) == Sweep(w) \/ SendText(w) \/ CompleteEscalation(w) \/ FailEscalation(w)
           \/ LoopFails(w)

ApprovalNext == \/ \E c \in Calls : Agent(c) \/ Operator(c)
                \/ CountOpen \/ PickNewest
                \/ \E w \in Loops : Loop(w)

ApprovalSpec == ApprovalInit /\ [][ApprovalNext]_approvalVars

\* A waiter polls until its deadline and then goes on; a loop goes on with its
\* batch and sweeps every 15 seconds, and time passes, so that it takes an
\* interrupted escalation back.
TakeBack(c) == /\ request[c] = "escalating"
               /\ \E w \in Loops : Sweep(w)
               /\ request'[c] # "escalating" \/ tries'[c] > tries[c]
ApprovalFairness ==
    /\ \A c \in Calls : /\ WF_approvalVars(Poll(c) \/ GiveUp(c) \/ Leave(c))
                        /\ WF_approvalVars(Consume(c) \/ RunTool(c))
                        /\ WF_approvalVars(TakeBack(c))
    /\ \A w \in Loops : WF_approvalVars(SendText(w) \/ CompleteEscalation(w)
                                        \/ FailEscalation(w))

-----------------------------------------------------------------------------
\* A tool runs only on an approval: whatever the operator's answers, lapses,
\* escalations and crashes were, the row of a call that is cleared or has run
\* says approved or consumed.
RunsOnConsent ==
    \A c \in Calls : call[c] \in {"granted", "cleared", "ran"} =>
        request[c] \in {"approved", "consumed"}

\* Nobody but the policy check uses an approval up: a consumed row belongs to
\* a call that has passed the check, been refused by it or died.
ConsumedByItsCall ==
    \A c \in Calls : request[c] = "consumed" =>
        call[c] \in {"cleared", "ran", "refused", "gone"}

\* No decision replaces another: buttons pressed again, retried callbacks, a
\* text after a button, late escalations and expiries leave an answer as it is.
DecisionStands ==
    [][\A c \in Calls : request[c] \in Decision \cup {"consumed", "expired"} =>
          request'[c] \in {request[c]} \cup
              (IF request[c] = "approved" THEN {"consumed"} ELSE {})]_approvalVars

\* The answer on record and the fate of each call, as Consent sees them.
ConsentOf(c) == IF request[c] \in {"none", "denied"} THEN request[c]
                ELSE IF request[c] \in Unanswered THEN "open"
                ELSE IF request[c] \in {"approved", "consumed"} THEN "granted"
                ELSE "lapsed"
FateOf(c) == IF call[c] \in {"ran", "refused", "gone"} THEN call[c] ELSE "pending"

Consents == INSTANCE Consent WITH consent <- [c \in Calls |-> ConsentOf(c)],
                                  outcome <- [c \in Calls |-> FateOf(c)]

\* A call that was refused or has died does not run on an answer that comes
\* after it, and none runs twice.
ImplementsConsent == Consents!Spec

\* Every call gets an end: nobody waits for an operator for ever.
CallsEnd == <>[](\A c \in Calls : call[c] \in {"idle", "ran", "refused", "gone"})

\* An escalation a dead loop left behind is taken back or expires: no request
\* stays escalating with nobody working on it.
EscalationsEnd == <>[](\A c \in Calls : request[c] # "escalating")
=============================================================================
