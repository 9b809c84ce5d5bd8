------------------------------- MODULE Nodes --------------------------------
(***************************************************************************)
(* Companion nodes: the pairing of a signed identity, the connections of   *)
(* its daemons to the gateway, and the invocations the agent asks of it.   *)
(* A session is one websocket with its handler in the gateway; the link is *)
(* up while a daemon has the session as its own.  Signatures are taken as  *)
(* verified, wake utterances are left out.  Time is a flag of a row:       *)
(* `late' (expires_at has passed) or `fresh' (last_seen_at is less than 30 *)
(* seconds old).                                                           *)
(***************************************************************************)
EXTENDS Integers, FiniteSets

CONSTANTS
    Identities,       \* signed identities
    Daemons,          \* processes of `hexis node run'
    Sessions,         \* connections that can be open at once
    Powers,           \* capabilities
    Offers,           \* sets of them a process may advertise
    Pairings,         \* pairing requests that can matter at once
    Invocations,      \* invocations that can be asked for
    Unset,            \* no session, pairing or invocation
    IdentityOf,       \* the identity of each process
    MaxNodeTrouble    \* bound: failures, crashes and overdue heartbeats

ASSUME NodesAssumption ==
    /\ MaxNodeTrouble \in Nat
    /\ Offers \subseteq SUBSET Powers
    /\ IdentityOf \in [Daemons -> Identities]
    /\ Unset \notin Sessions \cup Pairings \cup Invocations \cup Identities \cup Powers

VARIABLES
    hexisNode,    \* hexis_nodes
    pairing,      \* node_pairing_requests
    invocation,   \* node_invocations
    session,      \* the gateway's side of each connection
    daemon,       \* the node's side
    asker,        \* who waits for each invocation, and what it was told
    performed,    \* history: how often the node ran an invocation
    granted,      \* history: what the operator ever approved for an identity
    displaced,    \* history: sessions that lost their identity by the rules
    nodeTrouble

nodesVars == <<hexisNode, pairing, invocation, session, daemon, asker,
               performed, granted, displaced, nodeTrouble>>

Running == {"queued", "dispatched"}
Answers == {"succeeded", "failed", "expired", "cancelled"}

NoSession == [at |-> "free", id |-> Unset, powers |-> {}, pairing |-> Unset,
              inflight |-> Unset, result |-> Unset]

NodesInit ==
    /\ hexisNode = [i \in Identities |-> [status |-> "none", powers |-> {},
                                          conn |-> Unset, fresh |-> FALSE]]
    /\ pairing = [a \in Pairings |-> [status |-> "none", id |-> Unset,
                                      powers |-> {}, late |-> FALSE]]
    /\ invocation = [k \in Invocations |-> [status |-> "none", id |-> Unset,
                                            power |-> Unset, late |-> FALSE]]
    /\ session = [c \in Sessions |-> NoSession]
    /\ \E up \in SUBSET Daemons :
          daemon = [d \in Daemons |-> [at |-> IF d \in up THEN "off" ELSE "gone",
                        conn |-> Unset, heard |-> "nothing", invoke |-> Unset]]
    /\ asker = [k \in Invocations |-> [at |-> "none", told |-> "nothing"]]
    /\ performed = [k \in Invocations |-> 0]
    /\ granted = [i \in Identities |-> {}]
    /\ displaced = {} /\ nodeTrouble = 0

NodeFails == nodeTrouble < MaxNodeTrouble /\ nodeTrouble' = nodeTrouble + 1

Linked(c) == \E d \in Daemons : daemon[d].conn = c

\* What daemon sees of its session's end, with what it was told before.
HangUp(c, told) == [d \in Daemons |->
    IF daemon[d].conn # c THEN daemon[d]
    ELSE [daemon[d] EXCEPT !.conn = Unset,
                           !.heard = IF told = "nothing" THEN @ ELSE told]]

Tell(c, what) == [d \in Daemons |->
    IF daemon[d].conn = c THEN [daemon[d] EXCEPT !.heard = what] ELSE daemon[d]]

Close(c, told) ==
    /\ session' = [session EXCEPT ![c] = NoSession]
    /\ daemon' = HangUp(c, told)
    /\ displaced' = displaced \ {c}

-----------------------------------------------------------------------------
(* The handshake.                                                          *)

Paired(i) == hexisNode[i].status \in {"offline", "online"}

\* Mutant: the deadline of a request is not looked at.
Lapse_Never(p) == p

\* A pairing request nobody decided in time.
Lapse(p) == IF p.status = "pending" /\ p.late THEN [p EXCEPT !.status = "expired"] ELSE p
Lapsing == [a \in Pairings |-> Lapse(pairing[a])]
OpenFor(i) == {a \in Pairings : pairing[a].id = i /\ Lapse(pairing[a]).status = "pending"}

\* Mutant: a paired identity may advertise anything.
Covered_Any(c) == hexisNode[session[c].id].powers # {}

Covered(c) == session[c].powers \subseteq hexisNode[session[c].id].powers

\* Another change of capabilities is being decided.
Contested(c) == /\ Paired(session[c].id)
                /\ \E a \in OpenFor(session[c].id) : pairing[a].powers # session[c].powers

Handshakes(c) == session[c].at \in {"hello", "again"}

\* The identity is paired with these capabilities or more: the row is
\* rewritten by the next statement, whatever has happened in between.
Recognize(c) ==
    /\ Handshakes(c) /\ Paired(session[c].id) /\ Covered(c)
    /\ pairing' = Lapsing
    /\ session' = [session EXCEPT ![c].at = "renew"]
    /\ UNCHANGED <<hexisNode, invocation, daemon, asker, performed, granted,
                   displaced, nodeTrouble>>

Renew(c) ==
    /\ session[c].at = "renew"
    /\ hexisNode' = [hexisNode EXCEPT ![session[c].id].powers = session[c].powers]
    /\ session' = [session EXCEPT ![c].at = "mark"]
    /\ UNCHANGED <<pairing, invocation, daemon, asker, performed, granted,
                   displaced, nodeTrouble>>

\* The first refusal closes the connection without a word, the second says so.
RefuseNode(c) ==
    /\ Handshakes(c)
    /\ \/ hexisNode[session[c].id].status = "revoked"
       \/ ~Covered(c) /\ Contested(c)
    /\ pairing' = Lapsing
    /\ Close(c, IF session[c].at = "again" THEN "refused" ELSE "nothing")
    /\ UNCHANGED <<hexisNode, invocation, asker, performed, granted, nodeTrouble>>

\* A row nobody will look at again stands for a new one.
SparePairings == {a \in Pairings : Lapse(pairing[a]).status # "pending"
                     /\ \A c \in Sessions : session[c].pairing # a}

\* A new identity or new capabilities wait for the operator; there is one
\* open request for an identity.
AskOperator(c) ==
    LET i == session[c].id IN
    /\ Handshakes(c) /\ hexisNode[i].status # "revoked"
    /\ Paired(i) => ~Covered(c) /\ ~Contested(c)
    /\ OpenFor(i) # {} \/ SparePairings # {}
    /\ LET a == CHOOSE x \in IF OpenFor(i) # {} THEN OpenFor(i) ELSE SparePairings : TRUE IN
         /\ pairing' = IF OpenFor(i) # {} THEN Lapsing
                       ELSE [Lapsing EXCEPT ![a] = [status |-> "pending", id |-> i,
                                powers |-> session[c].powers, late |-> FALSE]]
         /\ IF session[c].at = "again" THEN Close(c, "refused")
            ELSE /\ session' = [session EXCEPT ![c].at = "waiting", ![c].pairing = a]
                 /\ UNCHANGED <<daemon, displaced>>
    /\ UNCHANGED <<hexisNode, invocation, asker, performed, granted, nodeTrouble>>

AwaitPairing(c) ==
    LET a == session[c].pairing  p == Lapse(pairing[a]) IN
    /\ session[c].at = "waiting" /\ p.status # "pending"
    /\ pairing' = [pairing EXCEPT ![a] = p]
    /\ IF p.status = "approved"
       THEN /\ session' = [session EXCEPT ![c].at = "again", ![c].pairing = Unset]
            /\ UNCHANGED <<daemon, displaced>>
       ELSE Close(c, "refused")
    /\ UNCHANGED <<hexisNode, invocation, asker, performed, granted, nodeTrouble>>

\* mark_node_connection: who may have the identity online.
MayHold(row, c) ==
    /\ row.status # "revoked"
    /\ row.status # "online" \/ row.conn \in {Unset, c} \/ ~row.fresh

Online(row, c) == [row EXCEPT !.status = "online", !.conn = c, !.fresh = TRUE]

\* A live session the rules let go of: its heartbeat is overdue or the
\* operator's approval took the node offline.
Released(i) == {c \in Sessions : /\ hexisNode[i].conn = c /\ session[c].at = "live"
                                 /\ hexisNode[i].status # "online" \/ ~hexisNode[i].fresh}

MarkOnline(c) ==
    LET i == session[c].id IN
    /\ session[c].at = "mark"
    /\ IF MayHold(hexisNode[i], c)
       THEN /\ hexisNode' = [hexisNode EXCEPT ![i] = Online(@, c)]
            /\ session' = [session EXCEPT ![c].at = "live"]
            /\ daemon' = Tell(c, "paired")
            /\ displaced' = displaced \cup Released(i)
       ELSE Close(c, "refused") /\ UNCHANGED hexisNode
    /\ UNCHANGED <<pairing, invocation, asker, performed, granted, nodeTrouble>>

-----------------------------------------------------------------------------
(* A live session.                                                         *)

\* Mutant: any session that ends takes the row offline.
Offline_Anyone(row, c) ==
    IF row.status # "revoked" THEN [row EXCEPT !.status = "offline", !.conn = Unset] ELSE row

\* The row goes offline only for the session that has it.
Offline(row, c) ==
    IF row.status # "revoked" /\ row.conn = c
    THEN [row EXCEPT !.status = "offline", !.conn = Unset] ELSE row

LeaveRow(c) == [hexisNode EXCEPT ![session[c].id] = Offline(@, c)]

OverdueIn(k, i) == /\ invocation[k].id = i /\ invocation[k].status = "queued"
                   /\ invocation[k].late
QueuedFor(k, i) == /\ invocation[k].id = i /\ invocation[k].status = "queued"
                   /\ ~invocation[k].late

Expiring(i) == [k \in Invocations |-> IF OverdueIn(k, i)
                    THEN [invocation[k] EXCEPT !.status = "expired"] ELSE invocation[k]]

\* claim_node_invocation, and the message to the node.  A row another claim
\* has locked is passed over, so the oldest is not always the one.
ClaimInvocation(c) ==
    LET i == session[c].id IN
    /\ session[c].at = "live" /\ session[c].inflight = Unset
    /\ \E k \in Invocations :
         /\ QueuedFor(k, i)
         /\ invocation' = [Expiring(i) EXCEPT ![k].status = "dispatched"]
         /\ session' = [session EXCEPT ![c].inflight = k]
         /\ daemon' = [d \in Daemons |-> IF daemon[d].conn = c
                         THEN [daemon[d] EXCEPT !.invoke = k] ELSE daemon[d]]
    /\ UNCHANGED <<hexisNode, pairing, asker, performed, granted, displaced, nodeTrouble>>

ExpireQueued(c) ==
    LET i == session[c].id IN
    /\ session[c].at = "live" /\ session[c].inflight = Unset
    /\ \A k \in Invocations : ~QueuedFor(k, i)
    /\ \E k \in Invocations : OverdueIn(k, i)
    /\ invocation' = Expiring(i)
    /\ UNCHANGED <<hexisNode, pairing, session, daemon, asker, performed, granted,
                   displaced, nodeTrouble>>

\* Every ten seconds of a linked session; one that lost its identity is closed.
Heartbeat(c) ==
    LET i == session[c].id IN
    /\ session[c].at = "live" /\ Linked(c)
    /\ IF MayHold(hexisNode[i], c)
       THEN /\ hexisNode' = [hexisNode EXCEPT ![i] = Online(@, c)]
            /\ displaced' = displaced \cup (Released(i) \ {c})
            /\ hexisNode' # hexisNode
            /\ UNCHANGED <<session, daemon>>
       ELSE Close(c, "nothing") /\ UNCHANGED hexisNode
    /\ UNCHANGED <<pairing, invocation, asker, performed, granted, nodeTrouble>>

\* Mutant: a result is recorded whatever became of the row.
Result_Anyway(row, s) == [row EXCEPT !.status = s]

Result(row, s) == IF row.status = "dispatched" THEN [row EXCEPT !.status = s] ELSE row

\* The signed result, and a refresh of the row whose answer is not looked at.
TakeResult(c) ==
    LET i == session[c].id  k == session[c].result IN
    /\ session[c].at = "live" /\ k # Unset
    /\ \E s \in {"succeeded", "failed"} :
         invocation' = [invocation EXCEPT ![k] = Result(@, s)]
    /\ session' = [session EXCEPT ![c].inflight = Unset, ![c].result = Unset]
    /\ IF MayHold(hexisNode[i], c)
       THEN /\ hexisNode' = [hexisNode EXCEPT ![i] = Online(@, c)]
            /\ displaced' = displaced \cup (Released(i) \ {c})
       ELSE UNCHANGED <<hexisNode, displaced>>
    /\ UNCHANGED <<pairing, daemon, asker, performed, granted, nodeTrouble>>

\* The handler notices that the node is gone.
Disconnect(c) ==
    /\ session[c].at # "free" /\ ~Linked(c)
    /\ hexisNode' = LeaveRow(c)
    /\ Close(c, "nothing")
    /\ UNCHANGED <<pairing, invocation, asker, performed, granted, nodeTrouble>>

\* A statement fails: the handler ends, and its last one may fail as well.
SessionFails(c) ==
    /\ session[c].at # "free" /\ NodeFails
    /\ hexisNode' \in {hexisNode, LeaveRow(c)}
    /\ Close(c, "nothing")
    /\ UNCHANGED <<pairing, invocation, asker, performed, granted>>

\* The gateway's process dies with all its sessions.
GatewayDies ==
    /\ NodeFails /\ \E c \in Sessions : session[c].at # "free"
    /\ session' = [c \in Sessions |-> NoSession]
    /\ daemon' = [d \in Daemons |-> [daemon[d] EXCEPT !.conn = Unset]]
    /\ displaced' = {}
    /\ UNCHANGED <<hexisNode, pairing, invocation, asker, performed, granted>>

-----------------------------------------------------------------------------
(* The daemon.                                                             *)

\* The name of a session is never used twice.
SpareSessions == {c \in Sessions : session[c].at = "free"
                     /\ \A i \in Identities : hexisNode[i].conn # c}

Connect(d) ==
    /\ daemon[d].at = "off"
    /\ SpareSessions # {}
    /\ \E powers \in Offers : LET c == CHOOSE x \in SpareSessions : TRUE IN
         /\ session' = [session EXCEPT ![c] = [NoSession EXCEPT !.at = "hello",
                            !.id = IdentityOf[d], !.powers = powers]]
         /\ daemon' = [daemon EXCEPT ![d] = [at |-> "greeting", conn |-> c,
                            heard |-> "nothing", invoke |-> Unset]]
    /\ UNCHANGED <<hexisNode, pairing, invocation, asker, performed, granted,
                   displaced, nodeTrouble>>

\* The status message, or the end of a connection without one.
Hear(d) ==
    /\ daemon[d].at = "greeting"
    /\ \/ /\ daemon[d].heard # "nothing"
          /\ daemon' = [daemon EXCEPT ![d].at =
                IF daemon[d].heard = "paired" THEN "running" ELSE "gone"]
       \/ /\ daemon[d].heard = "nothing" /\ daemon[d].conn = Unset
          /\ daemon' = [daemon EXCEPT ![d].at = "off"]
    /\ UNCHANGED <<hexisNode, pairing, invocation, session, asker, performed,
                   granted, displaced, nodeTrouble>>

Perform(d) ==
    /\ daemon[d].at = "running" /\ daemon[d].invoke # Unset
    /\ daemon' = [daemon EXCEPT ![d].at = "working"]
    /\ performed' = [performed EXCEPT ![daemon[d].invoke] = @ + 1]
    /\ UNCHANGED <<hexisNode, pairing, invocation, session, asker, granted,
                   displaced, nodeTrouble>>

\* The result goes to the session that asked for it, or nowhere.
Report(d) ==
    LET c == daemon[d].conn IN
    /\ daemon[d].at = "working"
    /\ daemon' = [daemon EXCEPT ![d].invoke = Unset,
                                ![d].at = IF c = Unset THEN "off" ELSE "running"]
    /\ session' = IF c = Unset THEN session
                  ELSE [session EXCEPT ![c].result = daemon[d].invoke]
    /\ UNCHANGED <<hexisNode, pairing, invocation, asker, performed, granted,
                   displaced, nodeTrouble>>

Reconnect(d) ==
    /\ daemon[d].at = "running" /\ daemon[d].invoke = Unset /\ daemon[d].conn = Unset
    /\ daemon' = [daemon EXCEPT ![d].at = "off"]
    /\ UNCHANGED <<hexisNode, pairing, invocation, session, asker, performed,
                   granted, displaced, nodeTrouble>>

\* The network drops a connection.
LinkBreaks(d) ==
    /\ daemon[d].conn # Unset /\ NodeFails
    /\ daemon' = [daemon EXCEPT ![d].conn = Unset]
    /\ UNCHANGED <<hexisNode, pairing, invocation, session, asker, performed,
                   granted, displaced>>

\* The process ends.  Nobody has to start it again.
DaemonStops(d) ==
    /\ daemon[d].at # "gone" /\ NodeFails
    /\ daemon' = [daemon EXCEPT ![d] = [at |-> "gone", conn |-> Unset,
                                        heard |-> "nothing", invoke |-> Unset]]
    /\ UNCHANGED <<hexisNode, pairing, invocation, session, asker, performed,
                   granted, displaced>>

-----------------------------------------------------------------------------
(* The operator.                                                           *)

ApprovedRow(row, powers) ==
    [status |-> "offline", powers |-> powers, conn |-> row.conn, fresh |-> row.fresh]

Decide(a, yes) ==
    LET p == pairing[a] IN
    /\ p.status = "pending"
    /\ IF p.late
       THEN pairing' = [pairing EXCEPT ![a].status = "expired"] /\ UNCHANGED <<hexisNode, granted>>
       ELSE IF yes
       THEN /\ pairing' = [pairing EXCEPT ![a].status = "approved"]
            /\ hexisNode' = [hexisNode EXCEPT ![p.id] = ApprovedRow(@, p.powers)]
            /\ granted' = [granted EXCEPT ![p.id] = @ \cup p.powers]
       ELSE /\ pairing' = [pairing EXCEPT ![a].status = "denied"]
            /\ UNCHANGED <<hexisNode, granted>>
    /\ UNCHANGED <<invocation, session, daemon, asker, performed, displaced, nodeTrouble>>

Cancelling(i) == [k \in Invocations |->
    IF invocation[k].id = i /\ invocation[k].status \in Running
    THEN [invocation[k] EXCEPT !.status = "cancelled"] ELSE invocation[k]]

Revoke(i) ==
    /\ Paired(i)
    /\ hexisNode' = [hexisNode EXCEPT ![i].status = "revoked", ![i].conn = Unset]
    /\ invocation' = Cancelling(i)
    /\ displaced' = displaced \cup {c \in Sessions : hexisNode[i].conn = c}
    /\ UNCHANGED <<pairing, session, daemon, asker, performed, granted, nodeTrouble>>

-----------------------------------------------------------------------------
(* Who asks for an invocation.                                             *)

\* The node is looked at first and the row inserted by a later statement.
CheckNode(k) ==
    /\ asker[k].at = "none"
    /\ \E i \in Identities : \E power \in hexisNode[i].powers :
         /\ hexisNode[i].status = "online" /\ hexisNode[i].fresh
         /\ invocation' = [invocation EXCEPT ![k] =
                [status |-> "none", id |-> i, power |-> power, late |-> FALSE]]
    /\ asker' = [asker EXCEPT ![k].at = "checked"]
    /\ UNCHANGED <<hexisNode, pairing, session, daemon, performed, granted,
                   displaced, nodeTrouble>>

CreateInvocation(k) ==
    /\ asker[k].at = "checked"
    /\ invocation' = [invocation EXCEPT ![k].status = "queued"]
    /\ asker' = [asker EXCEPT ![k].at = "waiting"]
    /\ UNCHANGED <<hexisNode, pairing, session, daemon, performed, granted,
                   displaced, nodeTrouble>>

TakeAnswer(k) ==
    /\ asker[k].at = "waiting" /\ invocation[k].status \in Answers
    /\ asker' = [asker EXCEPT ![k] = [at |-> "answered", told |-> invocation[k].status]]
    /\ UNCHANGED <<hexisNode, pairing, invocation, session, daemon, performed,
                   granted, displaced, nodeTrouble>>

\* The wait is two seconds longer than the invocation may take; the row is
\* expired and then read, so a result that came first is the answer.
GivenUp(row) == IF row.status \in Running THEN [row EXCEPT !.status = "expired"] ELSE row

GiveUpWaiting(k) ==
    /\ asker[k].at = "waiting" /\ invocation[k].late
    /\ invocation' = [invocation EXCEPT ![k] = GivenUp(@)]
    /\ asker' = [asker EXCEPT ![k] = [at |-> "answered", told |-> GivenUp(invocation[k]).status]]
    /\ UNCHANGED <<hexisNode, pairing, session, daemon, performed, granted,
                   displaced, nodeTrouble>>

\* The process of the tool call dies, or its turn is cancelled.
AskerDies(k) ==
    /\ asker[k].at \in {"checked", "waiting"} /\ NodeFails
    /\ asker' = [asker EXCEPT ![k].at = "dead"]
    /\ UNCHANGED <<hexisNode, pairing, invocation, session, daemon, performed,
                   granted, displaced>>

-----------------------------------------------------------------------------
(* Time.                                                                   *)

PairingLapses(a) ==
    /\ pairing[a].status = "pending" /\ ~pairing[a].late
    /\ pairing' = [pairing EXCEPT ![a].late = TRUE]
    /\ UNCHANGED <<hexisNode, invocation, session, daemon, asker, performed,
                   granted, displaced, nodeTrouble>>

InvocationLapses(k) ==
    /\ invocation[k].status \in Running /\ ~invocation[k].late
    /\ invocation' = [invocation EXCEPT ![k].late = TRUE]
    /\ UNCHANGED <<hexisNode, pairing, session, daemon, asker, performed, granted,
                   displaced, nodeTrouble>>

\* Thirty seconds without a heartbeat: of a session that is up, a trouble.
GrowStale(i) ==
    /\ hexisNode[i].fresh
    /\ hexisNode' = [hexisNode EXCEPT ![i].fresh = FALSE]
    /\ IF \E c \in Sessions : hexisNode[i].conn = c /\ session[c].at = "live" /\ Linked(c)
       THEN NodeFails ELSE UNCHANGED nodeTrouble
    /\ UNCHANGED <<pairing, invocation, session, daemon, asker, performed, granted,
                   displaced>>

-----------------------------------------------------------------------------
SessionStep(c) ==
    \/ Recognize(c) \/ Renew(c) \/ RefuseNode(c) \/ AskOperator(c) \/ AwaitPairing(c)
    \/ MarkOnline(c) \/ ClaimInvocation(c) \/ ExpireQueued(c) \/ Heartbeat(c)
    \/ TakeResult(c) \/ Disconnect(c)
DaemonStep(d) == Connect(d) \/ Hear(d) \/ Perform(d) \/ Report(d) \/ Reconnect(d)
AskerStep(k) == CreateInvocation(k) \/ TakeAnswer(k) \/ GiveUpWaiting(k)

NodesNext ==
    \/ \E c \in Sessions : SessionStep(c) \/ SessionFails(c)
    \/ GatewayDies
    \/ \E d \in Daemons : DaemonStep(d) \/ LinkBreaks(d) \/ DaemonStops(d)
    \/ \E a \in Pairings : PairingLapses(a) \/ \E yes \in BOOLEAN : Decide(a, yes)
    \/ \E i \in Identities : Revoke(i) \/ GrowStale(i)
    \/ \E k \in Invocations : \/ AskerStep(k) \/ CheckNode(k) \/ AskerDies(k)
                              \/ InvocationLapses(k)

\* Handlers, daemons and waiters run, and the clock does.  Nobody has to
\* decide, ask, revoke or start a daemon.
NodesFairness ==
    /\ \A c \in Sessions : WF_nodesVars(SessionStep(c))
    /\ \A d \in Daemons : WF_nodesVars(DaemonStep(d))
    /\ \A k \in Invocations : WF_nodesVars(AskerStep(k)) /\ WF_nodesVars(InvocationLapses(k))
    /\ \A a \in Pairings : WF_nodesVars(PairingLapses(a))
    /\ \A i \in Identities : WF_nodesVars(GrowStale(i))

NodesSpec == NodesInit /\ [][NodesNext]_nodesVars /\ NodesFairness

-----------------------------------------------------------------------------
NodesTypeOK ==
    /\ hexisNode \in [Identities -> [status : {"none", "offline", "online", "revoked"},
                        powers : SUBSET Powers, conn : Sessions \cup {Unset}, fresh : BOOLEAN]]
    /\ pairing \in [Pairings -> [status : {"none", "pending", "approved", "denied", "expired"},
                        id : Identities \cup {Unset}, powers : SUBSET Powers, late : BOOLEAN]]
    /\ invocation \in [Invocations -> [status : Running \cup Answers \cup {"none"},
                        id : Identities \cup {Unset}, power : Powers \cup {Unset}, late : BOOLEAN]]
    /\ session \in [Sessions -> [at : {"free", "hello", "waiting", "again", "renew", "mark", "live"},
                        id : Identities \cup {Unset}, powers : SUBSET Powers,
                        pairing : Pairings \cup {Unset}, inflight : Invocations \cup {Unset},
                        result : Invocations \cup {Unset}]]
    /\ daemon \in [Daemons -> [at : {"off", "greeting", "running", "working", "gone"},
                        conn : Sessions \cup {Unset}, heard : {"nothing", "paired", "refused"},
                        invoke : Invocations \cup {Unset}]]
    /\ asker \in [Invocations -> [at : {"none", "checked", "waiting", "answered", "dead"},
                        told : Answers \cup {"nothing"}]]
    /\ performed \in [Invocations -> Nat]
    /\ granted \in [Identities -> SUBSET Powers]
    /\ displaced \subseteq Sessions /\ nodeTrouble \in 0..MaxNodeTrouble

\* Reconnects, takeovers and lost results included, a node runs an invocation
\* at most once; what its caller was told stays the record, no late result,
\* expiry or revocation changes it, and a result stands for a run.
AnsweredOnce == \A k \in Invocations :
    /\ performed[k] <= 1
    /\ asker[k].at = "answered" =>
         /\ asker[k].told = invocation[k].status
         /\ asker[k].told \in {"succeeded", "failed"} => performed[k] = 1

\* An identity never has a capability, and never ran an invocation for one,
\* that the operator did not approve for it, though handshakes read its row and
\* rewrite it by separate statements and askers insert what they checked before.
PowersGranted ==
    /\ \A i \in Identities : hexisNode[i].powers \subseteq granted[i]
    /\ \A k \in Invocations :
          performed[k] > 0 => invocation[k].power \in granted[invocation[k].id]

\* A second live process cannot take over an identity: a live session has it
\* until its heartbeat is overdue, or the operator approves or revokes.
LiveSessionHolds == \A c \in Sessions : session[c].at = "live" /\ c \notin displaced
    => hexisNode[session[c].id].conn = c

\* db/88a and docs/operations/companion-nodes.md: a revoked identity stays so.
RevokedForGood == [][\A i \in Identities :
    hexisNode[i].status = "revoked" => hexisNode'[i].status = "revoked"]_nodesVars

\* A daemon does not hang or reconnect for ever: it serves, has ended, or waits
\* for a decision of the operator whose deadline has not passed.  (A revoked
\* one is turned away without a word and does come back for ever.)
DaemonsServe == \A d \in Daemons : []<>(
    \/ daemon[d].at \in {"running", "gone"}
    \/ hexisNode[IdentityOf[d]].status = "revoked"
    \/ \E a \in OpenFor(IdentityOf[d]) : ~pairing[a].late)
=============================================================================
