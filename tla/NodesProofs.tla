---------------------------- MODULE NodesProofs ----------------------------
(***************************************************************************)
(* The invariants of companion nodes, and what they give for any identity, *)
(* daemon, session, pairing and invocation, and any number of troubles.    *)
(***************************************************************************)
EXTENDS Nodes, TLAPS

NodeRow == [status : {"none", "offline", "online", "revoked"}, powers : SUBSET Powers,
            conn : Sessions \cup {Unset}, fresh : BOOLEAN]
PairingRow == [status : {"none", "pending", "approved", "denied", "expired"},
               id : Identities \cup {Unset}, powers : SUBSET Powers, late : BOOLEAN]
InvocationRow == [status : Running \cup Answers \cup {"none"}, id : Identities \cup {Unset},
                  power : Powers \cup {Unset}, late : BOOLEAN]
SessionState == [at : {"free", "hello", "waiting", "again", "renew", "mark", "live"},
                 id : Identities \cup {Unset}, powers : SUBSET Powers,
                 pairing : Pairings \cup {Unset}, inflight : Invocations \cup {Unset},
                 result : Invocations \cup {Unset}]
DaemonState == [at : {"off", "greeting", "running", "working", "gone"},
                conn : Sessions \cup {Unset}, heard : {"nothing", "paired", "refused"},
                invoke : Invocations \cup {Unset}]
AskerState == [at : {"none", "checked", "waiting", "answered", "dead"},
               told : Answers \cup {"nothing"}]

\* A connection belongs to a signed identity.
Named == \A c \in Sessions : session[c].at # "free" => session[c].id \in Identities

\* A link is up to a session in use, and no two daemons have the same.
Links == \A d \in Daemons : daemon[d].conn # Unset =>
    /\ session[daemon[d].conn].at # "free"
    /\ \A e \in Daemons : daemon[e].conn = daemon[d].conn => e = d

\* A row is inserted by the asker who waits for it, and the answer it took stands.
Asked == \A k \in Invocations :
    /\ asker[k].at \in {"none", "checked"} => invocation[k].status = "none"
    /\ asker[k].at = "waiting" => invocation[k].status # "none"
    /\ asker[k].at = "answered" => /\ asker[k].told = invocation[k].status
                                   /\ asker[k].told \in Answers

NodesBase == NodesTypeOK /\ Named /\ Links /\ Asked

LEMMA Typed ==
    ASSUME NodesBase
    PROVE  /\ hexisNode \in [Identities -> NodeRow] /\ pairing \in [Pairings -> PairingRow]
           /\ invocation \in [Invocations -> InvocationRow]
           /\ session \in [Sessions -> SessionState] /\ daemon \in [Daemons -> DaemonState]
           /\ asker \in [Invocations -> AskerState] /\ performed \in [Invocations -> Nat]
           /\ granted \in [Identities -> SUBSET Powers]
           /\ displaced \subseteq Sessions /\ nodeTrouble \in 0..MaxNodeTrouble
           /\ \A c \in Sessions : session[c].at # "free" => session[c].id \in Identities
           /\ Unset \notin Sessions \cup Invocations \cup Pairings \cup Identities
BY NodesAssumption DEF NodesBase, NodesTypeOK, Named, NodesAssumption, NodeRow, PairingRow,
   InvocationRow, SessionState, DaemonState, AskerState

LEMMA InitNodes == NodesInit => NodesBase
<1> SUFFICES ASSUME NodesInit PROVE NodesBase
  OBVIOUS
<1> USE NodesAssumption DEF NodesAssumption, NodesInit
<1>1. /\ hexisNode \in [Identities -> NodeRow] /\ pairing \in [Pairings -> PairingRow]
      /\ invocation \in [Invocations -> InvocationRow] /\ asker \in [Invocations -> AskerState]
  BY DEF NodeRow, PairingRow, InvocationRow, AskerState
<1>2. session \in [Sessions -> SessionState] /\ \A c \in Sessions : session[c].at = "free"
  BY DEF SessionState, NoSession
<1>3. daemon \in [Daemons -> DaemonState] /\ Links /\ Asked
  BY DEF DaemonState, Links, Asked
<1>4. /\ performed \in [Invocations -> Nat] /\ granted \in [Identities -> SUBSET Powers]
      /\ displaced \subseteq Sessions /\ nodeTrouble \in 0..MaxNodeTrouble
  OBVIOUS
<1>5. QED
  BY <1>1, <1>2, <1>3, <1>4
  DEF NodesBase, NodesTypeOK, Named, NodeRow, PairingRow, InvocationRow, SessionState,
      DaemonState, AskerState

-----------------------------------------------------------------------------
(* What one step does to a session.                                        *)

LEMMA NoSessionType == NoSession \in SessionState /\ NoSession.at = "free"
                       /\ NoSession.inflight = Unset /\ NoSession.result = Unset
BY DEF NoSession, SessionState

\* A session that goes on is still its identity's, with the same capabilities,
\* is recognized only with capabilities its row has, and live once it has the row.
GoesOn(c) ==
    /\ session[c].at # "free" /\ session'[c].at # "free"
    /\ session'[c].id = session[c].id /\ session'[c].powers = session[c].powers
    /\ session'[c].at = "renew" => \/ session[c].at = "renew"
                                   \/ session[c].powers \subseteq hexisNode[session[c].id].powers
    /\ session'[c].at = "live" => session[c].at = "live" \/ MarkOnline(c)

\* What it was given to do stays, unless it claims, takes or is given a result.
SameWork(c) == session'[c].inflight = session[c].inflight /\ session'[c].result = session[c].result

SessionMove(c) ==
    \/ session'[c] = session[c]
    \/ session'[c] = NoSession /\ \A d \in Daemons : daemon'[d].conn # c
    \/ GoesOn(c) /\ SameWork(c)
    \/ GoesOn(c) /\ (ClaimInvocation(c) \/ TakeResult(c))
    \/ GoesOn(c) /\ \E d \in Daemons : Report(d) /\ daemon[d].conn = c
    \/ /\ \E d \in Daemons : Connect(d) /\ daemon'[d].conn = c
       /\ session[c].at = "free" /\ session'[c].at = "hello" /\ session'[c].id \in Identities
       /\ session'[c].inflight = Unset /\ session'[c].result = Unset

SessionsMove == session' \in [Sessions -> SessionState] /\ \A c \in Sessions : SessionMove(c)

\* Closing a session tells its daemon and takes the link down.
LEMMA Closing ==
    ASSUME NodesBase, NEW c \in Sessions, NEW told \in {"nothing", "refused"}, Close(c, told)
    PROVE  /\ SessionsMove /\ daemon' \in [Daemons -> DaemonState]
           /\ \A d \in Daemons :
                 /\ daemon'[d].conn = IF daemon[d].conn = c THEN Unset ELSE daemon[d].conn
                 /\ daemon'[d].at = daemon[d].at /\ daemon'[d].invoke = daemon[d].invoke
           /\ session' = [session EXCEPT ![c] = NoSession] /\ displaced' = displaced \ {c}
<1>1. /\ session' = [session EXCEPT ![c] = NoSession] /\ daemon' = HangUp(c, told)
      /\ displaced' = displaced \ {c}
  BY DEF Close
<1>2. ASSUME NEW d \in Daemons
      PROVE  /\ daemon'[d] \in DaemonState
             /\ daemon'[d].conn = IF daemon[d].conn = c THEN Unset ELSE daemon[d].conn
             /\ daemon'[d].at = daemon[d].at /\ daemon'[d].invoke = daemon[d].invoke
  <2>1. daemon[d] \in DaemonState
    BY Typed
  <2>2. CASE daemon[d].conn # c
    <3>1. daemon'[d] = daemon[d]
      BY <1>1, <2>2 DEF HangUp
    <3>2. QED
      BY <2>1, <2>2, <3>1
  <2>3. CASE daemon[d].conn = c
    <3> DEFINE heard == IF told = "nothing" THEN daemon[d].heard ELSE told
    <3>1. daemon'[d] = [daemon[d] EXCEPT !.conn = Unset, !.heard = heard]
      BY <1>1, <2>3 DEF HangUp
    <3>2. heard \in {"nothing", "paired", "refused"}
      BY <2>1 DEF DaemonState
    <3> HIDE DEF heard
    <3>3. QED
      BY <2>1, <2>3, <3>1, <3>2 DEF DaemonState
  <2>4. QED
    BY <2>2, <2>3
<1>3. daemon' \in [Daemons -> DaemonState]
  BY <1>1, <1>2 DEF HangUp
<1>4. session' \in [Sessions -> SessionState]
  BY <1>1, Typed, NoSessionType
<1>5. ASSUME NEW b \in Sessions PROVE SessionMove(b)
  <2>1. CASE b # c
    BY <1>1, <2>1, Typed DEF SessionMove
  <2>2. CASE b = c
    <3>1. session'[c] = NoSession /\ \A d \in Daemons : daemon'[d].conn # c
      BY <1>1, <1>2, Typed
    <3>2. QED
      BY <2>2, <3>1 DEF SessionMove
  <2>3. QED
    BY <2>1, <2>2
<1>6. QED
  BY <1>1, <1>2, <1>3, <1>4, <1>5 DEF SessionsMove

LEMMA SessionsStay == ASSUME NodesBase, session' = session PROVE SessionsMove
BY Typed DEF SessionsMove, SessionMove

\* One session moves.
LEMMA SessionMoves ==
    ASSUME NodesBase, NEW c \in Sessions, NEW s \in SessionState,
           session' = [session EXCEPT ![c] = s], SessionMove(c)
    PROVE  SessionsMove
BY Typed DEF SessionsMove, SessionMove

\* One session goes on with its handshake.
LEMMA Proceeds ==
    ASSUME NodesBase, NEW c \in Sessions, session[c].at # "free",
           NEW at \in {"hello", "waiting", "again", "renew", "mark", "live"},
           NEW p \in Pairings \cup {Unset},
           \/ session' = [session EXCEPT ![c].at = at]
           \/ session' = [session EXCEPT ![c].at = at, ![c].pairing = p],
           at = "renew" => session[c].powers \subseteq hexisNode[session[c].id].powers,
           at = "live" => MarkOnline(c)
    PROVE  SessionsMove
<1> DEFINE s == [session[c] EXCEPT !.at = at, !.pairing = session'[c].pairing]
<1>1. session[c] \in SessionState /\ session \in [Sessions -> SessionState]
  BY Typed
<1>2. session'[c].pairing \in Pairings \cup {Unset} /\ s \in SessionState
  <2>1. CASE session' = [session EXCEPT ![c].at = at]
    <3>1. session'[c].pairing = session[c].pairing
      BY <1>1, <2>1 DEF SessionState
    <3>2. QED
      BY <1>1, <3>1 DEF SessionState
  <2>2. CASE session' = [session EXCEPT ![c].at = at, ![c].pairing = p]
    <3>1. session'[c].pairing = p
      BY <1>1, <2>2 DEF SessionState
    <3>2. QED
      BY <1>1, <3>1 DEF SessionState
  <2>3. QED
    BY <2>1, <2>2
<1>3. session' = [session EXCEPT ![c] = s]
  <2>1. CASE session' = [session EXCEPT ![c].at = at]
    <3>1. session'[c].pairing = session[c].pairing
      BY <1>1, <2>1 DEF SessionState
    <3>2. [session[c] EXCEPT !.at = at] = s
      BY <1>1, <3>1 DEF SessionState
    <3>3. QED
      BY <2>1, <3>2, Zenon
  <2>2. CASE session' = [session EXCEPT ![c].at = at, ![c].pairing = p]
    <3>1. session'[c].pairing = p
      BY <1>1, <2>2 DEF SessionState
    <3>2. QED
      BY <1>1, <2>2, <3>1, Zenon
  <2>3. QED
    BY <2>1, <2>2
<1>4. /\ s.at = at /\ s.id = session[c].id /\ s.powers = session[c].powers
      /\ s.inflight = session[c].inflight /\ s.result = session[c].result
  BY <1>1 DEF SessionState
<1> HIDE DEF s
<1>5. GoesOn(c) /\ SameWork(c)
  BY <1>1, <1>3, <1>4 DEF GoesOn, SameWork
<1>6. QED
  BY <1>2, <1>3, <1>5, SessionMoves DEF SessionMove

LEMMA SessionSteps == ASSUME NodesBase, [NodesNext]_nodesVars PROVE SessionsMove
<1>1. /\ session \in [Sessions -> SessionState] /\ daemon \in [Daemons -> DaemonState]
      /\ \A c \in Sessions : session[c].at # "free" => session[c].id \in Identities
      /\ Unset \notin Sessions
  BY Typed
<1>2. ASSUME session' = session PROVE SessionsMove
  BY <1>2, SessionsStay
<1>3. ASSUME NEW c \in Sessions, NEW told \in {"nothing", "refused"}, Close(c, told)
      PROVE  SessionsMove
  BY <1>3, Closing
<1>4. ASSUME NEW c \in Sessions, Recognize(c) PROVE SessionsMove
  BY <1>1, <1>4, Proceeds DEF Recognize, Handshakes, Covered
<1>5. ASSUME NEW c \in Sessions, Renew(c) PROVE SessionsMove
  BY <1>1, <1>5, Proceeds DEF Renew
<1>6. ASSUME NEW c \in Sessions, RefuseNode(c) PROVE SessionsMove
  BY <1>3, <1>6 DEF RefuseNode
<1>7. ASSUME NEW c \in Sessions, AskOperator(c) PROVE SessionsMove
  <2>1. CASE session[c].at = "again"
    BY <1>3, <1>7, <2>1 DEF AskOperator
  <2>2. CASE session[c].at # "again"
    <3> DEFINE i == session[c].id
               a == CHOOSE x \in IF OpenFor(i) # {} THEN OpenFor(i) ELSE SparePairings : TRUE
    <3>1. session[c].at = "hello" /\ session' = [session EXCEPT ![c].at = "waiting", ![c].pairing = a]
      BY <1>7, <2>2 DEF AskOperator, Handshakes
    <3>2. a \in Pairings
      BY <1>7 DEF AskOperator, OpenFor, SparePairings
    <3> HIDE DEF a
    <3>3. QED
      BY <3>1, <3>2, Proceeds
  <2>3. QED
    BY <2>1, <2>2
<1>8. ASSUME NEW c \in Sessions, AwaitPairing(c) PROVE SessionsMove
  <2>1. CASE session' = [session EXCEPT ![c].at = "again", ![c].pairing = Unset]
    BY <1>8, <2>1, Proceeds DEF AwaitPairing
  <2>2. CASE Close(c, "refused")
    BY <1>3, <2>2
  <2>3. QED
    BY <1>8, <2>1, <2>2 DEF AwaitPairing
<1>9. ASSUME NEW c \in Sessions, MarkOnline(c) PROVE SessionsMove
  <2>1. CASE session' = [session EXCEPT ![c].at = "live"]
    BY <1>9, <2>1, Proceeds DEF MarkOnline
  <2>2. QED
    BY <1>3, <1>9, <2>1 DEF MarkOnline
<1>10. ASSUME NEW c \in Sessions, ClaimInvocation(c) PROVE SessionsMove
  <2>1. PICK k \in Invocations : session' = [session EXCEPT ![c].inflight = k]
    BY <1>10 DEF ClaimInvocation
  <2>2. session[c].at = "live" /\ session' \in [Sessions -> SessionState]
    BY <1>1, <1>10, <2>1 DEF ClaimInvocation, SessionState
  <2>3. GoesOn(c)
    BY <1>1, <2>1, <2>2 DEF GoesOn, SessionState
  <2>4. \A b \in Sessions \ {c} : session'[b] = session[b]
    BY <1>1, <2>1
  <2>5. QED
    BY <1>10, <2>2, <2>3, <2>4 DEF SessionsMove, SessionMove
<1>11. ASSUME NEW c \in Sessions, TakeResult(c) PROVE SessionsMove
  <2> DEFINE s == [session[c] EXCEPT !.inflight = Unset, !.result = Unset]
  <2>1. s \in SessionState /\ s.at = session[c].at /\ s.id = session[c].id
        /\ s.powers = session[c].powers
    BY <1>1 DEF SessionState
  <2>2. session[c].at = "live" /\ session' = [session EXCEPT ![c] = s]
    <3>1. session' = [session EXCEPT ![c].inflight = Unset, ![c].result = Unset]
      BY <1>11 DEF TakeResult
    <3>2. session[c].at = "live"
      BY <1>11 DEF TakeResult
    <3>3. QED
      BY <1>1, <3>1, <3>2, Zenon
  <2> HIDE DEF s
  <2>3. GoesOn(c)
    BY <1>1, <2>1, <2>2 DEF GoesOn
  <2>4. QED
    BY <1>11, <2>1, <2>2, <2>3, SessionMoves DEF SessionMove
<1>12. ASSUME NEW c \in Sessions, Heartbeat(c) PROVE SessionsMove
  BY <1>2, <1>3, <1>12 DEF Heartbeat
<1>13. ASSUME NEW c \in Sessions, ExpireQueued(c) PROVE SessionsMove
  BY <1>2, <1>13 DEF ExpireQueued
<1>14. ASSUME NEW c \in Sessions, Disconnect(c) \/ SessionFails(c) PROVE SessionsMove
  BY <1>3, <1>14 DEF Disconnect, SessionFails
<1>15. CASE GatewayDies
  <2>1. /\ session' = [c \in Sessions |-> NoSession]
        /\ \A d \in Daemons : daemon'[d].conn = Unset
    BY <1>1, <1>15 DEF GatewayDies, DaemonState
  <2>2. \A c \in Sessions : SessionMove(c)
    BY <1>1, <2>1 DEF SessionMove
  <2>3. QED
    BY <2>1, <2>2, NoSessionType DEF SessionsMove
<1>16. ASSUME NEW d \in Daemons, Connect(d) PROVE SessionsMove
  <2>1. PICK powers \in Offers, c \in SpareSessions :
          /\ session' = [session EXCEPT ![c] = [NoSession EXCEPT !.at = "hello",
                            !.id = IdentityOf[d], !.powers = powers]]
          /\ daemon' = [daemon EXCEPT ![d] = [at |-> "greeting", conn |-> c,
                            heard |-> "nothing", invoke |-> Unset]]
    BY <1>16 DEF Connect
  <2> DEFINE s == [NoSession EXCEPT !.at = "hello", !.id = IdentityOf[d], !.powers = powers]
  <2>2. IdentityOf[d] \in Identities /\ powers \in SUBSET Powers
    BY NodesAssumption DEF NodesAssumption
  <2>3. s \in SessionState /\ s.at = "hello" /\ s.id = IdentityOf[d]
        /\ s.inflight = Unset /\ s.result = Unset
    BY <2>2 DEF NoSession, SessionState
  <2>4. c \in Sessions /\ session[c].at = "free" /\ daemon'[d].conn = c
    BY <1>1, <2>1 DEF SpareSessions
  <2>5. session' = [session EXCEPT ![c] = s]
    BY <2>1
  <2> HIDE DEF s
  <2>6. session'[c] = s
    BY <1>1, <2>4, <2>5
  <2>7. SessionMove(c)
    BY <1>16, <2>2, <2>3, <2>4, <2>6 DEF SessionMove
  <2>8. QED
    BY <2>3, <2>4, <2>5, <2>7, SessionMoves
<1>17. ASSUME NEW d \in Daemons, Report(d) PROVE SessionsMove
  <2> DEFINE c == daemon[d].conn
  <2>1. CASE c = Unset
    BY <1>2, <1>17, <2>1 DEF Report
  <2>2. CASE c # Unset /\ session[c].at # "free"
    <3>1. c \in Sessions /\ daemon[d].invoke \in Invocations \cup {Unset}
          /\ session' = [session EXCEPT ![c].result = daemon[d].invoke]
      BY <1>1, <1>17, <2>2 DEF Report, DaemonState
    <3> HIDE DEF c
    <3>2. session' \in [Sessions -> SessionState]
      BY <1>1, <3>1 DEF SessionState
    <3>3. GoesOn(c)
      BY <1>1, <2>2, <3>1, <3>2 DEF GoesOn, SessionState
    <3>4. \A b \in Sessions \ {c} : session'[b] = session[b]
      BY <1>1, <3>1
    <3>5. QED
      BY <1>17, <3>2, <3>3, <3>4 DEF SessionsMove, SessionMove, c
  <2>3. QED
    BY <2>1, <2>2 DEF NodesBase, Links
<1>18. ASSUME NEW d \in Daemons, \/ Hear(d) \/ Perform(d) \/ Reconnect(d)
                                 \/ LinkBreaks(d) \/ DaemonStops(d)
       PROVE  SessionsMove
  BY <1>2, <1>18 DEF Hear, Perform, Reconnect, LinkBreaks, DaemonStops
<1>19. ASSUME NEW a \in Pairings, NEW yes \in BOOLEAN, PairingLapses(a) \/ Decide(a, yes)
       PROVE  SessionsMove
  BY <1>2, <1>19 DEF PairingLapses, Decide
<1>20. ASSUME NEW i \in Identities, Revoke(i) \/ GrowStale(i) PROVE SessionsMove
  BY <1>2, <1>20 DEF Revoke, GrowStale
<1>21. ASSUME NEW k \in Invocations, \/ AskerStep(k) \/ CheckNode(k) \/ AskerDies(k)
                                     \/ InvocationLapses(k)
       PROVE  SessionsMove
  BY <1>2, <1>21 DEF AskerStep, CreateInvocation, TakeAnswer, GiveUpWaiting, CheckNode,
     AskerDies, InvocationLapses
<1>22. QED
  BY <1>2, <1>4, <1>5, <1>6, <1>7, <1>8, <1>9, <1>10, <1>11, <1>12, <1>13, <1>14, <1>15,
     <1>16, <1>17, <1>18, <1>19, <1>20, <1>21
  DEF NodesNext, SessionStep, DaemonStep, nodesVars

-----------------------------------------------------------------------------
(* What one step does to a daemon.                                         *)

\* A daemon that is left with its task: it may lose its connection, and is not
\* heard to begin or end its work.
Idles(d) ==
    /\ daemon'[d].conn \in {daemon[d].conn, Unset} /\ daemon'[d].invoke = daemon[d].invoke
    /\ daemon'[d].at = "working" <=> daemon[d].at = "working"

Stops(d) == daemon'[d].conn = Unset /\ daemon'[d].invoke = Unset /\ daemon'[d].at = "gone"

DaemonsMove ==
    /\ daemon' \in [Daemons -> DaemonState]
    /\ \/ performed' = performed /\ \A d \in Daemons : Idles(d) \/ Stops(d)
       \/ \E d \in Daemons : Connect(d) \/ Perform(d) \/ Report(d)
       \/ \E c \in Sessions : ClaimInvocation(c)

\* One daemon moves.
LEMMA DaemonMoves ==
    ASSUME NodesBase, NEW d \in Daemons, NEW s \in DaemonState,
           daemon' = [daemon EXCEPT ![d] = s], performed' = performed, Idles(d) \/ Stops(d)
    PROVE  DaemonsMove
BY Typed DEF DaemonsMove, Idles, Stops

LEMMA DaemonSteps == ASSUME NodesBase, [NodesNext]_nodesVars PROVE DaemonsMove
<1>1. /\ daemon \in [Daemons -> DaemonState] /\ session \in [Sessions -> SessionState]
      /\ Unset \notin Sessions
  BY Typed
<1>2. ASSUME daemon' = daemon, performed' = performed PROVE DaemonsMove
  BY <1>1, <1>2 DEF DaemonsMove, Idles
<1>3. ASSUME NEW c \in Sessions, NEW told \in {"nothing", "refused"}, Close(c, told),
             performed' = performed
      PROVE  DaemonsMove
  <2>1. \A d \in Daemons : Idles(d)
    BY <1>3, Closing DEF Idles
  <2>2. QED
    BY <1>3, <2>1, Closing DEF DaemonsMove
<1>4. ASSUME NEW c \in Sessions, \/ Recognize(c) \/ Renew(c) \/ RefuseNode(c) \/ AskOperator(c)
                                 \/ AwaitPairing(c)
      PROVE  DaemonsMove
  BY <1>2, <1>3, <1>4 DEF Recognize, Renew, RefuseNode, AskOperator, AwaitPairing
<1>5. ASSUME NEW c \in Sessions, MarkOnline(c) PROVE DaemonsMove
  <2>1. CASE daemon' = Tell(c, "paired")
    <3>1. \A d \in Daemons : daemon'[d] \in DaemonState /\ Idles(d)
      BY <1>1, <2>1 DEF Tell, DaemonState, Idles
    <3>2. QED
      BY <1>5, <2>1, <3>1 DEF MarkOnline, DaemonsMove, Tell
  <2>2. QED
    BY <1>3, <1>5, <2>1 DEF MarkOnline
<1>6. ASSUME NEW c \in Sessions, ClaimInvocation(c) PROVE DaemonsMove
  <2>1. PICK k \in Invocations :
          daemon' = [d \in Daemons |-> IF daemon[d].conn = c
                        THEN [daemon[d] EXCEPT !.invoke = k] ELSE daemon[d]]
    BY <1>6 DEF ClaimInvocation
  <2>2. \A d \in Daemons : daemon'[d] \in DaemonState
    BY <1>1, <2>1 DEF DaemonState
  <2>3. QED
    BY <1>6, <2>1, <2>2 DEF DaemonsMove
<1>7. ASSUME NEW c \in Sessions, \/ ExpireQueued(c) \/ Heartbeat(c) \/ TakeResult(c)
                                 \/ Disconnect(c) \/ SessionFails(c)
      PROVE  DaemonsMove
  BY <1>2, <1>3, <1>7 DEF ExpireQueued, Heartbeat, TakeResult, Disconnect, SessionFails
<1>8. CASE GatewayDies
  <2>1. daemon' = [d \in Daemons |-> [daemon[d] EXCEPT !.conn = Unset]] /\ performed' = performed
    BY <1>8 DEF GatewayDies
  <2>2. \A d \in Daemons : daemon'[d] \in DaemonState /\ Idles(d)
    BY <1>1, <2>1 DEF DaemonState, Idles
  <2>3. QED
    BY <2>1, <2>2 DEF DaemonsMove
<1>9. ASSUME NEW d \in Daemons, Connect(d) PROVE DaemonsMove
  <2>1. PICK c \in SpareSessions :
          daemon' = [daemon EXCEPT ![d] = [at |-> "greeting", conn |-> c,
                        heard |-> "nothing", invoke |-> Unset]]
    BY <1>9 DEF Connect
  <2>2. daemon' \in [Daemons -> DaemonState]
    BY <1>1, <2>1 DEF DaemonState, SpareSessions
  <2>3. QED
    BY <1>9, <2>2 DEF DaemonsMove
<1>10. ASSUME NEW d \in Daemons, Perform(d) PROVE DaemonsMove
  <2>1. daemon' \in [Daemons -> DaemonState]
    BY <1>1, <1>10 DEF Perform, DaemonState
  <2>2. QED
    BY <1>10, <2>1 DEF DaemonsMove
<1>11. ASSUME NEW d \in Daemons, Report(d) PROVE DaemonsMove
  <2> DEFINE at == IF daemon[d].conn = Unset THEN "off" ELSE "running"
             s == [daemon[d] EXCEPT !.invoke = Unset, !.at = at]
  <2>1. at \in {"off", "running"} /\ daemon' = [daemon EXCEPT ![d].invoke = Unset, ![d].at = at]
    BY <1>11 DEF Report
  <2> HIDE DEF at
  <2>2. s \in DaemonState
    BY <1>1, <2>1 DEF DaemonState
  <2>3. daemon' = [daemon EXCEPT ![d] = s]
    BY <1>1, <2>1, Zenon
  <2> HIDE DEF s
  <2>4. QED
    BY <1>1, <1>11, <2>2, <2>3 DEF DaemonsMove
<1>12. ASSUME NEW d \in Daemons, NEW at \in {"running", "gone", "off"},
              daemon' = [daemon EXCEPT ![d].at = at], daemon[d].at # "working",
              performed' = performed
       PROVE  DaemonsMove
  <2> DEFINE s == [daemon[d] EXCEPT !.at = at]
  <2>1. s \in DaemonState /\ s.conn = daemon[d].conn /\ s.invoke = daemon[d].invoke /\ s.at = at
    BY <1>1 DEF DaemonState
  <2>2. daemon' = [daemon EXCEPT ![d] = s]
    BY <1>12, Zenon
  <2> HIDE DEF s
  <2>3. Idles(d)
    BY <1>1, <1>12, <2>1, <2>2 DEF Idles
  <2>4. QED
    BY <1>12, <2>1, <2>2, <2>3, DaemonMoves
<1>13. ASSUME NEW d \in Daemons, Hear(d) PROVE DaemonsMove
  <2>1. daemon[d].at = "greeting" /\ performed' = performed
    BY <1>13 DEF Hear
  <2>2. \E at \in {"running", "gone", "off"} : daemon' = [daemon EXCEPT ![d].at = at]
    BY <1>13 DEF Hear
  <2>3. QED
    BY <1>12, <2>1, <2>2
<1>14. ASSUME NEW d \in Daemons, Reconnect(d) PROVE DaemonsMove
  BY <1>12, <1>14 DEF Reconnect
<1>15. ASSUME NEW d \in Daemons, LinkBreaks(d) PROVE DaemonsMove
  <2>1. daemon' = [daemon EXCEPT ![d].conn = Unset] /\ performed' = performed
    BY <1>15 DEF LinkBreaks
  <2>2. daemon' \in [Daemons -> DaemonState] /\ \A e \in Daemons : Idles(e)
    BY <1>1, <2>1 DEF DaemonState, Idles
  <2>3. QED
    BY <2>1, <2>2 DEF DaemonsMove
<1>16. ASSUME NEW d \in Daemons, DaemonStops(d) PROVE DaemonsMove
  <2> DEFINE s == [at |-> "gone", conn |-> Unset, heard |-> "nothing", invoke |-> Unset]
  <2>1. s \in DaemonState /\ daemon' = [daemon EXCEPT ![d] = s] /\ performed' = performed
    BY <1>16 DEF DaemonStops, DaemonState
  <2>2. Stops(d)
    BY <1>1, <2>1 DEF Stops
  <2>3. QED
    BY <2>1, <2>2, DaemonMoves
<1>17. ASSUME NEW a \in Pairings, NEW yes \in BOOLEAN, PairingLapses(a) \/ Decide(a, yes)
       PROVE  DaemonsMove
  BY <1>2, <1>17 DEF PairingLapses, Decide
<1>18. ASSUME NEW i \in Identities, Revoke(i) \/ GrowStale(i) PROVE DaemonsMove
  BY <1>2, <1>18 DEF Revoke, GrowStale
<1>19. ASSUME NEW k \in Invocations, \/ AskerStep(k) \/ CheckNode(k) \/ AskerDies(k)
                                     \/ InvocationLapses(k)
       PROVE  DaemonsMove
  BY <1>2, <1>19 DEF AskerStep, CreateInvocation, TakeAnswer, GiveUpWaiting, CheckNode,
     AskerDies, InvocationLapses
<1>20. QED
  BY <1>2, <1>4, <1>5, <1>6, <1>7, <1>8, <1>9, <1>10, <1>11, <1>13, <1>14, <1>15, <1>16,
     <1>17, <1>18, <1>19
  DEF NodesNext, SessionStep, DaemonStep, nodesVars

-----------------------------------------------------------------------------
(* What one step does to the row of an identity.                           *)

\* The capabilities of a row change by a handshake's second statement or by
\* the operator's approval.
PowersMove(i) ==
    \/ hexisNode'[i].powers = hexisNode[i].powers
    \/ \E c \in Sessions : /\ session[c].at = "renew" /\ session[c].id = i
                           /\ hexisNode'[i].powers = session[c].powers
    \/ hexisNode'[i].powers \subseteq granted'[i]

NodesMove ==
    /\ hexisNode' \in [Identities -> NodeRow] /\ granted' \in [Identities -> SUBSET Powers]
    /\ \A i \in Identities : granted[i] \subseteq granted'[i] /\ PowersMove(i)

LEMMA NodeRowsOK ==
    ASSUME NEW row \in NodeRow, NEW c \in Sessions
    PROVE  /\ Online(row, c) \in NodeRow /\ Online(row, c).powers = row.powers
           /\ Online(row, c).conn = c
           /\ Offline(row, c) \in NodeRow /\ Offline(row, c).powers = row.powers
           /\ Offline(row, c).conn \in {row.conn, Unset}
           /\ row.conn # c => Offline(row, c).conn = row.conn
<1>1. /\ Online(row, c) \in NodeRow /\ Online(row, c).powers = row.powers
      /\ Online(row, c).conn = c
  BY DEF Online, NodeRow
<1>2. /\ Offline(row, c) \in NodeRow /\ Offline(row, c).powers = row.powers
      /\ Offline(row, c).conn \in {row.conn, Unset}
      /\ row.conn # c => Offline(row, c).conn = row.conn
  BY DEF Offline, NodeRow
<1>3. QED
  BY <1>1, <1>2

LEMMA NodeSteps == ASSUME NodesBase, [NodesNext]_nodesVars PROVE NodesMove
<1>1. /\ hexisNode \in [Identities -> NodeRow] /\ session \in [Sessions -> SessionState]
      /\ granted \in [Identities -> SUBSET Powers] /\ pairing \in [Pairings -> PairingRow]
      /\ \A c \in Sessions : session[c].at # "free" => session[c].id \in Identities
  BY Typed
<1>2. ASSUME NEW i \in Identities, NEW row \in NodeRow, row.powers = hexisNode[i].powers,
             hexisNode' = [hexisNode EXCEPT ![i] = row], granted' = granted
      PROVE  NodesMove
  BY <1>1, <1>2 DEF NodesMove, PowersMove
<1>3. ASSUME hexisNode' = hexisNode, granted' = granted PROVE NodesMove
  BY <1>1, <1>3 DEF NodesMove, PowersMove
<1>4. ASSUME NEW c \in Sessions, session[c].at # "free", granted' = granted,
             hexisNode' \in {hexisNode, LeaveRow(c)}
      PROVE  NodesMove
  <2>1. CASE hexisNode' = LeaveRow(c)
    <3>1. hexisNode' = [hexisNode EXCEPT ![session[c].id] = Offline(hexisNode[session[c].id], c)]
      BY <2>1 DEF LeaveRow
    <3>2. session[c].id \in Identities
      BY <1>1, <1>4
    <3>3. hexisNode[session[c].id] \in NodeRow
      BY <1>1, <3>2
    <3>4. /\ Offline(hexisNode[session[c].id], c) \in NodeRow
          /\ Offline(hexisNode[session[c].id], c).powers = hexisNode[session[c].id].powers
      BY <3>3, NodeRowsOK
    <3>5. QED
      BY <1>2, <1>4, <3>1, <3>2, <3>4
  <2>2. QED
    BY <1>3, <1>4, <2>1
<1>5. ASSUME NEW c \in Sessions, session[c].at # "free", granted' = granted,
             \/ hexisNode' = hexisNode
             \/ hexisNode' = [hexisNode EXCEPT ![session[c].id] = Online(@, c)]
      PROVE  NodesMove
  <2>1. CASE hexisNode' = [hexisNode EXCEPT ![session[c].id] = Online(@, c)]
    <3>1. session[c].id \in Identities
      BY <1>1, <1>5
    <3>2. QED
      BY <1>1, <1>2, <1>5, <2>1, <3>1, NodeRowsOK
  <2>2. QED
    BY <1>3, <1>5, <2>1
<1>6. ASSUME NEW c \in Sessions, Renew(c) PROVE NodesMove
  <2> DEFINE i == session[c].id
             row == [hexisNode[i] EXCEPT !.powers = session[c].powers]
  <2>1. /\ session[c].at = "renew" /\ granted' = granted
        /\ hexisNode' = [hexisNode EXCEPT ![i].powers = session[c].powers]
    BY <1>6 DEF Renew
  <2>2. i \in Identities /\ session[c].powers \in SUBSET Powers
    BY <1>1, <2>1 DEF SessionState
  <2>3. row \in NodeRow /\ row.powers = session[c].powers
    BY <1>1, <2>2 DEF NodeRow
  <2>4. hexisNode' = [hexisNode EXCEPT ![i] = row]
    BY <2>1, Zenon
  <2> HIDE DEF row
  <2>5. QED
    BY <1>1, <2>1, <2>2, <2>3, <2>4 DEF NodesMove, PowersMove
<1>7. ASSUME NEW c \in Sessions, MarkOnline(c) \/ Heartbeat(c) \/ TakeResult(c) PROVE NodesMove
  <2>1. CASE MarkOnline(c)
    BY <1>5, <2>1 DEF MarkOnline
  <2>2. CASE Heartbeat(c)
    BY <1>5, <2>2 DEF Heartbeat
  <2>3. CASE TakeResult(c)
    BY <1>5, <2>3 DEF TakeResult
  <2>4. QED
    BY <1>7, <2>1, <2>2, <2>3
<1>8. ASSUME NEW c \in Sessions, Disconnect(c) \/ SessionFails(c) PROVE NodesMove
  BY <1>4, <1>8 DEF Disconnect, SessionFails
<1>9. ASSUME NEW c \in Sessions, \/ Recognize(c) \/ RefuseNode(c) \/ AskOperator(c)
                                 \/ AwaitPairing(c) \/ ClaimInvocation(c) \/ ExpireQueued(c)
      PROVE  NodesMove
  BY <1>3, <1>9 DEF Recognize, RefuseNode, AskOperator, AwaitPairing, ClaimInvocation, ExpireQueued
<1>10. ASSUME NEW a \in Pairings, NEW yes \in BOOLEAN, Decide(a, yes) PROVE NodesMove
  <2> DEFINE p == pairing[a]
             row == ApprovedRow(hexisNode[p.id], p.powers)
  <2>1. CASE /\ hexisNode' = [hexisNode EXCEPT ![p.id] = ApprovedRow(@, p.powers)]
             /\ granted' = [granted EXCEPT ![p.id] = @ \cup p.powers]
    <3>1. p.powers \in SUBSET Powers
      BY <1>1 DEF PairingRow
    <3>2. CASE p.id \in Identities
      <4>1. row \in NodeRow /\ row.powers = p.powers
        BY <1>1, <3>1, <3>2 DEF ApprovedRow, NodeRow
      <4>2. hexisNode' = [hexisNode EXCEPT ![p.id] = row]
        BY <2>1
      <4> HIDE DEF row, p
      <4>3. QED
        BY <1>1, <2>1, <3>1, <3>2, <4>1, <4>2 DEF NodesMove, PowersMove
    <3>3. CASE p.id \notin Identities
      <4>1. hexisNode' = hexisNode /\ granted' = granted
        BY <1>1, <2>1, <3>3
      <4>2. QED
        BY <1>3, <4>1
    <3>4. QED
      BY <3>2, <3>3
  <2>2. QED
    BY <1>3, <1>10, <2>1 DEF Decide
<1>11. ASSUME NEW i \in Identities, Revoke(i) PROVE NodesMove
  <2> DEFINE row == [hexisNode[i] EXCEPT !.status = "revoked", !.conn = Unset]
  <2>1. granted' = granted /\ hexisNode' = [hexisNode EXCEPT ![i].status = "revoked", ![i].conn = Unset]
    BY <1>11 DEF Revoke
  <2>2. row \in NodeRow /\ row.powers = hexisNode[i].powers
    BY <1>1 DEF NodeRow
  <2>3. hexisNode' = [hexisNode EXCEPT ![i] = row]
    BY <2>1, Zenon
  <2> HIDE DEF row
  <2>4. QED
    BY <1>2, <2>1, <2>2, <2>3
<1>12. ASSUME NEW i \in Identities, GrowStale(i) PROVE NodesMove
  <2> DEFINE row == [hexisNode[i] EXCEPT !.fresh = FALSE]
  <2>1. granted' = granted /\ hexisNode' = [hexisNode EXCEPT ![i].fresh = FALSE]
    BY <1>12 DEF GrowStale
  <2>2. row \in NodeRow /\ row.powers = hexisNode[i].powers
    BY <1>1 DEF NodeRow
  <2>3. QED
    BY <1>2, <2>1, <2>2
<1>13. ASSUME NEW d \in Daemons, DaemonStep(d) \/ LinkBreaks(d) \/ DaemonStops(d) PROVE NodesMove
  BY <1>3, <1>13 DEF DaemonStep, Connect, Hear, Perform, Report, Reconnect, LinkBreaks, DaemonStops
<1>14. ASSUME NEW k \in Invocations, \/ AskerStep(k) \/ CheckNode(k) \/ AskerDies(k)
                                     \/ InvocationLapses(k)
       PROVE  NodesMove
  BY <1>3, <1>14 DEF AskerStep, CreateInvocation, TakeAnswer, GiveUpWaiting, CheckNode,
     AskerDies, InvocationLapses
<1>15. CASE GatewayDies \/ \E a \in Pairings : PairingLapses(a)
  BY <1>3, <1>15 DEF GatewayDies, PairingLapses
<1>16. QED
  BY <1>3, <1>6, <1>7, <1>8, <1>9, <1>10, <1>11, <1>12, <1>13, <1>14, <1>15
  DEF NodesNext, SessionStep, nodesVars

-----------------------------------------------------------------------------
(* What one step does to a pairing request, an invocation and its asker.   *)

LEMMA LapseType == ASSUME NEW p \in PairingRow PROVE Lapse(p) \in PairingRow
BY DEF Lapse, PairingRow

LEMMA PairingSteps ==
    ASSUME NodesBase, [NodesNext]_nodesVars
    PROVE  pairing' \in [Pairings -> PairingRow]
<1>1. pairing \in [Pairings -> PairingRow] /\ session \in [Sessions -> SessionState]
      /\ \A c \in Sessions : session[c].at # "free" => session[c].id \in Identities
  BY Typed
<1>2. Lapsing \in [Pairings -> PairingRow]
  BY <1>1, LapseType DEF Lapsing
<1>3. ASSUME NEW a \in Pairings, NEW p \in PairingRow,
             \/ pairing' = [pairing EXCEPT ![a] = p]
             \/ pairing' = [Lapsing EXCEPT ![a] = p]
      PROVE  pairing' \in [Pairings -> PairingRow]
  BY <1>1, <1>2, <1>3
<1>4. ASSUME NEW c \in Sessions, Recognize(c) \/ RefuseNode(c)
      PROVE  pairing' \in [Pairings -> PairingRow]
  BY <1>2, <1>4 DEF Recognize, RefuseNode
<1>5. ASSUME NEW c \in Sessions, AskOperator(c) PROVE pairing' \in [Pairings -> PairingRow]
  <2> DEFINE i == session[c].id
             a == CHOOSE x \in IF OpenFor(i) # {} THEN OpenFor(i) ELSE SparePairings : TRUE
             p == [status |-> "pending", id |-> i, powers |-> session[c].powers, late |-> FALSE]
  <2>1. pairing' = Lapsing \/ pairing' = [Lapsing EXCEPT ![a] = p]
    BY <1>5 DEF AskOperator
  <2>2. a \in Pairings
    BY <1>5 DEF AskOperator, OpenFor, SparePairings
  <2>3. p \in PairingRow
    BY <1>1 DEF PairingRow, SessionState
  <2> HIDE DEF a, p
  <2>4. QED
    BY <1>2, <1>3, <2>1, <2>2, <2>3
<1>6. ASSUME NEW c \in Sessions, AwaitPairing(c) PROVE pairing' \in [Pairings -> PairingRow]
  <2> DEFINE a == session[c].pairing
  <2>1. pairing' = [pairing EXCEPT ![a] = Lapse(pairing[a])]
    BY <1>6 DEF AwaitPairing
  <2>2. CASE a \in Pairings
    BY <1>1, <1>3, <2>1, <2>2, LapseType
  <2>3. CASE a \notin Pairings
    BY <1>1, <2>1, <2>3
  <2>4. QED
    BY <2>2, <2>3
<1>7. ASSUME NEW a \in Pairings, NEW yes \in BOOLEAN, PairingLapses(a) \/ Decide(a, yes)
      PROVE  pairing' \in [Pairings -> PairingRow]
  <2>1. CASE PairingLapses(a)
    BY <1>1, <2>1 DEF PairingLapses, PairingRow
  <2>2. CASE Decide(a, yes)
    <3>1. \E s \in {"expired", "approved", "denied"} : pairing' = [pairing EXCEPT ![a].status = s]
      BY <2>2 DEF Decide
    <3>2. QED
      BY <1>1, <3>1 DEF PairingRow
  <2>3. QED
    BY <1>7, <2>1, <2>2
<1>8. ASSUME NEW c \in Sessions,
             \/ Renew(c) \/ MarkOnline(c) \/ ClaimInvocation(c) \/ ExpireQueued(c)
             \/ Heartbeat(c) \/ TakeResult(c) \/ Disconnect(c) \/ SessionFails(c)
      PROVE  pairing' = pairing
  BY <1>8 DEF Renew, MarkOnline, ClaimInvocation, ExpireQueued, Heartbeat, TakeResult,
     Disconnect, SessionFails
<1>9. ASSUME NEW d \in Daemons, DaemonStep(d) \/ LinkBreaks(d) \/ DaemonStops(d)
      PROVE  pairing' = pairing
  BY <1>9 DEF DaemonStep, Connect, Hear, Perform, Report, Reconnect, LinkBreaks, DaemonStops
<1>10. ASSUME NEW k \in Invocations, \/ AskerStep(k) \/ CheckNode(k) \/ AskerDies(k)
                                     \/ InvocationLapses(k)
       PROVE  pairing' = pairing
  BY <1>10 DEF AskerStep, CreateInvocation, TakeAnswer, GiveUpWaiting, CheckNode,
     AskerDies, InvocationLapses
<1>11. CASE GatewayDies \/ \E i \in Identities : Revoke(i) \/ GrowStale(i)
  BY <1>1, <1>11 DEF GatewayDies, Revoke, GrowStale
<1>12. QED
  BY <1>1, <1>4, <1>5, <1>6, <1>7, <1>8, <1>9, <1>10, <1>11
  DEF NodesNext, SessionStep, nodesVars

\* An invocation is entered for a capability its node has; then it keeps both
\* and its status moves on, to a result only for a session that has one.
Entered(k) ==
    /\ asker[k].at = "none" /\ asker'[k].at = "checked" /\ invocation'[k].status = "none"
    /\ invocation'[k].id \in Identities
    /\ invocation'[k].power \in hexisNode[invocation'[k].id].powers

StatusMoves(k) ==
    \/ invocation'[k].status = invocation[k].status
    \/ CreateInvocation(k) /\ invocation'[k].status = "queued"
    \/ invocation[k].status \in Running /\ invocation'[k].status \in {"expired", "cancelled"}
    \/ /\ invocation[k].status = "queued" /\ invocation'[k].status = "dispatched"
       /\ \E c \in Sessions : ClaimInvocation(c) /\ session'[c].inflight = k
    \/ /\ invocation[k].status = "dispatched" /\ invocation'[k].status \in {"succeeded", "failed"}
       /\ \E c \in Sessions : session[c].result = k

Continues(k) == /\ invocation'[k].id = invocation[k].id
                /\ invocation'[k].power = invocation[k].power /\ StatusMoves(k)

InvocationsMove == /\ invocation' \in [Invocations -> InvocationRow]
                   /\ \A k \in Invocations : Entered(k) \/ Continues(k)

LEMMA InvocationMoves ==
    ASSUME NodesBase, NEW k \in Invocations, NEW row \in InvocationRow,
           invocation' = [invocation EXCEPT ![k] = row], Entered(k) \/ Continues(k)
    PROVE  InvocationsMove
BY Typed DEF InvocationsMove, Continues, StatusMoves

LEMMA ExpiringRows ==
    ASSUME NodesBase, NEW i
    PROVE  /\ Expiring(i) \in [Invocations -> InvocationRow]
           /\ \A k \in Invocations :
                 /\ Expiring(i)[k].id = invocation[k].id /\ Expiring(i)[k].power = invocation[k].power
                 /\ \/ Expiring(i)[k].status = invocation[k].status
                    \/ invocation[k].status \in Running /\ Expiring(i)[k].status = "expired"
                 /\ QueuedFor(k, i) => Expiring(i)[k] = invocation[k]
<1>1. \A k \in Invocations : invocation[k] \in InvocationRow
  BY Typed
<1>2. ASSUME NEW k \in Invocations
      PROVE  /\ Expiring(i)[k] \in InvocationRow
             /\ Expiring(i)[k].id = invocation[k].id /\ Expiring(i)[k].power = invocation[k].power
             /\ \/ Expiring(i)[k].status = invocation[k].status
                \/ invocation[k].status \in Running /\ Expiring(i)[k].status = "expired"
             /\ QueuedFor(k, i) => Expiring(i)[k] = invocation[k]
  BY <1>1 DEF Expiring, OverdueIn, QueuedFor, InvocationRow, Running, Answers
<1>3. QED
  BY <1>2 DEF Expiring

LEMMA InvocationSteps == ASSUME NodesBase, [NodesNext]_nodesVars PROVE InvocationsMove
<1>1. /\ invocation \in [Invocations -> InvocationRow] /\ hexisNode \in [Identities -> NodeRow]
      /\ asker \in [Invocations -> AskerState] /\ session \in [Sessions -> SessionState]
  BY Typed
<1>2. ASSUME invocation' = invocation PROVE InvocationsMove
  BY <1>1, <1>2 DEF InvocationsMove, Continues, StatusMoves
<1>3. ASSUME NEW c \in Sessions, ClaimInvocation(c) PROVE InvocationsMove
  <2> DEFINE i == session[c].id
             rows == Expiring(i)
  <2>1. PICK k \in Invocations :
          /\ QueuedFor(k, i) /\ session' = [session EXCEPT ![c].inflight = k]
          /\ invocation' = [rows EXCEPT ![k].status = "dispatched"]
    BY <1>3 DEF ClaimInvocation
  <2>2. /\ rows \in [Invocations -> InvocationRow] /\ rows[k] = invocation[k]
        /\ invocation[k].status = "queued" /\ session'[c].inflight = k
    BY <1>1, <2>1, ExpiringRows DEF QueuedFor, SessionState
  <2>3. \A j \in Invocations \ {k} : Continues(j)
    <3>1. \A j \in Invocations \ {k} : invocation'[j] = rows[j]
      BY <2>1, <2>2
    <3>2. QED
      BY <3>1, ExpiringRows DEF Continues, StatusMoves
  <2> HIDE DEF rows
  <2>4. /\ invocation' \in [Invocations -> InvocationRow] /\ invocation'[k].status = "dispatched"
        /\ invocation'[k].id = invocation[k].id /\ invocation'[k].power = invocation[k].power
    BY <2>1, <2>2 DEF InvocationRow, Running
  <2>5. Continues(k)
    BY <1>3, <2>2, <2>4 DEF Continues, StatusMoves
  <2>6. QED
    BY <2>3, <2>4, <2>5 DEF InvocationsMove
<1>4. ASSUME NEW c \in Sessions, ExpireQueued(c) PROVE InvocationsMove
  BY <1>4, ExpiringRows DEF ExpireQueued, InvocationsMove, Continues, StatusMoves
<1>5. ASSUME NEW c \in Sessions, TakeResult(c) PROVE InvocationsMove
  <2> DEFINE k == session[c].result
  <2>1. PICK s \in {"succeeded", "failed"} :
          invocation' = [invocation EXCEPT ![k] = Result(invocation[k], s)]
    BY <1>5 DEF TakeResult
  <2>2. k \in Invocations
    BY <1>1, <1>5 DEF TakeResult, SessionState
  <2>3. /\ Result(invocation[k], s) \in InvocationRow
        /\ Result(invocation[k], s).id = invocation[k].id
        /\ Result(invocation[k], s).power = invocation[k].power
        /\ \/ Result(invocation[k], s).status = invocation[k].status
           \/ invocation[k].status = "dispatched" /\ Result(invocation[k], s).status = s
    BY <1>1, <2>2 DEF Result, InvocationRow, Answers
  <2>4. session[c].result = k
    OBVIOUS
  <2> HIDE DEF k
  <2>5. Continues(k)
    BY <1>1, <2>1, <2>2, <2>3, <2>4 DEF Continues, StatusMoves
  <2>6. QED
    BY <2>1, <2>2, <2>3, <2>5, InvocationMoves
<1>6. ASSUME NEW i \in Identities, Revoke(i) PROVE InvocationsMove
  <2>1. invocation' = Cancelling(i)
    BY <1>6 DEF Revoke
  <2>2. ASSUME NEW k \in Invocations PROVE invocation'[k] \in InvocationRow /\ Continues(k)
    BY <1>1, <2>1 DEF Cancelling, InvocationRow, Answers, Continues, StatusMoves
  <2>3. QED
    BY <2>1, <2>2 DEF InvocationsMove, Cancelling
<1>7. ASSUME NEW k \in Invocations, CheckNode(k) PROVE InvocationsMove
  <2>1. PICK i \in Identities : \E p \in hexisNode[i].powers :
          invocation' = [invocation EXCEPT ![k] =
                [status |-> "none", id |-> i, power |-> p, late |-> FALSE]]
    BY <1>7 DEF CheckNode
  <2>2. PICK power \in hexisNode[i].powers :
          invocation' = [invocation EXCEPT ![k] =
                [status |-> "none", id |-> i, power |-> power, late |-> FALSE]]
    BY <2>1
  <2> DEFINE row == [status |-> "none", id |-> i, power |-> power, late |-> FALSE]
  <2>3. power \in Powers /\ row \in InvocationRow
    BY <1>1 DEF NodeRow, InvocationRow
  <2>4. asker[k].at = "none" /\ asker'[k].at = "checked"
    BY <1>1, <1>7 DEF CheckNode, AskerState
  <2>5. Entered(k)
    BY <1>1, <2>2, <2>4 DEF Entered
  <2>6. QED
    BY <2>2, <2>3, <2>5, InvocationMoves
<1>8. ASSUME NEW k \in Invocations, NEW row \in InvocationRow,
             row.id = invocation[k].id, row.power = invocation[k].power,
             \/ row.status = invocation[k].status
             \/ CreateInvocation(k) /\ row.status = "queued"
             \/ invocation[k].status \in Running /\ row.status = "expired",
             invocation' = [invocation EXCEPT ![k] = row]
      PROVE  InvocationsMove
  <2>1. Continues(k)
    BY <1>1, <1>8 DEF Continues, StatusMoves
  <2>2. QED
    BY <1>8, <2>1, InvocationMoves
<1>9. ASSUME NEW k \in Invocations, CreateInvocation(k) PROVE InvocationsMove
  <2> DEFINE row == [invocation[k] EXCEPT !.status = "queued"]
  <2>1. /\ row \in InvocationRow /\ row.id = invocation[k].id /\ row.power = invocation[k].power
        /\ row.status = "queued"
    BY <1>1 DEF InvocationRow, Running
  <2>2. invocation' = [invocation EXCEPT ![k] = row]
    BY <1>9 DEF CreateInvocation
  <2>3. QED
    BY <1>8, <1>9, <2>1, <2>2
<1>10. ASSUME NEW k \in Invocations, GiveUpWaiting(k) PROVE InvocationsMove
  <2> DEFINE row == GivenUp(invocation[k])
  <2>1. /\ row \in InvocationRow /\ row.id = invocation[k].id /\ row.power = invocation[k].power
        /\ \/ row.status = invocation[k].status
           \/ invocation[k].status \in Running /\ row.status = "expired"
    BY <1>1 DEF GivenUp, InvocationRow, Answers
  <2>2. invocation' = [invocation EXCEPT ![k] = row]
    BY <1>10 DEF GiveUpWaiting
  <2> HIDE DEF row
  <2>3. QED
    BY <1>8, <2>1, <2>2
<1>11. ASSUME NEW k \in Invocations, InvocationLapses(k) PROVE InvocationsMove
  <2> DEFINE row == [invocation[k] EXCEPT !.late = TRUE]
  <2>1. /\ row \in InvocationRow /\ row.id = invocation[k].id /\ row.power = invocation[k].power
        /\ row.status = invocation[k].status
    BY <1>1 DEF InvocationRow
  <2>2. invocation' = [invocation EXCEPT ![k] = row]
    BY <1>11 DEF InvocationLapses
  <2>3. QED
    BY <1>8, <2>1, <2>2
<1>12. ASSUME NEW k \in Invocations, TakeAnswer(k) \/ AskerDies(k) PROVE InvocationsMove
  BY <1>2, <1>12 DEF TakeAnswer, AskerDies
<1>13. ASSUME NEW c \in Sessions,
              \/ Recognize(c) \/ Renew(c) \/ RefuseNode(c) \/ AskOperator(c) \/ AwaitPairing(c)
              \/ MarkOnline(c) \/ Heartbeat(c) \/ Disconnect(c) \/ SessionFails(c)
       PROVE  InvocationsMove
  BY <1>2, <1>13 DEF Recognize, Renew, RefuseNode, AskOperator, AwaitPairing, MarkOnline,
     Heartbeat, Disconnect, SessionFails
<1>14. ASSUME NEW d \in Daemons, DaemonStep(d) \/ LinkBreaks(d) \/ DaemonStops(d)
       PROVE  InvocationsMove
  BY <1>2, <1>14 DEF DaemonStep, Connect, Hear, Perform, Report, Reconnect, LinkBreaks, DaemonStops
<1>15. ASSUME NEW a \in Pairings, NEW yes \in BOOLEAN, PairingLapses(a) \/ Decide(a, yes)
       PROVE  InvocationsMove
  BY <1>2, <1>15 DEF PairingLapses, Decide
<1>16. CASE GatewayDies \/ \E i \in Identities : GrowStale(i)
  BY <1>2, <1>16 DEF GatewayDies, GrowStale
<1>17. QED
  BY <1>2, <1>3, <1>4, <1>5, <1>6, <1>7, <1>9, <1>10, <1>11, <1>12, <1>13, <1>14, <1>15, <1>16
  DEF NodesNext, SessionStep, AskerStep, nodesVars

AskersMove ==
    /\ asker' \in [Invocations -> AskerState]
    /\ \A k \in Invocations :
          \/ asker'[k] = asker[k]
          \/ CheckNode(k) \/ CreateInvocation(k) \/ TakeAnswer(k) \/ GiveUpWaiting(k) \/ AskerDies(k)

LEMMA AskerSteps == ASSUME NodesBase, [NodesNext]_nodesVars PROVE AskersMove
<1>1. asker \in [Invocations -> AskerState] /\ invocation \in [Invocations -> InvocationRow]
  BY Typed
<1>2. ASSUME asker' = asker PROVE AskersMove
  BY <1>1, <1>2 DEF AskersMove
<1>3. ASSUME NEW k \in Invocations, NEW s \in AskerState, asker' = [asker EXCEPT ![k] = s],
             CheckNode(k) \/ CreateInvocation(k) \/ TakeAnswer(k) \/ GiveUpWaiting(k) \/ AskerDies(k)
      PROVE  AskersMove
  <2>1. asker' \in [Invocations -> AskerState] /\ \A j \in Invocations \ {k} : asker'[j] = asker[j]
    BY <1>1, <1>3
  <2>2. QED
    BY <1>3, <2>1 DEF AskersMove
<1>4. ASSUME NEW k \in Invocations, CheckNode(k) \/ CreateInvocation(k) \/ AskerDies(k)
      PROVE  AskersMove
  <2>1. PICK at \in {"checked", "waiting", "dead"} : asker' = [asker EXCEPT ![k].at = at]
    BY <1>4 DEF CheckNode, CreateInvocation, AskerDies
  <2> DEFINE s == [asker[k] EXCEPT !.at = at]
  <2>2. s \in AskerState /\ asker' = [asker EXCEPT ![k] = s]
    BY <1>1, <2>1 DEF AskerState
  <2> HIDE DEF s
  <2>3. QED
    BY <1>3, <1>4, <2>2
<1>5. ASSUME NEW k \in Invocations, TakeAnswer(k) PROVE AskersMove
  <2> DEFINE s == [at |-> "answered", told |-> invocation[k].status]
  <2>1. s \in AskerState /\ asker' = [asker EXCEPT ![k] = s]
    BY <1>5 DEF TakeAnswer, AskerState
  <2> HIDE DEF s
  <2>2. QED
    BY <1>3, <1>5, <2>1
<1>6. ASSUME NEW k \in Invocations, GiveUpWaiting(k) PROVE AskersMove
  <2> DEFINE s == [at |-> "answered", told |-> GivenUp(invocation[k]).status]
  <2>1. invocation[k].status # "none"
    BY <1>6 DEF GiveUpWaiting, NodesBase, Asked
  <2>2. GivenUp(invocation[k]).status \in Answers
    BY <1>1, <2>1 DEF GivenUp, InvocationRow, Running, Answers
  <2>3. asker' = [asker EXCEPT ![k] = s]
    BY <1>6 DEF GiveUpWaiting
  <2>4. s \in AskerState
    BY <2>2 DEF AskerState
  <2> HIDE DEF s
  <2>5. QED
    BY <1>3, <1>6, <2>3, <2>4
<1>7. ASSUME NEW k \in Invocations, InvocationLapses(k) PROVE AskersMove
  BY <1>2, <1>7 DEF InvocationLapses
<1>8. ASSUME NEW c \in Sessions, SessionStep(c) \/ SessionFails(c) PROVE AskersMove
  BY <1>2, <1>8 DEF SessionStep, Recognize, Renew, RefuseNode, AskOperator, AwaitPairing,
     MarkOnline, ClaimInvocation, ExpireQueued, Heartbeat, TakeResult, Disconnect, SessionFails
<1>9. ASSUME NEW d \in Daemons, DaemonStep(d) \/ LinkBreaks(d) \/ DaemonStops(d) PROVE AskersMove
  BY <1>2, <1>9 DEF DaemonStep, Connect, Hear, Perform, Report, Reconnect, LinkBreaks, DaemonStops
<1>10. ASSUME NEW a \in Pairings, NEW yes \in BOOLEAN, PairingLapses(a) \/ Decide(a, yes)
       PROVE  AskersMove
  BY <1>2, <1>10 DEF PairingLapses, Decide
<1>11. CASE GatewayDies \/ \E i \in Identities : Revoke(i) \/ GrowStale(i)
  BY <1>2, <1>11 DEF GatewayDies, Revoke, GrowStale
<1>12. QED
  BY <1>2, <1>4, <1>5, <1>6, <1>7, <1>8, <1>9, <1>10, <1>11 DEF NodesNext, AskerStep, nodesVars

LEMMA AskedStep == ASSUME NodesBase, [NodesNext]_nodesVars PROVE Asked'
<1>1. /\ AskersMove /\ InvocationsMove /\ Asked
      /\ asker \in [Invocations -> AskerState] /\ invocation \in [Invocations -> InvocationRow]
  BY AskerSteps, InvocationSteps, Typed DEF NodesBase
<1> DEFINE Holds(k) ==
      /\ asker'[k].at \in {"none", "checked"} => invocation'[k].status = "none"
      /\ asker'[k].at = "waiting" => invocation'[k].status # "none"
      /\ asker'[k].at = "answered" => /\ asker'[k].told = invocation'[k].status
                                      /\ asker'[k].told \in Answers
<1>2. ASSUME NEW k \in Invocations, asker'[k] = asker[k] PROVE Holds(k)
  <2>1. Continues(k)
    BY <1>1, <1>2 DEF InvocationsMove, Entered
  <2>2. ~CreateInvocation(k)
    BY <1>1, <1>2 DEF CreateInvocation, AskerState
  <2>3. QED
    BY <1>1, <1>2, <2>1, <2>2 DEF Continues, StatusMoves, Asked, Running, Answers
<1>3. ASSUME NEW k \in Invocations, CheckNode(k) PROVE Holds(k)
  <2>1. asker'[k].at = "checked" /\ invocation'[k].status = "none"
    BY <1>1, <1>3 DEF CheckNode, AskerState, InvocationRow
  <2>2. QED
    BY <2>1
<1>4. ASSUME NEW k \in Invocations, CreateInvocation(k) PROVE Holds(k)
  <2>1. asker'[k].at = "waiting" /\ invocation'[k].status = "queued"
    BY <1>1, <1>4 DEF CreateInvocation, AskerState, InvocationRow
  <2>2. QED
    BY <2>1
<1>5. ASSUME NEW k \in Invocations, TakeAnswer(k) PROVE Holds(k)
  BY <1>1, <1>5 DEF TakeAnswer
<1>6. ASSUME NEW k \in Invocations, GiveUpWaiting(k) PROVE Holds(k)
  <2>1. /\ asker'[k].at = "answered" /\ asker'[k].told = GivenUp(invocation[k]).status
        /\ invocation'[k] = GivenUp(invocation[k]) /\ invocation[k].status # "none"
    BY <1>1, <1>6 DEF GiveUpWaiting, Asked
  <2>2. GivenUp(invocation[k]).status \in Answers
    BY <1>1, <2>1 DEF GivenUp, InvocationRow, Running, Answers
  <2>3. QED
    BY <2>1, <2>2
<1>7. ASSUME NEW k \in Invocations, AskerDies(k) PROVE Holds(k)
  <2>1. asker'[k].at = "dead"
    BY <1>1, <1>7 DEF AskerDies, AskerState
  <2>2. QED
    BY <2>1
<1>8. QED
  BY <1>1, <1>2, <1>3, <1>4, <1>5, <1>6, <1>7 DEF AskersMove, Asked

-----------------------------------------------------------------------------
(* The base is kept.                                                       *)

LEMMA NodeHistory ==
    ASSUME NodesBase, [NodesNext]_nodesVars
    PROVE  /\ performed' \in [Invocations -> Nat]
           /\ displaced' \subseteq Sessions /\ nodeTrouble' \in 0..MaxNodeTrouble
<1>1. /\ performed \in [Invocations -> Nat] /\ daemon \in [Daemons -> DaemonState]
      /\ displaced \subseteq Sessions /\ nodeTrouble \in 0..MaxNodeTrouble /\ MaxNodeTrouble \in Nat
  BY Typed, NodesAssumption DEF NodesAssumption
<1>2. NodeFails => nodeTrouble' \in 0..MaxNodeTrouble
  BY <1>1 DEF NodeFails
<1>3. ASSUME NEW c \in Sessions, SessionStep(c) \/ SessionFails(c)
      PROVE  performed' = performed /\ displaced' \subseteq Sessions
             /\ (nodeTrouble' = nodeTrouble \/ NodeFails)
  <2>1. /\ performed' = performed /\ (nodeTrouble' = nodeTrouble \/ NodeFails)
    BY <1>3 DEF SessionStep, Recognize, Renew, RefuseNode, AskOperator, AwaitPairing,
       MarkOnline, ClaimInvocation, ExpireQueued, Heartbeat, TakeResult, Disconnect, SessionFails
  <2>2. displaced' \subseteq Sessions
    BY <1>1, <1>3 DEF SessionStep, Recognize, Renew, RefuseNode, AskOperator, AwaitPairing,
       MarkOnline, ClaimInvocation, ExpireQueued, Heartbeat, TakeResult, Disconnect,
       SessionFails, Close, Released
  <2>3. QED
    BY <2>1, <2>2
<1>4. ASSUME NEW d \in Daemons, DaemonStep(d) \/ LinkBreaks(d) \/ DaemonStops(d)
      PROVE  /\ performed' \in [Invocations -> Nat] /\ displaced' = displaced
             /\ nodeTrouble' = nodeTrouble \/ NodeFails
  <2>1. CASE Perform(d)
    BY <1>1, <2>1 DEF Perform, DaemonState
  <2>2. QED
    BY <1>1, <1>4, <2>1 DEF DaemonStep, Connect, Hear, Report, Reconnect, LinkBreaks, DaemonStops
<1>5. ASSUME NEW k \in Invocations, \/ AskerStep(k) \/ CheckNode(k) \/ AskerDies(k)
                                    \/ InvocationLapses(k)
      PROVE  performed' = performed /\ displaced' = displaced
             /\ (nodeTrouble' = nodeTrouble \/ NodeFails)
  BY <1>5 DEF AskerStep, CreateInvocation, TakeAnswer, GiveUpWaiting, CheckNode, AskerDies,
     InvocationLapses
<1>6. ASSUME NEW a \in Pairings, NEW yes \in BOOLEAN, PairingLapses(a) \/ Decide(a, yes)
      PROVE  performed' = performed /\ displaced' = displaced /\ nodeTrouble' = nodeTrouble
  BY <1>6 DEF PairingLapses, Decide
<1>7. ASSUME NEW i \in Identities, Revoke(i) \/ GrowStale(i)
      PROVE  /\ performed' = performed /\ displaced' \subseteq Sessions
             /\ nodeTrouble' = nodeTrouble \/ NodeFails
  BY <1>1, <1>7 DEF Revoke, GrowStale
<1>8. CASE GatewayDies
  BY <1>1, <1>2, <1>8 DEF GatewayDies
<1>9. CASE UNCHANGED nodesVars
  BY <1>1, <1>9 DEF nodesVars
<1>10. QED
  BY <1>1, <1>2, <1>3, <1>4, <1>5, <1>6, <1>7, <1>8, <1>9 DEF NodesNext

LEMMA NamedStep == ASSUME NodesBase, [NodesNext]_nodesVars PROVE Named'
<1>1. SessionsMove
  BY SessionSteps
<1>2. ASSUME NEW c \in Sessions, session'[c].at # "free" PROVE session'[c].id \in Identities
  <2>1. CASE session'[c] = session[c]
    BY <1>2, <2>1, Typed
  <2>2. CASE GoesOn(c)
    BY <2>2, Typed DEF GoesOn
  <2>3. QED
    BY <1>1, <1>2, <2>1, <2>2, NoSessionType DEF SessionsMove, SessionMove
<1>3. QED
  BY <1>2 DEF Named

\* A daemon connects to a free session with nothing to do.
LEMMA Connecting ==
    ASSUME NodesBase, NEW d \in Daemons, Connect(d)
    PROVE  \E c \in Sessions :
             /\ session[c].at = "free" /\ session'[c].at = "hello" /\ session'[c].result = Unset
             /\ \A b \in Sessions \ {c} : session'[b] = session[b]
             /\ daemon'[d].conn = c /\ daemon'[d].invoke = Unset /\ daemon'[d].at = "greeting"
             /\ \A e \in Daemons \ {d} : daemon'[e] = daemon[e] /\ daemon[e].conn # c
             /\ performed' = performed
<1>1. /\ daemon \in [Daemons -> DaemonState] /\ session \in [Sessions -> SessionState]
      /\ Links /\ Unset \notin Sessions
  BY Typed DEF NodesBase
<1>2. PICK powers \in Offers, c \in SpareSessions :
        /\ session' = [session EXCEPT ![c] = [NoSession EXCEPT !.at = "hello",
                          !.id = IdentityOf[d], !.powers = powers]]
        /\ daemon' = [daemon EXCEPT ![d] = [at |-> "greeting", conn |-> c,
                          heard |-> "nothing", invoke |-> Unset]]
  BY DEF Connect
<1>3. c \in Sessions /\ session[c].at = "free" /\ performed' = performed
  BY DEF SpareSessions, Connect
<1>4. session'[c].at = "hello" /\ session'[c].result = Unset
  BY <1>1, <1>2, <1>3 DEF NoSession
<1>5. \A e \in Daemons : daemon[e].conn # c
  BY <1>1, <1>3 DEF Links
<1>6. QED
  BY <1>1, <1>2, <1>3, <1>4, <1>5

\* Who has a connection had it before, or connects.
LEMMA Connections ==
    ASSUME NodesBase, [NodesNext]_nodesVars
    PROVE  \/ \A d \in Daemons : daemon'[d].conn \in {daemon[d].conn, Unset}
           \/ \E d \in Daemons : Connect(d)
<1>1. DaemonsMove /\ daemon \in [Daemons -> DaemonState]
  BY DaemonSteps, Typed
<1>2. ASSUME NEW d \in Daemons, Perform(d) \/ Report(d)
      PROVE  \A e \in Daemons : daemon'[e].conn = daemon[e].conn
  BY <1>1, <1>2 DEF Perform, Report, DaemonState
<1>3. ASSUME NEW c \in Sessions, ClaimInvocation(c)
      PROVE  \A e \in Daemons : daemon'[e].conn = daemon[e].conn
  BY <1>1, <1>3 DEF ClaimInvocation, DaemonState
<1>4. QED
  BY <1>1, <1>2, <1>3 DEF DaemonsMove, Idles, Stops

LEMMA LinksStep == ASSUME NodesBase, [NodesNext]_nodesVars PROVE Links'
<1>1. /\ SessionsMove /\ Links /\ daemon \in [Daemons -> DaemonState]
      /\ daemon' \in [Daemons -> DaemonState] /\ Unset \notin Sessions
  BY SessionSteps, DaemonSteps, Typed DEF NodesBase, DaemonsMove
<1>2. ASSUME NEW d \in Daemons, daemon'[d].conn = daemon[d].conn, daemon[d].conn # Unset
      PROVE  session'[daemon[d].conn].at # "free"
  <2>1. daemon[d].conn \in Sessions /\ session[daemon[d].conn].at # "free"
    BY <1>1, <1>2 DEF DaemonState, Links
  <2>2. QED
    BY <1>1, <1>2, <2>1 DEF SessionsMove, SessionMove, GoesOn
<1>3. CASE \A d \in Daemons : daemon'[d].conn \in {daemon[d].conn, Unset}
  BY <1>1, <1>2, <1>3 DEF Links
<1>4. ASSUME NEW d \in Daemons, Connect(d) PROVE Links'
  <2>1. PICK c \in Sessions :
          /\ session'[c].at = "hello" /\ daemon'[d].conn = c
          /\ \A e \in Daemons \ {d} : daemon'[e] = daemon[e] /\ daemon[e].conn # c
    BY <1>4, Connecting
  <2>2. QED
    BY <1>1, <1>2, <2>1 DEF Links
<1>5. QED
  BY <1>3, <1>4, Connections

LEMMA NodesBaseStep == ASSUME NodesBase, [NodesNext]_nodesVars PROVE NodesBase'
<1>1. /\ hexisNode' \in [Identities -> NodeRow] /\ granted' \in [Identities -> SUBSET Powers]
      /\ pairing' \in [Pairings -> PairingRow] /\ invocation' \in [Invocations -> InvocationRow]
      /\ session' \in [Sessions -> SessionState] /\ daemon' \in [Daemons -> DaemonState]
      /\ asker' \in [Invocations -> AskerState]
  BY NodeSteps, PairingSteps, InvocationSteps, SessionSteps, DaemonSteps, AskerSteps
  DEF NodesMove, InvocationsMove, SessionsMove, DaemonsMove, AskersMove
<1>2. NodesTypeOK'
  BY <1>1, NodeHistory DEF NodesTypeOK, NodeRow, PairingRow, InvocationRow, SessionState,
     DaemonState, AskerState
<1>3. QED
  BY <1>2, NamedStep, LinksStep, AskedStep DEF NodesBase

-----------------------------------------------------------------------------
(* Capabilities are granted.                                               *)

\* A handshake that was recognized rewrites the row with what it was granted.
Renewing == \A c \in Sessions :
    session[c].at = "renew" => session[c].powers \subseteq granted[session[c].id]

\* What is asked for was granted.
Entitled == \A k \in Invocations :
    asker[k].at # "none" => /\ invocation[k].id \in Identities
                            /\ invocation[k].power \in granted[invocation[k].id]

RowsGranted == \A i \in Identities : hexisNode[i].powers \subseteq granted[i]

LEMMA RenewingStep == ASSUME NodesBase, [NodesNext]_nodesVars, Renewing, RowsGranted PROVE Renewing'
<1>1. ASSUME NEW c \in Sessions, session'[c].at = "renew"
      PROVE  session'[c].powers \subseteq granted'[session'[c].id]
  <2>1. GoesOn(c) \/ session'[c] = session[c]
    BY <1>1, SessionSteps, NoSessionType DEF SessionsMove, SessionMove
  <2>2. session[c].at # "free" /\ session'[c].id = session[c].id /\ session'[c].powers = session[c].powers
    BY <1>1, <2>1 DEF GoesOn
  <2>3. session[c].id \in Identities
    BY <2>2, Typed
  <2>4. session[c].powers \subseteq granted[session[c].id]
    BY <1>1, <2>1, <2>3 DEF GoesOn, Renewing, RowsGranted
  <2>5. QED
    BY <2>2, <2>3, <2>4, NodeSteps DEF NodesMove
<1>2. QED
  BY <1>1 DEF Renewing

LEMMA RowsGrantedStep == ASSUME NodesBase, [NodesNext]_nodesVars, Renewing, RowsGranted PROVE RowsGranted'
<1>1. ASSUME NEW i \in Identities PROVE hexisNode'[i].powers \subseteq granted'[i]
  <2>1. PowersMove(i) /\ granted[i] \subseteq granted'[i]
    BY NodeSteps DEF NodesMove
  <2>2. QED
    BY <2>1 DEF PowersMove, Renewing, RowsGranted
<1>2. QED
  BY <1>1 DEF RowsGranted

LEMMA EntitledStep == ASSUME NodesBase, [NodesNext]_nodesVars, Entitled, RowsGranted PROVE Entitled'
<1>1. /\ invocation \in [Invocations -> InvocationRow] /\ \A i \in Identities : granted[i] \subseteq granted'[i]
      /\ InvocationsMove /\ AskersMove
  BY Typed, NodeSteps, InvocationSteps, AskerSteps DEF NodesMove
<1>2. ASSUME NEW k \in Invocations, asker'[k].at # "none"
      PROVE  /\ invocation'[k].id \in Identities
             /\ invocation'[k].power \in granted'[invocation'[k].id]
  <2>1. CASE asker[k].at # "none"
    <3>1. Continues(k)
      BY <1>1, <2>1 DEF InvocationsMove, Entered
    <3>2. QED
      BY <1>1, <2>1, <3>1 DEF Continues, Entitled
  <2>2. CASE asker[k].at = "none"
    <3>1. CheckNode(k)
      BY <1>1, <1>2, <2>2 DEF AskersMove, CreateInvocation, TakeAnswer, GiveUpWaiting, AskerDies
    <3>2. PICK i \in Identities : \E p \in hexisNode[i].powers :
            invocation' = [invocation EXCEPT ![k] =
                  [status |-> "none", id |-> i, power |-> p, late |-> FALSE]]
      BY <3>1 DEF CheckNode
    <3>3. invocation'[k].id = i /\ invocation'[k].power \in hexisNode[i].powers
      BY <1>1, <3>2
    <3>4. QED
      BY <1>1, <3>3 DEF RowsGranted
  <2>3. QED
    BY <2>1, <2>2
<1>3. QED
  BY <1>2 DEF Entitled

-----------------------------------------------------------------------------
(* An invocation is run once.                                              *)

Sent(k) == invocation[k].status \notin {"none", "queued"}

\* A linked daemon works for its session on nothing but what that one claimed.
Carried == \A d \in Daemons : daemon[d].conn # Unset /\ daemon[d].invoke # Unset =>
    session[daemon[d].conn].inflight = daemon[d].invoke

\* An invocation is in the hands of one daemon, which has run it once it works.
InHand == \A d \in Daemons :
    /\ daemon[d].invoke # Unset =>
         /\ Sent(daemon[d].invoke)
         /\ performed[daemon[d].invoke] = (IF daemon[d].at = "working" THEN 1 ELSE 0)
         /\ \A e \in Daemons : daemon[e].invoke = daemon[d].invoke => e = d
    /\ daemon[d].at = "working" => daemon[d].invoke # Unset

\* A session has a result of what it claimed only after the run.
ResultsTrue == \A c \in Sessions : session[c].result # Unset =>
    /\ session[c].at # "free" /\ session[c].inflight = session[c].result
    /\ performed[session[c].result] = 1 /\ Sent(session[c].result)
    /\ \A d \in Daemons : daemon[d].conn = c => daemon[d].invoke = Unset

\* A row without a claim was not run, one with a result was.
RunsTold == \A k \in Invocations :
    /\ performed[k] <= 1 /\ (~Sent(k) => performed[k] = 0)
    /\ invocation[k].status \in {"succeeded", "failed"} => performed[k] = 1

OnRecord == Carried /\ InHand /\ ResultsTrue /\ RunsTold

LEMMA SentStays ==
    ASSUME NodesBase, [NodesNext]_nodesVars, NEW k \in Invocations, Sent(k)
    PROVE  Sent(k)'
<1>1. Continues(k)
  BY InvocationSteps DEF InvocationsMove, Entered, Sent, NodesBase, Asked
<1>2. ~CreateInvocation(k)
  BY DEF CreateInvocation, Sent, NodesBase, Asked
<1>3. QED
  BY <1>1, <1>2 DEF Continues, StatusMoves, Sent

\* A claim is of a queued invocation, for the daemon of an idle session.
LEMMA Claims ==
    ASSUME NodesBase, OnRecord, NEW c \in Sessions, ClaimInvocation(c)
    PROVE  /\ \E k \in Invocations :
                 /\ ~Sent(k) /\ invocation'[k].status = "dispatched"
                 /\ session' = [session EXCEPT ![c].inflight = k]
                 /\ session'[c].inflight = k /\ session'[c].result = session[c].result
                 /\ \A d \in Daemons : /\ daemon'[d].conn = daemon[d].conn
                                       /\ daemon'[d].at = daemon[d].at
                                       /\ daemon[d].conn = c => /\ daemon[d].invoke = Unset
                                                                /\ daemon'[d].invoke = k
                                                                /\ daemon[d].at # "working"
                                       /\ daemon[d].conn # c => daemon'[d] = daemon[d]
           /\ session[c].result = Unset /\ performed' = performed
<1>1. /\ daemon \in [Daemons -> DaemonState] /\ session \in [Sessions -> SessionState]
      /\ invocation \in [Invocations -> InvocationRow] /\ Unset \notin Sessions
  BY Typed
<1>2. PICK k \in Invocations :
        /\ QueuedFor(k, session[c].id) /\ session' = [session EXCEPT ![c].inflight = k]
        /\ invocation' = [Expiring(session[c].id) EXCEPT ![k].status = "dispatched"]
        /\ daemon' = [d \in Daemons |-> IF daemon[d].conn = c
                         THEN [daemon[d] EXCEPT !.invoke = k] ELSE daemon[d]]
  BY DEF ClaimInvocation
<1>3. session[c].inflight = Unset /\ performed' = performed
  BY DEF ClaimInvocation
<1>4. ~Sent(k) /\ invocation'[k].status = "dispatched"
  <2>1. Expiring(session[c].id) \in [Invocations -> InvocationRow]
    BY ExpiringRows
  <2>2. QED
    BY <1>2, <2>1 DEF QueuedFor, Sent, InvocationRow
<1>5. session'[c].inflight = k /\ session'[c].result = session[c].result
  BY <1>1, <1>2 DEF SessionState
<1>6. session[c].result = Unset
  BY <1>3 DEF OnRecord, ResultsTrue
<1>7. ASSUME NEW d \in Daemons, daemon[d].conn = c
      PROVE  daemon[d].invoke = Unset /\ daemon[d].at # "working"
  BY <1>1, <1>3, <1>7 DEF OnRecord, Carried, InHand
<1>8. \A d \in Daemons : /\ daemon'[d].conn = daemon[d].conn /\ daemon'[d].at = daemon[d].at
                         /\ daemon[d].conn = c => daemon'[d].invoke = k
                         /\ daemon[d].conn # c => daemon'[d] = daemon[d]
  BY <1>1, <1>2 DEF DaemonState
<1>9. QED
  BY <1>2, <1>3, <1>4, <1>5, <1>6, <1>7, <1>8

LEMMA Performing ==
    ASSUME NodesBase, OnRecord, NEW d \in Daemons, Perform(d)
    PROVE  LET k == daemon[d].invoke IN
           /\ k \in Invocations /\ Sent(k) /\ performed[k] = 0 /\ performed'[k] = 1
           /\ \A j \in Invocations \ {k} : performed'[j] = performed[j]
           /\ daemon'[d].at = "working" /\ session' = session
           /\ daemon'[d].conn = daemon[d].conn /\ daemon'[d].invoke = k
           /\ \A e \in Daemons \ {d} : daemon'[e] = daemon[e]
<1>1. daemon \in [Daemons -> DaemonState] /\ performed \in [Invocations -> Nat]
  BY Typed
<1>2. /\ daemon[d].at = "running" /\ daemon[d].invoke \in Invocations /\ daemon[d].invoke # Unset
      /\ daemon' = [daemon EXCEPT ![d].at = "working"] /\ session' = session
      /\ performed' = [performed EXCEPT ![daemon[d].invoke] = @ + 1]
  BY <1>1 DEF Perform, DaemonState
<1>3. Sent(daemon[d].invoke) /\ performed[daemon[d].invoke] = 0
  BY <1>2 DEF OnRecord, InHand
<1>4. /\ daemon'[d].at = "working" /\ daemon'[d].conn = daemon[d].conn
      /\ daemon'[d].invoke = daemon[d].invoke /\ \A e \in Daemons \ {d} : daemon'[e] = daemon[e]
  BY <1>1, <1>2 DEF DaemonState
<1>5. QED
  BY <1>1, <1>2, <1>3, <1>4

LEMMA Reporting ==
    ASSUME NodesBase, OnRecord, NEW d \in Daemons, Report(d)
    PROVE  LET k == daemon[d].invoke
               c == daemon[d].conn
           IN  /\ k \in Invocations /\ Sent(k) /\ performed[k] = 1 /\ performed' = performed
               /\ daemon'[d].at # "working" /\ daemon'[d].conn = c /\ daemon'[d].invoke = Unset
               /\ \A e \in Daemons \ {d} : daemon'[e] = daemon[e]
               /\ \A b \in Sessions \ {c} : session'[b] = session[b]
               /\ c # Unset => /\ c \in Sessions /\ session'[c].at # "free"
                               /\ session'[c].result = k /\ session'[c].inflight = k
<1>1. /\ daemon \in [Daemons -> DaemonState] /\ session \in [Sessions -> SessionState]
      /\ Links /\ Unset \notin Sessions
  BY Typed DEF NodesBase
<1> DEFINE k == daemon[d].invoke
           c == daemon[d].conn
           at == IF c = Unset THEN "off" ELSE "running"
<1>2. /\ daemon[d].at = "working" /\ performed' = performed
      /\ daemon' = [daemon EXCEPT ![d].invoke = Unset, ![d].at = at]
      /\ session' = IF c = Unset THEN session ELSE [session EXCEPT ![c].result = k]
  BY DEF Report
<1>3. at # "working"
  OBVIOUS
<1> HIDE DEF at
<1>4. k \in Invocations /\ k # Unset /\ Sent(k) /\ performed[k] = 1
  BY <1>1, <1>2 DEF OnRecord, InHand, DaemonState
<1>5. /\ daemon'[d].at = at /\ daemon'[d].conn = c /\ daemon'[d].invoke = Unset
      /\ \A e \in Daemons \ {d} : daemon'[e] = daemon[e]
  BY <1>1, <1>2 DEF DaemonState
<1>6. \A b \in Sessions \ {c} : session'[b] = session[b]
  BY <1>1, <1>2
<1>7. ASSUME c # Unset
      PROVE  /\ c \in Sessions /\ session'[c].at # "free"
             /\ session'[c].result = k /\ session'[c].inflight = k
  <2>1. c \in Sessions /\ session[c].at # "free" /\ session[c].inflight = k
    BY <1>1, <1>4, <1>7 DEF DaemonState, Links, OnRecord, Carried
  <2>2. session' = [session EXCEPT ![c].result = k]
    BY <1>2, <1>7
  <2> HIDE DEF c, k
  <2>3. QED
    BY <1>1, <2>1, <2>2 DEF SessionState
<1>8. QED
  BY <1>2, <1>3, <1>4, <1>5, <1>6, <1>7

\* Any other step leaves the work where it is: a session keeps what it claimed,
\* ends without its daemon, or has taken the result.
Quiet ==
    /\ performed' = performed /\ \A d \in Daemons : Idles(d) \/ Stops(d)
    /\ \A c \in Sessions :
          \/ session'[c] = session[c]
          \/ session'[c] = NoSession /\ \A d \in Daemons : daemon'[d].conn # c
          \/ GoesOn(c) /\ SameWork(c)
          \/ session[c].result # Unset /\ session'[c].inflight = Unset /\ session'[c].result = Unset

LEMMA StepKinds ==
    ASSUME NodesBase, [NodesNext]_nodesVars
    PROVE  \/ Quiet
           \/ \E c \in Sessions : ClaimInvocation(c)
           \/ \E d \in Daemons : Connect(d) \/ Perform(d) \/ Report(d)
<1>1. ASSUME NEW c \in Sessions, TakeResult(c)
      PROVE  session[c].result # Unset /\ session'[c].inflight = Unset /\ session'[c].result = Unset
  <2>1. session[c] \in SessionState /\ session \in [Sessions -> SessionState]
    BY Typed
  <2>2. /\ session[c].result # Unset
        /\ session' = [session EXCEPT ![c].inflight = Unset, ![c].result = Unset]
    BY <1>1 DEF TakeResult
  <2>3. QED
    BY <2>1, <2>2 DEF SessionState
<1>2. SUFFICES ASSUME ~\E c \in Sessions : ClaimInvocation(c),
                      ~\E d \in Daemons : Connect(d) \/ Perform(d) \/ Report(d)
               PROVE  Quiet
  OBVIOUS
<1>3. performed' = performed /\ \A d \in Daemons : Idles(d) \/ Stops(d)
  BY <1>2, DaemonSteps DEF DaemonsMove
<1>4. ASSUME NEW c \in Sessions
      PROVE  \/ session'[c] = session[c]
             \/ session'[c] = NoSession /\ \A d \in Daemons : daemon'[d].conn # c
             \/ GoesOn(c) /\ SameWork(c)
             \/ TakeResult(c)
  BY <1>2, SessionSteps DEF SessionsMove, SessionMove
<1>5. QED
  BY <1>1, <1>3, <1>4 DEF Quiet

LEMMA CarriedStep == ASSUME NodesBase, OnRecord, [NodesNext]_nodesVars PROVE Carried'
<1>1. /\ Carried /\ ResultsTrue /\ Links /\ daemon \in [Daemons -> DaemonState] /\ Unset \notin Sessions
  BY Typed DEF OnRecord, NodesBase
<1>2. ASSUME Quiet, NEW d \in Daemons, daemon'[d].conn # Unset, daemon'[d].invoke # Unset
      PROVE  session'[daemon'[d].conn].inflight = daemon'[d].invoke
  <2>1. /\ daemon'[d].conn = daemon[d].conn /\ daemon'[d].invoke = daemon[d].invoke
        /\ daemon[d].conn \in Sessions
    BY <1>1, <1>2 DEF Quiet, Idles, Stops, DaemonState
  <2>2. /\ session[daemon[d].conn].inflight = daemon[d].invoke
        /\ session[daemon[d].conn].result = Unset
    BY <1>1, <1>2, <2>1 DEF Carried, ResultsTrue
  <2>3. QED
    BY <1>2, <2>1, <2>2 DEF Quiet, SameWork
<1>3. ASSUME NEW c \in Sessions, ClaimInvocation(c) PROVE Carried'
  <2>1. PICK k \in Invocations :
          /\ session' = [session EXCEPT ![c].inflight = k] /\ session'[c].inflight = k
          /\ \A d \in Daemons : /\ daemon'[d].conn = daemon[d].conn
                                /\ daemon[d].conn = c => daemon'[d].invoke = k
                                /\ daemon[d].conn # c => daemon'[d] = daemon[d]
    BY <1>3, Claims
  <2>2. \A b \in Sessions \ {c} : session'[b] = session[b]
    BY <2>1, Typed
  <2>3. QED
    BY <1>1, <2>1, <2>2 DEF Carried, DaemonState
<1>4. ASSUME NEW d \in Daemons, Connect(d) PROVE Carried'
  <2>1. PICK c \in Sessions :
          /\ daemon'[d].conn = c /\ daemon'[d].invoke = Unset
          /\ \A b \in Sessions \ {c} : session'[b] = session[b]
          /\ \A e \in Daemons \ {d} : daemon'[e] = daemon[e] /\ daemon[e].conn # c
    BY <1>4, Connecting
  <2>2. QED
    BY <1>1, <2>1 DEF Carried, DaemonState
<1>5. ASSUME NEW d \in Daemons, Perform(d) PROVE Carried'
  BY <1>1, <1>5, Performing DEF Carried
<1>6. ASSUME NEW d \in Daemons, Report(d) PROVE Carried'
  <2>1. /\ daemon'[d].invoke = Unset /\ \A e \in Daemons \ {d} : daemon'[e] = daemon[e]
        /\ \A b \in Sessions \ {daemon[d].conn} : session'[b] = session[b]
    BY <1>6, Reporting
  <2>2. \A e \in Daemons \ {d} : daemon[e].conn # Unset => daemon[e].conn # daemon[d].conn
    BY <1>1 DEF Links
  <2>3. QED
    BY <1>1, <2>1, <2>2 DEF Carried, DaemonState
<1>7. QED
  BY <1>2, <1>3, <1>4, <1>5, <1>6, StepKinds DEF Carried

LEMMA InHandStep == ASSUME NodesBase, OnRecord, [NodesNext]_nodesVars PROVE InHand'
<1>1. /\ InHand /\ RunsTold /\ Links /\ daemon \in [Daemons -> DaemonState]
      /\ Unset \notin Sessions /\ Unset \notin Invocations
  BY Typed DEF OnRecord, NodesBase
<1>2. \A k \in Invocations : Sent(k) => Sent(k)'
  BY SentStays
<1>3. CASE Quiet
  <2>1. ASSUME NEW d \in Daemons, daemon'[d].invoke # Unset
        PROVE  /\ Sent(daemon[d].invoke) /\ daemon[d].invoke \in Invocations
               /\ daemon'[d].invoke = daemon[d].invoke
               /\ performed'[daemon[d].invoke] = (IF daemon'[d].at = "working" THEN 1 ELSE 0)
               /\ \A e \in Daemons : daemon'[e].invoke = daemon[d].invoke => e = d
    BY <1>1, <1>3, <2>1 DEF Quiet, Idles, Stops, InHand, DaemonState
  <2>2. \A d \in Daemons : daemon'[d].at = "working" => daemon'[d].invoke # Unset
    BY <1>1, <1>3 DEF Quiet, Idles, Stops, InHand
  <2>3. QED
    BY <1>2, <2>1, <2>2 DEF InHand, Sent
<1>4. ASSUME NEW c \in Sessions, ClaimInvocation(c) PROVE InHand'
  <2>1. PICK k \in Invocations :
          /\ ~Sent(k) /\ invocation'[k].status = "dispatched"
          /\ \A d \in Daemons : /\ daemon'[d].at = daemon[d].at
                                /\ daemon[d].conn = c => /\ daemon'[d].invoke = k
                                                         /\ daemon[d].at # "working"
                                /\ daemon[d].conn # c => daemon'[d] = daemon[d]
    BY <1>4, Claims
  <2>2. performed' = performed /\ performed[k] = 0 /\ Sent(k)'
    BY <1>1, <1>4, <2>1, Claims DEF RunsTold, Sent
  <2>3. ASSUME NEW d \in Daemons, daemon[d].conn = c
        PROVE  /\ daemon'[d].invoke = k /\ daemon'[d].at # "working"
               /\ \A e \in Daemons : daemon'[e].invoke = k => e = d
    BY <1>1, <2>1, <2>3 DEF Links, InHand
  <2>4. ASSUME NEW d \in Daemons, daemon[d].conn # c, daemon[d].invoke # Unset
        PROVE  /\ Sent(daemon[d].invoke)' /\ daemon[d].invoke \in Invocations
               /\ \A e \in Daemons : daemon'[e].invoke = daemon[d].invoke => e = d
    BY <1>1, <1>2, <2>1, <2>4 DEF InHand, DaemonState
  <2>5. \A d \in Daemons : daemon'[d].at = "working" => daemon'[d].invoke # Unset
    BY <1>1, <2>1 DEF InHand
  <2>6. ASSUME NEW d \in Daemons, daemon'[d].invoke # Unset
        PROVE  /\ Sent(daemon[d].invoke)'
               /\ performed'[daemon'[d].invoke] = (IF daemon'[d].at = "working" THEN 1 ELSE 0)
               /\ \A e \in Daemons : daemon'[e].invoke = daemon'[d].invoke => e = d
    <3>1. CASE daemon[d].conn = c
      <4>1. daemon'[d].invoke = k /\ Sent(daemon[d].invoke)'
        BY <2>2, <2>3, <3>1 DEF Sent
      <4>2. QED
        BY <2>2, <2>3, <3>1, <4>1
    <3>2. CASE daemon[d].conn # c
      BY <1>1, <2>1, <2>2, <2>4, <2>6, <3>2 DEF InHand, Sent
    <3>3. QED
      BY <3>1, <3>2
  <2>7. QED
    BY <2>5, <2>6 DEF InHand, Sent
<1>5. ASSUME NEW d \in Daemons, Connect(d) PROVE InHand'
  <2>1. /\ daemon'[d].invoke = Unset /\ daemon'[d].at = "greeting" /\ performed' = performed
        /\ \A e \in Daemons \ {d} : daemon'[e] = daemon[e]
    BY <1>5, Connecting
  <2>2. QED
    BY <1>1, <1>2, <2>1 DEF InHand, Sent, DaemonState
<1>6. ASSUME NEW d \in Daemons, Perform(d) PROVE InHand'
  <2> DEFINE k == daemon[d].invoke
  <2>1. /\ k \in Invocations /\ Sent(k) /\ performed'[k] = 1
        /\ \A j \in Invocations \ {k} : performed'[j] = performed[j]
        /\ daemon'[d].at = "working" /\ daemon'[d].invoke = k
        /\ \A e \in Daemons \ {d} : daemon'[e] = daemon[e]
    BY <1>6, Performing
  <2>2. \A e \in Daemons \ {d} : daemon[e].invoke # k
    BY <1>1, <2>1 DEF InHand
  <2> HIDE DEF k
  <2>3. QED
    BY <1>1, <1>2, <2>1, <2>2 DEF InHand, Sent, DaemonState
<1>7. ASSUME NEW d \in Daemons, Report(d) PROVE InHand'
  <2>1. /\ daemon'[d].invoke = Unset /\ daemon'[d].at # "working" /\ performed' = performed
        /\ \A e \in Daemons \ {d} : daemon'[e] = daemon[e]
    BY <1>7, Reporting
  <2>2. QED
    BY <1>1, <1>2, <2>1 DEF InHand, Sent, DaemonState
<1>8. QED
  BY <1>3, <1>4, <1>5, <1>6, <1>7, StepKinds

LEMMA ResultsStep == ASSUME NodesBase, OnRecord, [NodesNext]_nodesVars PROVE ResultsTrue'
<1>1. /\ ResultsTrue /\ InHand /\ Carried /\ Links /\ daemon \in [Daemons -> DaemonState]
      /\ session \in [Sessions -> SessionState] /\ Unset \notin Sessions
  BY Typed DEF OnRecord, NodesBase
<1> DEFINE Holds(c) == session'[c].result # Unset =>
               /\ session'[c].at # "free" /\ session'[c].inflight = session'[c].result
               /\ performed'[session'[c].result] = 1
               /\ invocation'[session'[c].result].status \notin {"none", "queued"}
               /\ \A d \in Daemons : daemon'[d].conn = c => daemon'[d].invoke = Unset
<1>2. ASSUME NEW c \in Sessions, session[c].result # Unset
      PROVE  /\ session[c].result \in Invocations /\ performed[session[c].result] = 1
             /\ session[c].at # "free" /\ session[c].inflight = session[c].result
             /\ invocation'[session[c].result].status \notin {"none", "queued"}
             /\ \A d \in Daemons : daemon[d].conn = c => daemon[d].invoke = Unset
  <2>1. session[c].result \in Invocations /\ Sent(session[c].result)
    BY <1>1, <1>2 DEF ResultsTrue, SessionState
  <2>2. \A k \in Invocations : Sent(k) => invocation'[k].status \notin {"none", "queued"}
    BY SentStays DEF Sent
  <2>3. QED
    BY <1>1, <1>2, <2>1, <2>2 DEF ResultsTrue
<1>3. ASSUME Quiet, NEW c \in Sessions, session'[c].result # Unset PROVE Holds(c)
  <2>1. /\ session'[c].result = session[c].result /\ session'[c].inflight = session[c].inflight
        /\ session[c].at # "free" => session'[c].at # "free"
    BY <1>3, NoSessionType DEF Quiet, GoesOn, SameWork
  <2>2. \A d \in Daemons : daemon'[d].conn = c => daemon'[d].invoke = Unset
    BY <1>1, <1>2, <1>3, <2>1 DEF Quiet, Idles, Stops
  <2>3. QED
    BY <1>2, <1>3, <2>1, <2>2 DEF Quiet
<1>4. ASSUME NEW b \in Sessions, ClaimInvocation(b), NEW c \in Sessions PROVE Holds(c)
  <2>1. PICK k \in Invocations :
          /\ session' = [session EXCEPT ![b].inflight = k] /\ session'[b].result = session[b].result
          /\ \A d \in Daemons : /\ daemon'[d].conn = daemon[d].conn
                                /\ daemon[d].conn # b => daemon'[d] = daemon[d]
    BY <1>4, Claims
  <2>2. session[b].result = Unset /\ performed' = performed
    BY <1>4, Claims
  <2>3. c # b => session'[c] = session[c]
    BY <1>1, <2>1
  <2>4. QED
    BY <1>2, <2>1, <2>2, <2>3
<1>5. ASSUME NEW d \in Daemons, Connect(d), NEW c \in Sessions PROVE Holds(c)
  <2>1. PICK b \in Sessions :
          /\ session'[b].result = Unset /\ \A a \in Sessions \ {b} : session'[a] = session[a]
          /\ daemon'[d].conn = b
          /\ \A e \in Daemons \ {d} : daemon'[e] = daemon[e]
          /\ performed' = performed
    BY <1>5, Connecting
  <2>2. QED
    BY <1>2, <2>1
<1>6. ASSUME NEW d \in Daemons, Perform(d), NEW c \in Sessions PROVE Holds(c)
  <2> DEFINE k == daemon[d].invoke
  <2>1. /\ performed[k] = 0 /\ \A j \in Invocations \ {k} : performed'[j] = performed[j]
        /\ session' = session /\ daemon'[d].conn = daemon[d].conn /\ daemon'[d].invoke = k
        /\ \A e \in Daemons \ {d} : daemon'[e] = daemon[e]
    BY <1>6, Performing
  <2>2. session[c].result # Unset => session[c].result # k
    BY <1>2, <2>1
  <2>3. \A e \in Daemons : daemon'[e].conn = daemon[e].conn /\ daemon'[e].invoke = daemon[e].invoke
    BY <2>1
  <2> HIDE DEF k
  <2>4. QED
    BY <1>2, <2>1, <2>2, <2>3
<1>7. ASSUME NEW d \in Daemons, Report(d), NEW c \in Sessions PROVE Holds(c)
  <2> DEFINE k == daemon[d].invoke
             b == daemon[d].conn
  <2>1. /\ k \in Invocations /\ Sent(k) /\ performed[k] = 1 /\ performed' = performed
        /\ daemon'[d].conn = b /\ daemon'[d].invoke = Unset
        /\ \A e \in Daemons \ {d} : daemon'[e] = daemon[e]
        /\ \A a \in Sessions \ {b} : session'[a] = session[a]
        /\ b # Unset => /\ session'[b].at # "free"
                        /\ session'[b].result = k /\ session'[b].inflight = k
    BY <1>7, Reporting
  <2>2. b # Unset => \A e \in Daemons \ {d} : daemon[e].conn # b
    BY <1>1 DEF Links
  <2>3. invocation'[k].status \notin {"none", "queued"}
    BY <2>1, SentStays DEF Sent
  <2> HIDE DEF k, b
  <2>4. CASE c = b
    BY <1>1, <2>1, <2>2, <2>3, <2>4
  <2>5. CASE c # b
    BY <1>2, <2>1, <2>5
  <2>6. QED
    BY <2>4, <2>5
<1>8. \A c \in Sessions : Holds(c)
  BY <1>3, <1>4, <1>5, <1>6, <1>7, StepKinds
<1>9. QED
  BY <1>8 DEF ResultsTrue, Sent

LEMMA RunsToldStep == ASSUME NodesBase, OnRecord, [NodesNext]_nodesVars PROVE RunsTold'
<1>1. /\ RunsTold /\ ResultsTrue /\ Unset \notin Invocations /\ performed \in [Invocations -> Nat]
  BY Typed DEF OnRecord
<1>2. ASSUME NEW k \in Invocations
      PROVE  \/ performed'[k] = performed[k]
             \/ Sent(k) /\ performed[k] = 0 /\ performed'[k] = 1
  <2>1. CASE \E d \in Daemons : Perform(d)
    BY <2>1, Performing
  <2>2. CASE performed' = performed
    BY <2>2
  <2>3. QED
    BY <2>1, <2>2, StepKinds, Claims, Connecting, Reporting DEF Quiet
<1>3. ASSUME NEW k \in Invocations, invocation'[k].status \in {"succeeded", "failed"}
      PROVE  performed'[k] = 1
  <2>1. Continues(k)
    BY <1>3, InvocationSteps DEF InvocationsMove, Entered
  <2>2. invocation[k].status \in {"succeeded", "failed"} \/ \E c \in Sessions : session[c].result = k
    BY <1>3, <2>1 DEF Continues, StatusMoves
  <2>3. performed[k] = 1
    BY <1>1, <2>2 DEF RunsTold, ResultsTrue
  <2>4. QED
    BY <1>2, <2>3
<1>4. ASSUME NEW k \in Invocations PROVE performed'[k] <= 1 /\ (Sent(k)' \/ performed'[k] = 0)
  <2>1. Sent(k) => Sent(k)'
    BY SentStays
  <2>2. QED
    BY <1>1, <1>2, <2>1 DEF RunsTold
<1>5. QED
  BY <1>3, <1>4 DEF RunsTold

-----------------------------------------------------------------------------
(* A live session has its identity.                                        *)

LEMMA DisplacedStay ==
    ASSUME NodesBase, [NodesNext]_nodesVars, NEW c \in displaced
    PROVE  c \in displaced' \/ session'[c].at # "live"
<1>1. displaced \subseteq Sessions /\ session \in [Sessions -> SessionState]
  BY Typed
<1>2. ASSUME NEW b \in Sessions, NEW told \in {"nothing", "refused"}, Close(b, told)
      PROVE  c \in displaced' \/ session'[c].at # "live"
  BY <1>1, <1>2, Closing, NoSessionType
<1>3. ASSUME displaced \subseteq displaced' PROVE c \in displaced'
  BY <1>3
<1>4. ASSUME NEW b \in Sessions, SessionStep(b) \/ SessionFails(b)
      PROVE  displaced \subseteq displaced' \/ Close(b, "nothing") \/ Close(b, "refused")
  BY <1>4 DEF SessionStep, Recognize, Renew, RefuseNode, AskOperator, AwaitPairing, MarkOnline,
     ClaimInvocation, ExpireQueued, Heartbeat, TakeResult, Disconnect, SessionFails
<1>5. CASE GatewayDies
  BY <1>1, <1>5, NoSessionType DEF GatewayDies
<1>6. ASSUME NEW d \in Daemons, DaemonStep(d) \/ LinkBreaks(d) \/ DaemonStops(d)
      PROVE  displaced' = displaced
  BY <1>6 DEF DaemonStep, Connect, Hear, Perform, Report, Reconnect, LinkBreaks, DaemonStops
<1>7. ASSUME NEW a \in Pairings, NEW yes \in BOOLEAN, PairingLapses(a) \/ Decide(a, yes)
      PROVE  displaced' = displaced
  BY <1>7 DEF PairingLapses, Decide
<1>8. ASSUME NEW i \in Identities, Revoke(i) \/ GrowStale(i) PROVE displaced \subseteq displaced'
  BY <1>8 DEF Revoke, GrowStale
<1>9. ASSUME NEW k \in Invocations, \/ AskerStep(k) \/ CheckNode(k) \/ AskerDies(k)
                                    \/ InvocationLapses(k)
      PROVE  displaced' = displaced
  BY <1>9 DEF AskerStep, CreateInvocation, TakeAnswer, GiveUpWaiting, CheckNode, AskerDies,
     InvocationLapses
<1>10. CASE UNCHANGED nodesVars
  BY <1>10 DEF nodesVars
<1>11. QED
  BY <1>2, <1>3, <1>4, <1>5, <1>6, <1>7, <1>8, <1>9, <1>10 DEF NodesNext

\* A live session loses its row to its own end, or is displaced by the rules.
Keeps(i, c) == \/ hexisNode'[i].conn = hexisNode[i].conn
               \/ c \in displaced' \/ session'[c].at # "live"

LEMMA TakenByTheRules ==
    ASSUME NodesBase, NEW b \in Sessions, session[b].at # "free",
           MayHold(hexisNode[session[b].id], b),
           hexisNode' = [hexisNode EXCEPT ![session[b].id] = Online(@, b)],
           Released(session[b].id) \ {b} \subseteq displaced',
           NEW i \in Identities, NEW c \in Sessions, hexisNode[i].conn = c, session[c].at = "live"
    PROVE  Keeps(i, c)
<1>1. /\ hexisNode \in [Identities -> NodeRow] /\ session[b].id \in Identities /\ Unset \notin Sessions
  BY Typed
<1>2. CASE i # session[b].id
  BY <1>1, <1>2 DEF Keeps
<1>3. CASE i = session[b].id
  <2>1. hexisNode'[i].conn = b
    BY <1>1, <1>3, NodeRowsOK
  <2>2. CASE c = b
    BY <2>1, <2>2 DEF Keeps
  <2>3. CASE c # b
    <3>1. hexisNode[i].status # "online" \/ ~hexisNode[i].fresh
      BY <1>1, <1>3, <2>3 DEF MayHold
    <3>2. c \in Released(i)
      BY <3>1 DEF Released
    <3>3. QED
      BY <1>3, <2>3, <3>2 DEF Keeps
  <2>4. QED
    BY <2>2, <2>3
<1>4. QED
  BY <1>2, <1>3

LEMMA RowsKept ==
    ASSUME NodesBase, [NodesNext]_nodesVars, NEW i \in Identities, NEW c \in Sessions,
           hexisNode[i].conn = c, session[c].at = "live"
    PROVE  Keeps(i, c)
<1>1. /\ hexisNode \in [Identities -> NodeRow] /\ session \in [Sessions -> SessionState]
      /\ \A b \in Sessions : session[b].at # "free" => session[b].id \in Identities
      /\ Unset \notin Sessions
  BY Typed
<1>2. ASSUME hexisNode'[i].conn = hexisNode[i].conn PROVE Keeps(i, c)
  BY <1>2 DEF Keeps
<1>3. ASSUME NEW b \in Sessions, Close(b, "nothing"), session[b].at # "free",
             hexisNode' \in {hexisNode, LeaveRow(b)}
      PROVE  Keeps(i, c)
  <2>1. session'[b].at # "live" /\ session[b].id \in Identities
    BY <1>1, <1>3, Closing, NoSessionType
  <2>2. CASE c # b
    <3>1. \/ hexisNode' = hexisNode
          \/ hexisNode' = [hexisNode EXCEPT ![session[b].id] = Offline(@, b)]
      BY <1>3 DEF LeaveRow
    <3>2. Offline(hexisNode[i], b).conn = hexisNode[i].conn
      BY <1>1, <2>2, NodeRowsOK
    <3>3. hexisNode'[i].conn = hexisNode[i].conn
      BY <1>1, <2>1, <3>1, <3>2
    <3>4. QED
      BY <1>2, <3>3
  <2>3. QED
    BY <2>1, <2>2 DEF Keeps
<1>4. ASSUME NEW b \in Sessions, MarkOnline(b) \/ Heartbeat(b) \/ TakeResult(b) PROVE Keeps(i, c)
  <2>1. CASE hexisNode' = hexisNode
    BY <1>2, <2>1
  <2>2. CASE hexisNode' # hexisNode
    <3>1. /\ session[b].at # "free" /\ MayHold(hexisNode[session[b].id], b)
          /\ hexisNode' = [hexisNode EXCEPT ![session[b].id] = Online(@, b)]
          /\ Released(session[b].id) \ {b} \subseteq displaced'
      BY <1>4, <2>2 DEF MarkOnline, Heartbeat, TakeResult
    <3>2. QED
      BY <3>1, TakenByTheRules
  <2>3. QED
    BY <2>1, <2>2
<1>5. ASSUME NEW b \in Sessions, Disconnect(b) \/ SessionFails(b) PROVE Keeps(i, c)
  BY <1>3, <1>5 DEF Disconnect, SessionFails
<1>6. ASSUME NEW b \in Sessions, Renew(b) PROVE Keeps(i, c)
  <2>1. /\ hexisNode' = [hexisNode EXCEPT ![session[b].id].powers = session[b].powers]
        /\ session[b].id \in Identities
    BY <1>1, <1>6 DEF Renew
  <2>2. hexisNode'[i].conn = hexisNode[i].conn
    BY <1>1, <2>1 DEF NodeRow
  <2>3. QED
    BY <1>2, <2>2
<1>7. ASSUME NEW b \in Sessions, \/ Recognize(b) \/ RefuseNode(b) \/ AskOperator(b)
                                 \/ AwaitPairing(b) \/ ClaimInvocation(b) \/ ExpireQueued(b)
      PROVE  hexisNode' = hexisNode
  BY <1>7 DEF Recognize, RefuseNode, AskOperator, AwaitPairing, ClaimInvocation, ExpireQueued
<1>8. ASSUME NEW a \in Pairings, NEW yes \in BOOLEAN, Decide(a, yes) PROVE Keeps(i, c)
  <2>1. \/ hexisNode' = hexisNode
        \/ hexisNode' = [hexisNode EXCEPT ![pairing[a].id] = ApprovedRow(@, pairing[a].powers)]
    BY <1>8 DEF Decide
  <2>2. hexisNode'[i].conn = hexisNode[i].conn
    BY <1>1, <2>1 DEF ApprovedRow
  <2>3. QED
    BY <1>2, <2>2
<1>9. ASSUME NEW h \in Identities, Revoke(h) PROVE Keeps(i, c)
  <2>1. /\ hexisNode' = [hexisNode EXCEPT ![h].status = "revoked", ![h].conn = Unset]
        /\ displaced' = displaced \cup {b \in Sessions : hexisNode[h].conn = b}
    BY <1>9 DEF Revoke
  <2>2. CASE h = i
    BY <2>1, <2>2 DEF Keeps
  <2>3. CASE h # i
    BY <1>1, <2>1, <2>3 DEF Keeps
  <2>4. QED
    BY <2>2, <2>3
<1>10. ASSUME NEW h \in Identities, GrowStale(h) PROVE Keeps(i, c)
  <2>1. hexisNode' = [hexisNode EXCEPT ![h].fresh = FALSE]
    BY <1>10 DEF GrowStale
  <2>2. hexisNode'[i].conn = hexisNode[i].conn
    BY <1>1, <2>1 DEF NodeRow
  <2>3. QED
    BY <1>2, <2>2
<1>11. ASSUME NEW d \in Daemons, DaemonStep(d) \/ LinkBreaks(d) \/ DaemonStops(d)
       PROVE  hexisNode' = hexisNode
  BY <1>11 DEF DaemonStep, Connect, Hear, Perform, Report, Reconnect, LinkBreaks, DaemonStops
<1>12. ASSUME NEW k \in Invocations, \/ AskerStep(k) \/ CheckNode(k) \/ AskerDies(k)
                                     \/ InvocationLapses(k)
       PROVE  hexisNode' = hexisNode
  BY <1>12 DEF AskerStep, CreateInvocation, TakeAnswer, GiveUpWaiting, CheckNode, AskerDies,
     InvocationLapses
<1>13. CASE GatewayDies \/ (\E a \in Pairings : PairingLapses(a)) \/ UNCHANGED nodesVars
  BY <1>2, <1>13 DEF GatewayDies, PairingLapses, nodesVars
<1>14. QED
  BY <1>2, <1>4, <1>5, <1>6, <1>7, <1>8, <1>9, <1>10, <1>11, <1>12, <1>13
  DEF NodesNext, SessionStep

LEMMA HoldsStep == ASSUME NodesBase, LiveSessionHolds, [NodesNext]_nodesVars PROVE LiveSessionHolds'
<1>1. /\ hexisNode \in [Identities -> NodeRow] /\ session \in [Sessions -> SessionState]
      /\ \A b \in Sessions : session[b].at # "free" => session[b].id \in Identities
  BY Typed
<1>2. ASSUME NEW c \in Sessions, session'[c].at = "live", c \notin displaced'
      PROVE  hexisNode'[session'[c].id].conn = c
  <2>1. session'[c] = session[c] \/ GoesOn(c)
    BY <1>2, SessionSteps, NoSessionType DEF SessionsMove, SessionMove
  <2>2. session'[c].id = session[c].id /\ (session[c].at = "live" \/ MarkOnline(c))
    BY <1>2, <2>1 DEF GoesOn
  <2>3. CASE session[c].at = "live"
    <3>1. c \notin displaced
      BY <1>2, DisplacedStay
    <3>2. hexisNode[session[c].id].conn = c /\ session[c].id \in Identities
      BY <1>1, <2>3, <3>1 DEF LiveSessionHolds
    <3>3. QED
      BY <1>2, <2>2, <2>3, <3>2, RowsKept DEF Keeps
  <2>4. CASE MarkOnline(c)
    <3>1. session[c].id \in Identities
      BY <1>1, <2>4 DEF MarkOnline
    <3>2. CASE Close(c, "refused")
      BY <1>2, <3>2, Closing, NoSessionType, <1>1
    <3>3. CASE hexisNode' = [hexisNode EXCEPT ![session[c].id] = Online(@, c)]
      BY <1>1, <2>2, <3>1, <3>3, NodeRowsOK
    <3>4. QED
      BY <2>4, <3>2, <3>3 DEF MarkOnline
  <2>5. QED
    BY <2>2, <2>3, <2>4
<1>3. QED
  BY <1>2 DEF LiveSessionHolds

-----------------------------------------------------------------------------
(* The invariants of the specification.                                    *)
NodesInv == NodesBase /\ Renewing /\ RowsGranted /\ Entitled /\ OnRecord /\ LiveSessionHolds

LEMMA InitInv == NodesInit => NodesInv
<1> SUFFICES ASSUME NodesInit PROVE NodesInv
  OBVIOUS
<1>1. NodesBase
  BY InitNodes
<1>2. /\ \A c \in Sessions : session[c].at = "free" /\ session[c].result = Unset
      /\ \A d \in Daemons : /\ daemon[d].conn = Unset /\ daemon[d].invoke = Unset
                            /\ daemon[d].at # "working"
      /\ \A k \in Invocations : /\ asker[k].at = "none" /\ performed[k] = 0
                                /\ invocation[k].status = "none"
      /\ \A i \in Identities : hexisNode[i].powers = {}
  BY DEF NodesInit, NoSession
<1>3. Renewing /\ Entitled /\ LiveSessionHolds /\ RowsGranted
  BY <1>2 DEF Renewing, Entitled, LiveSessionHolds, RowsGranted
<1>4. Carried /\ InHand /\ ResultsTrue /\ RunsTold
  BY <1>2 DEF Carried, InHand, ResultsTrue, RunsTold
<1>5. QED
  BY <1>1, <1>3, <1>4 DEF NodesInv, OnRecord

LEMMA NodesInductive == NodesInv /\ [NodesNext]_nodesVars => NodesInv'
<1> SUFFICES ASSUME NodesInv, [NodesNext]_nodesVars PROVE NodesInv'
  OBVIOUS
<1>1. NodesBase /\ Renewing /\ RowsGranted /\ Entitled /\ OnRecord /\ LiveSessionHolds
  BY DEF NodesInv
<1>2. NodesBase'
  BY <1>1, NodesBaseStep
<1>3. Renewing' /\ RowsGranted' /\ Entitled'
  BY <1>1, RenewingStep, RowsGrantedStep, EntitledStep
<1>4. Carried' /\ InHand' /\ ResultsTrue' /\ RunsTold'
  BY <1>1, CarriedStep, InHandStep, ResultsStep, RunsToldStep
<1>5. LiveSessionHolds'
  BY <1>1, HoldsStep
<1>6. QED
  BY <1>2, <1>3, <1>4, <1>5 DEF NodesInv, OnRecord

LEMMA NodesInvariant == NodesSpec => []NodesInv
<1>1. NodesInit => NodesInv
  BY InitInv
<1>2. NodesInv /\ [NodesNext]_nodesVars => NodesInv'
  BY NodesInductive
<1>3. QED
  BY <1>1, <1>2, PTL DEF NodesSpec

\* The rows, connections, daemons and askers keep their types.
THEOREM NodesTypeCorrect == NodesSpec => []NodesTypeOK
<1>1. NodesInv => NodesTypeOK
  BY DEF NodesInv, NodesBase
<1>2. QED
  BY <1>1, NodesInvariant, PTL

\* Whatever connects, fails, takes over or comes late, an invocation runs at
\* most once, and what its caller was told is the record, a result after a run.
THEOREM RunOnce == NodesSpec => []AnsweredOnce
<1>1. NodesInv => AnsweredOnce
  BY DEF NodesInv, NodesBase, OnRecord, RunsTold, Asked, AnsweredOnce
<1>2. QED
  BY <1>1, NodesInvariant, PTL

\* No interleaving of handshakes, decisions and askers gives an identity, or
\* runs for it, a capability that the operator did not approve.
THEOREM CapabilitiesGranted == NodesSpec => []PowersGranted
<1>1. ASSUME NodesInv PROVE PowersGranted
  <2>1. NodesBase /\ RowsGranted /\ Entitled /\ OnRecord
    BY <1>1 DEF NodesInv
  <2>2. ASSUME NEW k \in Invocations, performed[k] > 0
        PROVE  invocation[k].power \in granted[invocation[k].id]
    <3>1. performed[k] # 0
      BY <2>1, <2>2, Typed
    <3>2. invocation[k].status # "none"
      BY <2>1, <3>1 DEF OnRecord, RunsTold, Sent
    <3>3. asker[k].at # "none"
      BY <2>1, <3>2 DEF NodesBase, Asked
    <3>4. QED
      BY <2>1, <3>3 DEF Entitled
  <2>3. QED
    BY <2>1, <2>2 DEF PowersGranted, RowsGranted
<1>2. QED
  BY <1>1, NodesInvariant, PTL

\* A live session keeps its identity until it ends or is displaced by the rules.
THEOREM IdentityHeld == NodesSpec => []LiveSessionHolds
<1>1. NodesInv => LiveSessionHolds
  BY DEF NodesInv
<1>2. QED
  BY <1>1, NodesInvariant, PTL

=============================================================================
