------------------------------- MODULE Gateway ------------------------------
(***************************************************************************)
(* The event gateway: table gateway_events with its SQL functions          *)
(* (db/28a_tables_gateway.sql) and the GatewayConsumer loop that claims    *)
(* events, runs their handler and settles them (core/gateway.py).          *)
(*                                                                         *)
(* Every SQL call is one statement and therefore one step.  Between the    *)
(* claim of an event and its settlement the consumer holds nothing but the *)
(* event's id, so other consumers, the clock and crashes interleave.       *)
(* Time is kept only as far as gateway_reclaim looks at it: an event is in *)
(* "stale" when its started_at is older than the reclaim interval.         *)
(***************************************************************************)
EXTENDS Integers

CONSTANTS
    MaxEvents,    \* ids the table's sequence hands out in one behaviour
    Workers,      \* processes that run a GatewayConsumer
    MaxCrashes,   \* bound: process deaths in the middle of the loop
    MaxDbErrors,  \* bound: SQL calls that end in an error of the connection
    MaxSlow       \* bound: handlers that outlive the reclaim interval

ASSUME GatewayAssumption ==
    /\ MaxEvents \in Nat
    /\ MaxCrashes \in Nat
    /\ MaxDbErrors \in Nat
    /\ MaxSlow \in Nat

Events == 1..MaxEvents
NoEvent == 0

VARIABLES
    status,     \* status[e]: column status, or "absent" / "deleted"
    started,    \* events whose column started_at is not NULL
    stale,      \* processing events whose started_at is older than the interval
    pc,         \* pc[w]: where the consumer of process w stands
    held,       \* held[w]: the event it dispatched, or NoEvent
    \* history, read by the properties only
    token,      \* token[w]: which claim of held[w] this process made
    claims,     \* claims[e]: how often e was claimed
    reclaims,   \* reclaims[e]: how often e was reset by gateway_reclaim
    returned,   \* events for which some handler returned normally
    crashes, dbErrors, slow

table   == <<status, started, stale>>
process == <<pc, held, token>>
bounds  == <<crashes, dbErrors, slow>>
vars == <<status, started, stale, pc, held, token, claims, reclaims, returned,
          crashes, dbErrors, slow>>

Terminal == {"completed", "failed", "recorded"}
Status   == {"absent", "pending", "processing", "deleted"} \cup Terminal
Place    == {"down", "booting", "idle", "busy", "returned", "raised"}

TypeOK ==
    /\ status \in [Events -> Status]
    /\ started \subseteq Events
    /\ stale \subseteq Events
    /\ pc \in [Workers -> Place]
    /\ held \in [Workers -> Events \cup {NoEvent}]
    /\ token \in [Workers -> Nat]
    /\ claims \in [Events -> Nat]
    /\ reclaims \in [Events -> Nat]
    /\ returned \subseteq Events
    /\ crashes \in Nat /\ dbErrors \in Nat /\ slow \in Nat

Init ==
    /\ status = [e \in Events |-> "absent"]
    /\ started = {} /\ stale = {}
    /\ pc = [w \in Workers |-> "down"]
    /\ held = [w \in Workers |-> NoEvent]
    /\ token = [w \in Workers |-> 0]
    /\ claims = [e \in Events |-> 0]
    /\ reclaims = [e \in Events |-> 0]
    /\ returned = {}
    /\ crashes = 0 /\ dbErrors = 0 /\ slow = 0

-----------------------------------------------------------------------------
(* Producers                                                               *)

\* The id the sequence hands out next; created_at grows with it.
IsNextId(e) ==
    /\ status[e] = "absent"
    /\ \A d \in Events : d < e => status[d] # "absent"

Insert(e, s) ==
    /\ IsNextId(e)
    /\ status' = [status EXCEPT ![e] = s]
    /\ UNCHANGED <<started, stale, process, claims, reclaims, returned, bounds>>

Submit(e) == Insert(e, "pending")

Record(e) == Insert(e, "recorded")

-----------------------------------------------------------------------------
(* The consumer loop                                                       *)

Goto(w, place) == pc' = [pc EXCEPT ![w] = place]

LetGo(w) ==
    /\ held' = [held EXCEPT ![w] = NoEvent]
    /\ token' = [token EXCEPT ![w] = 0]

\* A SQL call fails in the client; the statement may have taken effect or not.
DbError ==
    /\ dbErrors < MaxDbErrors
    /\ dbErrors' = dbErrors + 1
    /\ UNCHANGED <<crashes, slow>>

Start(w) ==
    /\ pc[w] = "down"
    /\ Goto(w, "booting")
    /\ UNCHANGED <<table, held, token, claims, reclaims, returned, bounds>>

\* Mutant: looks for the wrong status.
Reclaimable_WrongStatus == {e \in stale : status[e] = "pending"}

\* The rows gateway_reclaim resets.
Reclaimable == {e \in stale : status[e] = "processing"}

Reclaim(w) ==
    /\ pc[w] = "booting"
    /\ status' = [e \in Events |->
                    IF e \in Reclaimable THEN "pending" ELSE status[e]]
    /\ started' = started \ Reclaimable
    /\ stale' = stale \ Reclaimable
    /\ reclaims' = [e \in Events |->
                      IF e \in Reclaimable THEN reclaims[e] + 1 ELSE reclaims[e]]
    /\ Goto(w, "idle")
    /\ UNCHANGED <<held, token, claims, returned, bounds>>

\* run() logs a failed reclaim as non-fatal and enters the loop.
ReclaimFails(w) ==
    /\ pc[w] = "booting"
    /\ DbError
    /\ Goto(w, "idle")
    /\ UNCHANGED <<table, held, token, claims, reclaims, returned>>

\* Mutant: forgets the status filter.
OldestPending_AnyStatus(e) ==
    /\ status[e] \in {"pending", "processing"}
    /\ \A d \in Events : status[d] = "pending" => e <= d

\* gateway_dequeue takes the oldest pending row.
OldestPending(e) ==
    /\ status[e] = "pending"
    /\ \A d \in Events : status[d] = "pending" => e <= d

ClaimRow(e) ==
    /\ OldestPending(e)
    /\ status' = [status EXCEPT ![e] = "processing"]
    /\ started' = started \cup {e}
    /\ claims' = [claims EXCEPT ![e] = @ + 1]
    /\ UNCHANGED stale

Dequeue(w, e) ==
    /\ pc[w] = "idle"
    /\ ClaimRow(e)
    /\ held' = [held EXCEPT ![w] = e]
    /\ token' = [token EXCEPT ![w] = claims[e] + 1]
    /\ Goto(w, "busy")
    /\ UNCHANGED <<reclaims, returned, bounds>>

\* The claim commits and its reply is lost: the loop logs the error and polls.
DequeueReplyLost(w, e) ==
    /\ pc[w] = "idle"
    /\ ClaimRow(e)
    /\ DbError
    /\ UNCHANGED <<process, reclaims, returned>>

HandlerReturns(w) ==
    /\ pc[w] = "busy"
    /\ returned' = returned \cup {held[w]}
    /\ Goto(w, "returned")
    /\ UNCHANGED <<table, held, token, claims, reclaims, bounds>>

HandlerRaises(w) ==
    /\ pc[w] = "busy"
    /\ Goto(w, "raised")
    /\ UNCHANGED <<table, held, token, claims, reclaims, returned, bounds>>

\* UPDATE ... SET status, completed_at = now(): no guard on the old status.
SettleRow(e, s) ==
    /\ status' = IF status[e] = "deleted" THEN status
                 ELSE [status EXCEPT ![e] = s]
    /\ stale' = stale \ {e}
    /\ UNCHANGED started

\* Mutant: the table has no such constraint.
Settleable_Always(e) == TRUE

\* Constraint valid_completed: completed_at needs a started_at.
Settleable(e) == status[e] = "deleted" \/ e \in started

Complete(w) ==
    /\ pc[w] = "returned"
    /\ IF Settleable(held[w])
       THEN /\ SettleRow(held[w], "completed")
            /\ Goto(w, "idle")
            /\ LetGo(w)
       ELSE /\ Goto(w, "raised")
            /\ UNCHANGED <<table, held, token>>
    /\ UNCHANGED <<claims, reclaims, returned, bounds>>

\* The exception of complete() is handled like one of the handler.
CompleteErrors(w) ==
    /\ pc[w] = "returned"
    /\ DbError
    /\ \/ UNCHANGED table
       \/ Settleable(held[w]) /\ SettleRow(held[w], "completed")
    /\ Goto(w, "raised")
    /\ UNCHANGED <<held, token, claims, reclaims, returned>>

\* When fail() violates the constraint too, the loop logs it and polls.
Fail(w) ==
    /\ pc[w] = "raised"
    /\ IF Settleable(held[w])
       THEN SettleRow(held[w], "failed")
       ELSE UNCHANGED table
    /\ Goto(w, "idle")
    /\ LetGo(w)
    /\ UNCHANGED <<claims, reclaims, returned, bounds>>

FailErrors(w) ==
    /\ pc[w] = "raised"
    /\ DbError
    /\ \/ UNCHANGED table
       \/ Settleable(held[w]) /\ SettleRow(held[w], "failed")
    /\ Goto(w, "idle")
    /\ LetGo(w)
    /\ UNCHANGED <<claims, reclaims, returned>>

-----------------------------------------------------------------------------
(* Processes that stop, the clock, and the clean-up of old rows            *)

\* stop() takes effect when the loop comes round.
Stop(w) ==
    /\ pc[w] = "idle"
    /\ Goto(w, "down")
    /\ UNCHANGED <<table, held, token, claims, reclaims, returned, bounds>>

Crash(w) ==
    /\ pc[w] \notin {"down", "idle"}
    /\ crashes < MaxCrashes
    /\ crashes' = crashes + 1
    /\ Goto(w, "down")
    /\ LetGo(w)
    /\ UNCHANGED <<table, claims, reclaims, returned, dbErrors, slow>>

\* The reclaim interval passes; only live handlers count against MaxSlow.
AgeOut(e) ==
    /\ status[e] = "processing" /\ e \notin stale
    /\ IF \E w \in Workers : held[w] = e
       THEN slow < MaxSlow /\ slow' = slow + 1
       ELSE UNCHANGED slow
    /\ stale' = stale \cup {e}
    /\ UNCHANGED <<status, started, process, claims, reclaims, returned,
                   crashes, dbErrors>>

\* Mutant: deletes old rows whatever their status.
Cleanup_AnyStatus(e) ==
    /\ status[e] \notin {"absent", "deleted"}
    /\ status' = [status EXCEPT ![e] = "deleted"]
    /\ UNCHANGED <<started, stale, process, claims, reclaims, returned, bounds>>

Cleanup(e) ==
    /\ status[e] \in Terminal
    /\ status' = [status EXCEPT ![e] = "deleted"]
    /\ UNCHANGED <<started, stale, process, claims, reclaims, returned, bounds>>

-----------------------------------------------------------------------------
LoopStep(w) ==
    \/ Reclaim(w) \/ HandlerReturns(w) \/ HandlerRaises(w)
    \/ Complete(w) \/ Fail(w)
    \/ \E e \in Events : Dequeue(w, e)

FaultStep(w) ==
    \/ ReclaimFails(w) \/ CompleteErrors(w) \/ FailErrors(w) \/ Crash(w)
    \/ \E e \in Events : DequeueReplyLost(w, e)

Next ==
    \/ \E e \in Events : Submit(e) \/ Record(e) \/ AgeOut(e) \/ Cleanup(e)
    \/ \E w \in Workers : LoopStep(w) \/ FaultStep(w) \/ Start(w) \/ Stop(w)

Spec == Init /\ [][Next]_vars

\* Live consumers keep looping (handlers have timeouts) and poll whenever they
\* are started, a supervisor restarts a process that is down, and time passes.
Fairness ==
    /\ \A w \in Workers :
          /\ WF_vars(LoopStep(w)) /\ WF_vars(Start(w))
          /\ SF_vars(\E e \in Events : Dequeue(w, e))
    /\ \A e \in Events : WF_vars(AgeOut(e))

FairSpec == Spec /\ Fairness

-----------------------------------------------------------------------------
(* Properties                                                              *)

Holds(w, e) == held[w] = e /\ pc[w] \in {"busy", "returned", "raised"}

\* "Atomically claim the next pending event" (core/gateway.py:132): two
\* consumers work on the same event only if gateway_reclaim took it away from
\* the first of them, that is, after a handler outlived the interval.
ExclusiveUnlessReclaimed ==
    \A w1, w2 \in Workers : \A e \in Events :
        (w1 # w2 /\ Holds(w1, e) /\ Holds(w2, e)) => reclaims[e] > 0

\* A completed row stands for a handler that came back, and a failed row for
\* a claim that was made, whatever stale consumers, lost replies and reclaims
\* happened on the way: _dispatch settles nothing it did not run.
SettledEventsRan ==
    \A e \in Events :
        /\ status[e] = "completed" => e \in returned
        /\ status[e] = "failed" => claims[e] > 0

\* An event is run once, and once more for every time it was reclaimed.
\* A row that waits has a run to its credit, so a handler that settles late
\* can neither use up nor add one.
ClaimAccounting ==
    \A e \in Events :
        LET credit == claims[e] - reclaims[e]
        IN  /\ credit \in {0, 1}
            /\ status[e] \in {"absent", "pending", "recorded"} => credit = 0
            /\ status[e] \in {"processing", "completed", "failed"} => credit = 1

\* The gateway implements the at-least-once queue.
StateOf(s) ==
    [absent |-> "absent", pending |-> "waiting", processing |-> "running",
     completed |-> "settled", failed |-> "settled", recorded |-> "settled",
     deleted |-> "forgotten"][s]

queueState == [e \in Events |-> StateOf(status[e])]

Queue == INSTANCE EventQueue WITH state <- queueState

ImplementsQueue == Queue!Spec

Settled(e) == status[e] \in Terminal \cup {"deleted"}

\* Whatever crashes and lost replies left in processing is settled in the end
\* if every consumer process is started again for ever: gateway_reclaim runs
\* when a process starts and at no other time.
SettledIfRestartedForever ==
    (\A w \in Workers : []<>(pc[w] = "booting"))
        => \A e \in Events : (status[e] = "processing") ~> Settled(e)

\* "Reclaim stale events from previous crashes" (core/gateway.py:227): after
\* its process crashed and came back, an event that was claimed is settled.
CrashedEventsRecovered ==
    \A e \in Events : (status[e] = "processing") ~> Settled(e)
=============================================================================
