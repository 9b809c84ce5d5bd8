------------------------------ MODULE Heartbeat -----------------------------
(***************************************************************************)
(* The heartbeat: the timer that starts beats and hands them to the        *)
(* gateway, the consumer that runs them, manual runs of the HTTP API, and  *)
(* the other sessions that write heartbeat_state while they do.            *)
(*                                                                         *)
(* heartbeat_state is a view over one JSON row.  An UPDATE on it computes  *)
(* the new row from the snapshot of the statement, and its INSTEAD OF      *)
(* trigger writes the whole row back.  A statement is therefore two steps, *)
(* the snapshot and the write.  A transaction holds the lock of the row    *)
(* from its first write on, so the rest of it belongs to that step.        *)
(*                                                                         *)
(* Of the row, the columns kept are the claim, the energy and the pause    *)
(* flag.  Time is not kept: a timer may find the beat due at every poll,   *)
(* because next_heartbeat_at passes or an operator's wake overrides it.    *)
(***************************************************************************)
EXTENDS Integers

CONSTANTS
    MaxBeats,      \* beats that can start in one behaviour
    Cap,           \* heartbeat_bank_capacity
    Reserve,       \* heartbeat.max_energy: energy above it decays
    Timer,         \* the session of the heartbeat worker's timer
    Consumer,      \* the session of the gateway consumer in that worker
    Manuals,       \* requests of the API that run a beat on the spot
    Writers,       \* sessions of chat, channels, CLI and maintenance
    Paths,         \* values heartbeat.use_agentic_loop takes
    MaxCrashes,    \* bound: deaths of the worker process
    MaxErrors,     \* bound: calls to the database or the model that fail
    MaxLeft,       \* bound: API requests that end before their time
    MaxWrites      \* bound: statements of Writers

Sessions == {Timer, Consumer} \cup Manuals \cup Writers

ASSUME HeartbeatAssumption ==
    /\ {MaxBeats, Cap, Reserve, MaxCrashes, MaxErrors, MaxLeft, MaxWrites}
          \subseteq Nat
    /\ Reserve <= Cap
    /\ Timer # Consumer
    /\ {Timer, Consumer} \cap (Manuals \cup Writers) = {}
    /\ Manuals \cap Writers = {}
    /\ Paths \subseteq {"agentic", "legacy"}

Beats == 1..MaxBeats
NoBeat == 0

VARIABLES
    row,       \* the row under the view heartbeat_state
    outcome,   \* outcome[b]: heartbeat_outcomes.status of beat b
    queue,     \* the gateway, as far as its clients see it
    at,        \* at[s]: where session s stands
    beat,      \* beat[s]: the beat session s works on
    snap,      \* snap[s]: the row as the open statement of s read it
    debits,    \* history: debits[b] counts the charges of the economy for b
    crashes, errors, left, writes

local  == <<at, beat, snap>>
bounds == <<crashes, errors, left, writes>>
vars == <<row, outcome, queue, at, beat, snap, debits,
          crashes, errors, left, writes>>

Queue == INSTANCE EventQueue WITH Events <- Beats, state <- queue

Row == [active : Beats \cup {NoBeat}, energy : 0..Cap, paused : BOOLEAN]

Place ==
    {"down", "idle", "checked", "starting", "submitting",
     "think", "economy", "debit", "recap", "recapping",
     "legacy", "batch", "deciding",
     "release", "releasing", "rescue", "rescuing", "done",
     "spend", "touch", "pause", "resume"}

TypeOK ==
    /\ row \in Row
    /\ outcome \in [Beats -> {"none", "running", "final"}]
    /\ Queue!TypeOK
    /\ at \in [Sessions -> Place]
    /\ beat \in [Sessions -> Beats \cup {NoBeat}]
    /\ snap \in [Sessions -> Row]
    /\ debits \in [Beats -> Nat]
    /\ crashes \in Nat /\ errors \in Nat /\ left \in Nat /\ writes \in Nat

FirstRow == [active |-> NoBeat, energy |-> Cap, paused |-> FALSE]

Init ==
    /\ row = FirstRow
    /\ outcome = [b \in Beats |-> "none"]
    /\ Queue!Init
    /\ at = [s \in Sessions |-> "idle"]
    /\ beat = [s \in Sessions |-> NoBeat]
    /\ snap = [s \in Sessions |-> FirstRow]
    /\ debits = [b \in Beats |-> 0]
    /\ crashes = 0 /\ errors = 0 /\ left = 0 /\ writes = 0

-----------------------------------------------------------------------------
(* Statements on heartbeat_state                                           *)

Goto(s, place) == at' = [at EXCEPT ![s] = place]

\* A statement opens: everything it writes derives from this snapshot.
Open(s, place) ==
    /\ Goto(s, place)
    /\ snap' = [snap EXCEPT ![s] = row]

\* It ends, and nothing is left of the snapshot.
Close(s, place) ==
    /\ Goto(s, place)
    /\ snap' = [snap EXCEPT ![s] = FirstRow]

\* The trigger on table state: a claim that goes from old to NULL is released.
Dropped(old, new) == IF new.active = NoBeat THEN {old.active} ELSE {}

\* A released beat whose outcome is still running is finalized.
Finalized(S) ==
    [b \in Beats |-> IF b \in S /\ outcome[b] = "running" THEN "final"
                     ELSE outcome[b]]

\* finalize_heartbeat_economy has taken the row of outcome beat[t] FOR UPDATE.
Locked(t) == at[t] \in {"economy", "debit"}

\* Session s can write if no other has locked the outcome of a beat in S, which
\* the write releases and the trigger therefore finalizes.
CanWrite(s, S) == \A t \in Sessions \ {s} : Locked(t) => beat[t] \notin S

\* The statement of s releases the claim of the beat it works on.
Ends(s) == snap[s].active = beat[s]

\* What the open statement of s will release.
Drops(s) ==
    IF at[s] \in {"releasing", "rescuing"}
    THEN IF Ends(s) THEN {row.active} ELSE {}
    ELSE Dropped(row, snap[s])
           \cup (IF at[s] = "deciding" THEN {snap[s].active} ELSE {})
           \cup (IF at[s] = "recapping" /\ Ends(s) THEN {beat[s]} ELSE {})

\* s waits for the outcome that t has locked and t for the row s has locked:
\* PostgreSQL makes one of them fail.
Blocks(t, s) ==
    /\ s # t /\ Locked(t) /\ beat[t] \in Drops(s)
    /\ at[s] \in {"starting", "recapping", "deciding", "releasing", "rescuing",
                  "spend", "touch", "pause", "resume", "debit"}

\* A call fails; what it had begun is rolled back.
Error ==
    /\ errors < MaxErrors
    /\ errors' = errors + 1
    /\ UNCHANGED <<crashes, left, writes>>

\* The statement of s fails, for a reason of its own or to end a deadlock.
StatementFails(s) ==
    \/ Error
    \/ /\ \E t \in Sessions : Blocks(t, s) \/ Blocks(s, t)
       /\ UNCHANGED bounds

-----------------------------------------------------------------------------
(* Starting a beat: run_heartbeat and the manual endpoint                  *)

\* Mutant: does not look at the claim.
MayStart_Claimed == ~row.paused

\* What should_run_heartbeat, the wake branch and the API all ask first.
MayStart == ~row.paused /\ row.active = NoBeat

Check(s) ==
    /\ s \in {Timer} \cup Manuals
    /\ at[s] = "idle"
    /\ MayStart
    /\ Goto(s, "checked")
    /\ UNCHANGED <<row, outcome, queue, beat, snap, debits, bounds>>

\* start_heartbeat never looks at the claim again; the lock on the row of
\* heartbeat_economy_state admits one start at a time from here to its commit.
OpenStart(s) ==
    /\ at[s] = "checked"
    /\ \A t \in Sessions : at[t] # "starting"
    /\ \E b \in Beats : outcome[b] = "none"
    /\ Open(s, "starting")
    /\ UNCHANGED <<row, outcome, queue, beat, debits, bounds>>

\* Surplus above the reserve decays, then energy regenerates up to the bank.
Regenerated(before, after) ==
    /\ after \in 0..Cap
    /\ after >= before \/ after >= Reserve

IsFresh(b) ==
    /\ outcome[b] = "none"
    /\ \A d \in Beats : d < b => outcome[d] # "none"

CommitStart(s) ==
    /\ at[s] = "starting"
    /\ CanWrite(s, Dropped(row, snap[s]))
    /\ \E b \in Beats, e \in 0..Cap :
          /\ IsFresh(b)
          /\ Regenerated(snap[s].energy, e)
          /\ row' = [snap[s] EXCEPT !.active = b, !.energy = e]
          /\ outcome' = [Finalized(Dropped(row, snap[s])) EXCEPT ![b] = "running"]
          /\ beat' = [beat EXCEPT ![s] = b]
    /\ Close(s, IF s = Timer THEN "submitting" ELSE "think")
    /\ UNCHANGED <<queue, debits, bounds>>

StartFails(s) ==
    /\ at[s] = "starting"
    /\ StatementFails(s)
    /\ Close(s, "idle")
    /\ UNCHANGED <<row, outcome, queue, beat, debits>>

\* The event is a statement of its own, after the start has committed.
Submit ==
    /\ at[Timer] = "submitting"
    /\ Queue!Enqueue(beat[Timer])
    /\ Goto(Timer, "idle")
    /\ beat' = [beat EXCEPT ![Timer] = NoBeat]
    /\ UNCHANGED <<row, outcome, snap, debits, bounds>>

\* A failed submit is logged and reported; nobody gives the claim back.
SubmitFails ==
    /\ at[Timer] = "submitting"
    /\ Error
    /\ Goto(Timer, "idle")
    /\ beat' = [beat EXCEPT ![Timer] = NoBeat]
    /\ UNCHANGED <<row, outcome, queue, snap, debits>>

-----------------------------------------------------------------------------
(* Running a beat: the consumer's handler, and the manual endpoint         *)

\* The consumer dispatches the oldest event; the configuration is read anew.
Take(b) ==
    /\ at[Consumer] = "idle"
    /\ \A d \in Beats : queue[d] = "waiting" => b <= d
    /\ Queue!Run(b)
    /\ beat' = [beat EXCEPT ![Consumer] = b]
    /\ \E path \in Paths :
          Goto(Consumer, IF path = "agentic" THEN "think" ELSE "legacy")
    /\ UNCHANGED <<row, outcome, snap, debits, bounds>>

\* Mutant: charges whatever the ledger says.
Chargeable_Always(b) == TRUE

\* finalize_heartbeat_economy refuses a beat that is final or not claimed.
Chargeable(b) == outcome[b] = "running" /\ row.active = b

\* The agent loop is over, whether it completed or raised.
OpenEconomy(s) ==
    /\ at[s] = "think"
    /\ \A t \in Sessions : Locked(t) => beat[t] # beat[s]
    /\ Goto(s, IF Chargeable(beat[s]) THEN "economy" ELSE "recap")
    /\ UNCHANGED <<row, outcome, queue, beat, snap, debits, bounds>>

OpenDebit(s) ==
    /\ at[s] = "economy"
    /\ Open(s, "debit")
    /\ UNCHANGED <<row, outcome, queue, beat, debits, bounds>>

\* update_energy keeps the level within the bank.
Less(energy, cost) == IF cost > energy THEN 0 ELSE energy - cost

\* A charge of nothing skips update_energy, and the write that sets the next
\* beat is guarded by the claim.
CommitEconomy(s) ==
    /\ at[s] = "debit"
    /\ \E cost \in 0..Cap :
          LET new == IF cost = 0 /\ snap[s].active # beat[s] THEN row
                     ELSE [snap[s] EXCEPT !.energy = Less(@, cost)]
          IN  /\ CanWrite(s, Dropped(row, new))
              /\ row' = new
              /\ outcome' = [Finalized(Dropped(row, new))
                               EXCEPT ![beat[s]] = "final"]
              /\ debits' = [debits EXCEPT ![beat[s]] =
                              IF cost = 0 THEN @ ELSE @ + 1]
    /\ Close(s, "recap")
    /\ UNCHANGED <<queue, beat, bounds>>

\* finalize_heartbeat logs the error and goes on to the recap.
EconomyFails(s) ==
    /\ Locked(s)
    /\ StatementFails(s)
    /\ Close(s, "recap")
    /\ UNCHANGED <<row, outcome, queue, beat, debits>>

OpenRecap(s) ==
    /\ at[s] = "recap"
    /\ Open(s, "recapping")
    /\ UNCHANGED <<row, outcome, queue, beat, debits, bounds>>

\* finalize_agentic_heartbeat: sets last_heartbeat_at, which writes the whole
\* snapshot, and then releases the claim if it is this beat's.
CommitRecap(s) ==
    /\ at[s] = "recapping"
    /\ CanWrite(s, Drops(s))
    /\ row' = IF Ends(s) THEN [snap[s] EXCEPT !.active = NoBeat] ELSE snap[s]
    /\ outcome' = Finalized(Drops(s))
    /\ Close(s, "done")
    /\ UNCHANGED <<queue, beat, debits, bounds>>

RecapFails(s) ==
    /\ at[s] = "recapping"
    /\ StatementFails(s)
    /\ Close(s, "release")
    /\ UNCHANGED <<row, outcome, queue, beat, debits>>

\* release_active_heartbeat(id), after a failed recap ("release") or in the
\* except clause of the handler or the endpoint ("rescue").
OpenRelease(s) ==
    /\ at[s] \in {"release", "rescue"}
    /\ Open(s, IF at[s] = "release" THEN "releasing" ELSE "rescuing")
    /\ UNCHANGED <<row, outcome, queue, beat, debits, bounds>>

CommitRelease(s) ==
    /\ at[s] \in {"releasing", "rescuing"}
    /\ CanWrite(s, Drops(s))
    /\ row' = IF Ends(s) THEN [snap[s] EXCEPT !.active = NoBeat] ELSE row
    /\ outcome' = Finalized(Drops(s))
    /\ Close(s, "done")
    /\ UNCHANGED <<queue, beat, debits, bounds>>

\* The handler logs a finalization that fails; the endpoint tries once more.
ReleaseFails(s) ==
    /\ at[s] \in {"releasing", "rescuing"}
    /\ StatementFails(s)
    /\ Close(s, IF at[s] = "releasing" /\ s \in Manuals THEN "rescue" ELSE "done")
    /\ UNCHANGED <<row, outcome, queue, beat, debits>>

\* The JSON path.  An error of the first call, the model's decision, is logged
\* and the loop over the calls ends: the handler returns as if all were well.
DecisionCallFails(s) ==
    /\ at[s] = "legacy"
    /\ Error
    /\ Goto(s, "done")
    /\ UNCHANGED <<row, outcome, queue, beat, snap, debits>>

OpenDecision(s) ==
    /\ at[s] \in {"legacy", "batch"}
    /\ Open(s, "deciding")
    /\ UNCHANGED <<row, outcome, queue, beat, debits, bounds>>

\* The actions of one batch are paid for and may pause the heartbeat.
Acted(s) ==
    {r \in Row : /\ r.active = snap[s].active
                 /\ r.energy <= snap[s].energy
                 /\ snap[s].paused => r.paused}

\* Mutant: the claim is left alone.
Completed_Claimed(r) == r

\* complete_heartbeat clears the claim, whose ever it is.
Completed(r) == [r EXCEPT !.active = NoBeat]

CommitDecision(s) ==
    /\ at[s] = "deciding"
    /\ CanWrite(s, Drops(s))
    /\ \E r \in Acted(s) : row' = Completed(r)
    /\ outcome' = Finalized(Drops(s))
    /\ Close(s, "done")
    /\ UNCHANGED <<queue, beat, debits, bounds>>

\* An action that needs a call of its own ends the batch; it costs energy.
CommitBatch(s) ==
    /\ at[s] = "deciding"
    /\ CanWrite(s, Dropped(row, snap[s]))
    /\ \E r \in Acted(s) : r.energy < snap[s].energy /\ row' = r
    /\ outcome' = Finalized(Dropped(row, snap[s]))
    /\ Close(s, "batch")
    /\ UNCHANGED <<queue, beat, debits, bounds>>

DecisionFails(s) ==
    /\ at[s] = "deciding"
    /\ StatementFails(s)
    /\ Close(s, "rescue")
    /\ UNCHANGED <<row, outcome, queue, beat, debits>>

\* The consumer settles the event, as completed or as failed.
Settle ==
    /\ at[Consumer] = "done"
    /\ Queue!Settle(beat[Consumer])
    /\ Goto(Consumer, "idle")
    /\ beat' = [beat EXCEPT ![Consumer] = NoBeat]
    /\ UNCHANGED <<row, outcome, snap, debits, bounds>>

LeaveManual(s) ==
    /\ Close(s, "idle")
    /\ beat' = [beat EXCEPT ![s] = NoBeat]
    /\ UNCHANGED <<row, outcome, queue, debits>>

EndManual(s) ==
    /\ s \in Manuals
    /\ at[s] = "done"
    /\ LeaveManual(s)
    /\ UNCHANGED bounds

\* The client of the stream goes away, or the API process dies.  GeneratorExit
\* and CancelledError are not Exceptions: the except clause does not see them.
ClientLeaves(s) ==
    /\ s \in Manuals
    /\ at[s] # "idle"
    /\ left < MaxLeft
    /\ left' = left + 1
    /\ LeaveManual(s)
    /\ UNCHANGED <<crashes, errors, writes>>

\* An exception of the agent loop reaches the endpoint's except clause.
ManualRaises(s) ==
    /\ s \in Manuals
    /\ at[s] = "think"
    /\ Error
    /\ Goto(s, "rescue")
    /\ UNCHANGED <<row, outcome, queue, beat, snap, debits>>

-----------------------------------------------------------------------------
(* The other writers, and the worker process                               *)

OpenWrite(s) ==
    /\ s \in Writers
    /\ at[s] = "idle"
    /\ writes < MaxWrites
    /\ writes' = writes + 1
    /\ \E op \in {"spend", "touch", "pause", "resume"} : Open(s, op)
    /\ UNCHANGED <<row, outcome, queue, beat, debits, crashes, errors, left>>

\* The rows a statement may write: spend_energy has a condition on its snapshot.
Written(s) ==
    IF at[s] = "spend" THEN {[snap[s] EXCEPT !.energy = @ - c] :
                                c \in 1..snap[s].energy}
    ELSE IF at[s] = "pause" THEN {[snap[s] EXCEPT !.paused = TRUE]}
    ELSE IF at[s] = "resume" THEN {[snap[s] EXCEPT !.paused = FALSE]}
    ELSE {snap[s]}

CommitWrite(s) ==
    /\ at[s] \in {"spend", "touch", "pause", "resume"}
    /\ IF Written(s) = {} THEN UNCHANGED <<row, outcome>>
       ELSE /\ CanWrite(s, Drops(s))
            /\ row' \in Written(s)
            /\ outcome' = Finalized(Drops(s))
    /\ Close(s, "idle")
    /\ UNCHANGED <<queue, beat, debits, bounds>>

WriteFails(s) ==
    /\ at[s] \in {"spend", "touch", "pause", "resume"}
    /\ StatementFails(s)
    /\ Close(s, "idle")
    /\ UNCHANGED <<row, outcome, queue, beat, debits>>

\* Timer and consumer are tasks of one process.
Crash ==
    /\ at[Timer] # "down"
    /\ crashes < MaxCrashes
    /\ crashes' = crashes + 1
    /\ at' = [at EXCEPT ![Timer] = "down", ![Consumer] = "down"]
    /\ beat' = [beat EXCEPT ![Timer] = NoBeat, ![Consumer] = NoBeat]
    /\ snap' = [snap EXCEPT ![Timer] = FirstRow, ![Consumer] = FirstRow]
    /\ UNCHANGED <<row, outcome, queue, debits, errors, left, writes>>

\* The consumer reclaims events once, as it starts: those claimed more than ten
\* minutes ago, which may be none.
Restart ==
    /\ at[Timer] = "down"
    /\ at' = [at EXCEPT ![Timer] = "idle", ![Consumer] = "idle"]
    /\ \E S \in SUBSET Beats : Queue!TakeBack(S)
    /\ UNCHANGED <<row, outcome, beat, snap, debits, bounds>>

-----------------------------------------------------------------------------
StartStep(s) == Check(s) \/ OpenStart(s) \/ CommitStart(s)

RunStep(s) ==
    \/ OpenEconomy(s) \/ OpenDebit(s) \/ CommitEconomy(s)
    \/ OpenRecap(s) \/ CommitRecap(s)
    \/ OpenRelease(s) \/ CommitRelease(s)
    \/ OpenDecision(s) \/ CommitDecision(s) \/ CommitBatch(s)

FaultStep(s) ==
    \/ StartFails(s) \/ EconomyFails(s) \/ RecapFails(s) \/ ReleaseFails(s)
    \/ DecisionCallFails(s) \/ DecisionFails(s)
    \/ ManualRaises(s) \/ ClientLeaves(s) \/ WriteFails(s)

Next ==
    \/ \E s \in Sessions :
          \/ StartStep(s) \/ RunStep(s) \/ FaultStep(s) \/ EndManual(s)
          \/ OpenWrite(s) \/ CommitWrite(s)
    \/ \E b \in Beats : Take(b)
    \/ Submit \/ SubmitFails \/ Settle \/ Crash \/ Restart

Spec == Init /\ [][Next]_vars

\* A statement that was sent ends, model calls and tools have timeouts, the
\* worker's two loops poll for ever and its supervisor restarts it.  Nobody has
\* to ask for a manual run or to write.
Fairness ==
    /\ WF_vars(Check(Timer)) /\ WF_vars(Submit)
    /\ WF_vars(\E b \in Beats : Take(b)) /\ WF_vars(Settle)
    /\ WF_vars(Restart)
    /\ \A s \in Sessions :
          /\ WF_vars(OpenStart(s)) /\ WF_vars(CommitStart(s))
          /\ WF_vars(RunStep(s)) /\ WF_vars(EndManual(s))
          /\ WF_vars(CommitWrite(s))

FairSpec == Spec /\ Fairness

-----------------------------------------------------------------------------
(* Properties                                                              *)

\* "Agentic tool spend is deducted once when the beat finalizes"
\* (docs/reference/energy-model.md): whatever is run again after a reclaim,
\* and whoever erases or restores claims in between, the economy charges a
\* beat at most once and never before its outcome is final.
ChargedOnce ==
    \A b \in Beats :
        /\ debits[b] \in {0, 1}
        /\ debits[b] = 1 => outcome[b] = "final"

\* While a session is in finalize_heartbeat_economy, nobody else decides the
\* outcome it is about to write: not a stale UPDATE that erases the claim, nor
\* a start or a release that fires the trigger on the same row.
LockedOutcomesRun == \A s \in Sessions : Locked(s) => outcome[beat[s]] = "running"

\* With the worker alone and no crash, beats do not overlap and a beat's claim
\* is given up by its own run only.
Beating == INSTANCE Pulse WITH claim <- row.active, result <- outcome

ImplementsPulse == Beating!Spec

\* Every beat gets its outcome and gives up its claim: should_run_heartbeat()
\* says no as long as one is held, so the agent would never think again.
BeatsFinish ==
    \A b \in Beats :
        (outcome[b] = "running") ~> (outcome[b] = "final" /\ row.active # b)

\* Without a crash or a failing call the claim is never lost: every beat the
\* timer starts is submitted, run, decided and released, on both paths.
HealthyBeatsFinish == [](errors = 0 /\ crashes = 0) => BeatsFinish

\* run_heartbeat "never overrides pause, termination, initialization, or an
\* already-active heartbeat" (db/86a_functions_inbound_disposition.sql:563).
NeverOverrides ==
    [][at[Timer] = "starting" /\ at'[Timer] = "submitting"
          => row.active = NoBeat]_vars

\* "The heartbeat won't run until ... The heartbeat is not paused"
\* (docs/guides/heartbeat.md): a pause ends when somebody resumes.
PauseHolds ==
    [][row.paused /\ ~row'.paused
          => \E w \in Writers : at[w] = "resume" /\ at'[w] = "idle"]_vars
=============================================================================
