----------------------------- MODULE Replacement -----------------------------
(***************************************************************************)
(* The replacement of a protected section of the agent's self by an HMX    *)
(* file: an operator submits it, the agent acknowledges or refuses, or a   *)
(* signed override goes ahead without it; the section is compared, saved,  *)
(* written and compared again, and can be taken back within a window.      *)
(*                                                                         *)
(* A section is a set of records, and equal digests are equal sets.        *)
(* Everything runs at READ COMMITTED: a transaction sees what others have  *)
(* committed before each of its statements.  What holds it together is one *)
(* advisory lock (the gate), the locks of request rows, and the digests.   *)
(* Heartbeats and chats that edit a section take none of these locks.  An  *)
(* export or a write of a section is one step; what its inner statements   *)
(* might see of a concurrent edit, the last comparison turns away.  Time   *)
(* is two flags of a request: `overdue' (both limits of its timeout have   *)
(* passed) and `ripe' (a limit of its reversion window has).               *)
(***************************************************************************)
EXTENDS Naturals, FiniteSets

CONSTANTS
    Sections, Records,
    Files,          \* [section, to, lineage]: an exported section with a rationale
    Agents,         \* tool executions of the agent, in beats and chats
    Operators,      \* imports by the operator
    Nobody,         \* no actor, request or file
    MaxReplacements,\* bound: rows of hmx_pending_replacements
    MaxSelfEdits,   \* bound: edits of a section by the living agent
    MaxInterrupts   \* bound: statements that fail and processes that die

Actors == Agents \cup Operators
Replacements == 1..MaxReplacements

ASSUME ReplacementAssumption ==
    /\ {MaxReplacements, MaxSelfEdits, MaxInterrupts} \subseteq Nat
    /\ Files \subseteq [section : Sections, to : SUBSET Records,
                        lineage : {"same", "other", "invalid"}]
    /\ Agents \cap Operators = {}
    /\ Nobody \notin Actors /\ Nobody \notin Replacements /\ Nobody \notin Files

VARIABLES
    self,      \* the records of each section, as committed
    verdict,   \* hmx_pending_replacements.status; "draft" is not committed
    file,      \* the file a request asks for
    base,      \* the section when the request was made (local_digest_v1)
    undo,      \* its reversion window
    kept,      \* its snapshot
    overdue, ripe,
    gate,      \* who holds the advisory lock
    rowLock,   \* who has locked a request's row
    tx,        \* the transaction of each actor
    missed,    \* history: edits committed between an actor's comparison and write
    slipped,   \* history: requests executed over such an edit
    selfEdits, interrupts

requestRows == <<verdict, file, base, undo, kept, overdue, ripe>>
locks == <<gate, rowLock>>
selfHistory == <<missed, slipped>>
selfBounds == <<selfEdits, interrupts>>
replacementVars == <<self, requestRows, locks, tx, selfHistory, selfBounds>>

Undecided == {"pending", "deferred"}
Refusals == {"refused", "modification_requested"}
Settled == Refusals \cup {"timed_out", "executed", "reverted"}

Nothing == [s \in Sections |-> {}]
NoTx == [at |-> "idle", does |-> "nothing", row |-> Nobody, file |-> Nobody,
         seen |-> Nothing, copy |-> {}, erased |-> {}]

ReplacementInit ==
    /\ self \in [Sections -> SUBSET Records]
    /\ verdict = [r \in Replacements |-> "none"]
    /\ file = [r \in Replacements |-> Nobody]
    /\ base = [r \in Replacements |-> {}]
    /\ undo = [r \in Replacements |-> "none"]
    /\ kept = [r \in Replacements |-> {}]
    /\ overdue = {} /\ ripe = {}
    /\ gate = Nobody
    /\ rowLock = [r \in Replacements |-> Nobody]
    /\ tx = [a \in Actors |-> NoTx]
    /\ missed = {} /\ slipped = {}
    /\ selfEdits = 0 /\ interrupts = 0

Free(r) == rowLock[r] = Nobody
GateFree(a) == gate \in {Nobody, a}
At(a, place) == tx[a].at = place
Target(a) == tx[a].file.section

\* Every lock of a transaction ends with it.
Unlocked(a) == [r \in Replacements |-> IF rowLock[r] = a THEN Nobody ELSE rowLock[r]]

\* Mutant: a lock of the session, which outlives the transaction.
Ended_KeepsGate(a) == /\ gate' = gate
                      /\ rowLock' = Unlocked(a)
                      /\ tx' = [tx EXCEPT ![a] = NoTx]
                      /\ missed' = missed \ {a}

\* The transaction is over, committed or not.
Ended(a) == /\ gate' = (IF gate = a THEN Nobody ELSE gate)
            /\ rowLock' = Unlocked(a)
            /\ tx' = [tx EXCEPT ![a] = NoTx]
            /\ missed' = missed \ {a}

\* What it wrote is gone: a request it inserted, and all decisions.
Drafts(a) == {r \in Replacements : verdict[r] = "draft" /\ tx[a].row = r}
Rollback(a) ==
    /\ Ended(a)
    /\ verdict' = [r \in Replacements |-> IF r \in Drafts(a) THEN "none" ELSE verdict[r]]
    /\ file' = [r \in Replacements |-> IF r \in Drafts(a) THEN Nobody ELSE file[r]]
    /\ base' = [r \in Replacements |-> IF r \in Drafts(a) THEN {} ELSE base[r]]
    /\ UNCHANGED <<self, undo, kept, overdue, ripe, slipped, selfEdits>>

\* hmx_expire_pending_replacements: the rows whose timeout has passed.
LapsedRows == {r \in overdue : verdict[r] \in Undecided}
LapsedFree == \A r \in LapsedRows : Free(r)

-----------------------------------------------------------------------------
\* The operator submits a file (import_authoritative_hmx).

\* Identical content of the same lineage is verified and changes nothing.
Verified(f) == f.lineage = "same" /\ self[f.section] = f.to

\* Requests that can still be inserted.
Fresh == {r \in Replacements : verdict[r] = "none"}
Submitting == {o \in Operators : tx[o].at = "measured"}

\* evaluate_protected_replacement exports the sections before any lock is taken ...
Measure(o, f) ==
    /\ At(o, "idle") /\ ~Verified(f) /\ Cardinality(Fresh) > Cardinality(Submitting)
    /\ tx' = [tx EXCEPT ![o] = [NoTx EXCEPT !.at = "measured", !.does = "import",
                                            !.file = f, !.seen = self]]
    /\ UNCHANGED <<self, requestRows, locks, selfHistory, selfBounds>>

\* ... except in an override, whose transaction begins with the lock.
Override(o, f) ==
    /\ At(o, "idle") /\ ~Verified(f) /\ Cardinality(Fresh) > Cardinality(Submitting)
    /\ gate = Nobody
    /\ gate' = o
    /\ tx' = [tx EXCEPT ![o] = [NoTx EXCEPT !.at = "measured", !.does = "override",
                                            !.file = f, !.seen = self]]
    /\ UNCHANGED <<self, requestRows, rowLock, selfHistory, selfBounds>>

\* Requests with the fingerprint of o's.
Alike(o) == {r \in Replacements : /\ verdict[r] # "none" /\ file[r] = tx[o].file
                                  /\ base[r] = tx[o].seen[Target(o)]}
Latest(r, R) == r \in R /\ \A q \in R : q <= r

\* _enqueue_replacement under the gate: a new row, or the latest request with the
\* same fingerprint unless that one timed out.  Only an undecided one gets the
\* reference map of this import.
Insert(o) ==
    /\ At(o, "measured") /\ GateFree(o)
    /\ \A r \in Alike(o) : Latest(r, Alike(o)) => verdict[r] = "timed_out"
    /\ \E r \in Fresh :
          /\ \A q \in Fresh : r <= q
          /\ verdict' = [verdict EXCEPT ![r] = "draft"]
          /\ file' = [file EXCEPT ![r] = tx[o].file]
          /\ base' = [base EXCEPT ![r] = tx[o].seen[Target(o)]]
          /\ tx' = [tx EXCEPT ![o].at = "enqueued", ![o].row = r]
    /\ gate' = o
    /\ UNCHANGED <<self, undo, kept, overdue, ripe, rowLock, selfHistory, selfBounds>>

ReuseRequest(o) ==
    /\ At(o, "measured") /\ GateFree(o)
    /\ \E r \in Alike(o) :
          /\ Latest(r, Alike(o)) /\ verdict[r] # "timed_out"
          /\ IF tx[o].does = "override" \/ verdict[r] \in Undecided
             THEN /\ tx' = [tx EXCEPT ![o].at = "enqueued", ![o].row = r]
                  /\ gate' = o
                  /\ UNCHANGED <<rowLock, missed>>
             ELSE Ended(o)
    /\ UNCHANGED <<self, requestRows, slipped, selfBounds>>

\* The update of the reference map waits for the row; then the import commits.
Submit(o) ==
    /\ At(o, "enqueued") /\ tx[o].does = "import" /\ Free(tx[o].row)
    /\ verdict' = [verdict EXCEPT ![tx[o].row] = IF @ = "draft" THEN "pending" ELSE @]
    /\ Ended(o)
    /\ UNCHANGED <<self, file, base, undo, kept, overdue, ripe, slipped, selfBounds>>

\* Mutant: the override trusts the status it was told when the request was reused.
Authorize_Blind(o) ==
    /\ At(o, "enqueued") /\ tx[o].does = "override" /\ Free(tx[o].row)
    /\ rowLock' = [rowLock EXCEPT ![tx[o].row] = o]
    /\ tx' = [tx EXCEPT ![o].at = "ready"]
    /\ UNCHANGED <<self, requestRows, gate, selfHistory, selfBounds>>

\* execute_protected_replacement locks the row and reads its status again: no
\* override of a decision.
Authorize(o) ==
    /\ At(o, "enqueued") /\ tx[o].does = "override" /\ Free(tx[o].row)
    /\ verdict[tx[o].row] \in Undecided \cup {"draft"}
    /\ rowLock' = [rowLock EXCEPT ![tx[o].row] = o]
    /\ tx' = [tx EXCEPT ![o].at = "ready"]
    /\ UNCHANGED <<self, requestRows, gate, selfHistory, selfBounds>>

Overruled(o) ==
    /\ At(o, "enqueued") /\ tx[o].does = "override" /\ Free(tx[o].row)
    /\ verdict[tx[o].row] \notin Undecided \cup {"draft"}
    /\ Rollback(o) /\ UNCHANGED interrupts

-----------------------------------------------------------------------------
\* The agent answers (acknowledge_protected_replacement).

\* hmx_acknowledge_protected_replacement expires what has lapsed and locks the
\* row; a call that raises undoes the expiry with the rest.
Open(a, r) == /\ At(a, "idle") /\ Free(r) /\ LapsedFree
              /\ verdict[r] \in Undecided /\ r \notin overdue

\* An acceptance goes on in the same transaction, with the rows it has locked.
Accept(a, r) ==
    /\ Open(a, r) /\ file[r].lineage # "invalid"
    /\ rowLock' = [q \in Replacements |->
                     IF q = r \/ q \in LapsedRows THEN a ELSE rowLock[q]]
    /\ tx' = [tx EXCEPT ![a] = [NoTx EXCEPT !.at = "accepted", !.does = "accept",
                                            !.row = r, !.file = file[r]]]
    /\ UNCHANGED <<self, requestRows, gate, selfHistory, selfBounds>>

Enter(a) ==
    /\ At(a, "accepted") /\ gate = Nobody
    /\ gate' = a
    /\ tx' = [tx EXCEPT ![a].at = "ready"]
    /\ UNCHANGED <<self, requestRows, rowLock, selfHistory, selfBounds>>

\* Mutant: a decision does not look at the status it replaces.
Decide_Again(a, r) ==
    /\ At(a, "idle") /\ Free(r) /\ LapsedFree /\ verdict[r] \notin {"none", "draft"}
    /\ \E answer \in Refusals \cup {"deferred"} :
          verdict' = [q \in Replacements |-> IF q = r THEN answer
                         ELSE IF q \in LapsedRows THEN "timed_out" ELSE verdict[q]]
    /\ UNCHANGED <<self, file, base, undo, kept, overdue, ripe, locks, tx,
                   selfHistory, selfBounds>>

\* Refuse, request a modification, or defer: one statement.
Decide(a, r) ==
    /\ Open(a, r)
    /\ \E answer \in Refusals \cup {"deferred"} :
          verdict' = [q \in Replacements |-> IF q = r THEN answer
                         ELSE IF q \in LapsedRows THEN "timed_out" ELSE verdict[q]]
    /\ UNCHANGED <<self, file, base, undo, kept, overdue, ripe, locks, tx,
                   selfHistory, selfBounds>>

\* hmx_purge_expired_protected_snapshots
Purged == [r \in Replacements |-> IF undo[r] = "open" /\ r \in ripe THEN "purged" ELSE undo[r]]
PurgeFree == \A r \in ripe : undo[r] = "open" => Free(r)

\* revert_protected_replacement purges in a transaction of its own ...
BeginRevert(a, r) ==
    /\ At(a, "idle") /\ PurgeFree /\ undo[r] # "none"
    /\ undo' = Purged
    /\ kept' = [q \in Replacements |-> IF Purged[q] = "purged" THEN {} ELSE kept[q]]
    /\ tx' = [tx EXCEPT ![a] = [NoTx EXCEPT !.at = "undoing", !.does = "revert",
                                            !.row = r, !.file = file[r]]]
    /\ UNCHANGED <<self, verdict, file, base, overdue, ripe, locks, selfHistory, selfBounds>>

\* ... and then takes the gate, the row and the snapshot.  It refuses what is not
\* executed, a window that has closed, and a snapshot that is not the state the
\* audit names.
Revertible(r) == /\ verdict[r] = "executed"
                 /\ undo[r] = "open" /\ r \notin ripe
                 /\ kept[r] = base[r]
TakeBackSelf(a) ==
    /\ At(a, "undoing") /\ gate = Nobody /\ Free(tx[a].row)
    /\ IF Revertible(tx[a].row)
       THEN /\ gate' = a
            /\ rowLock' = [rowLock EXCEPT ![tx[a].row] = a]
            /\ tx' = [tx EXCEPT ![a].at = "ready"]
            /\ UNCHANGED missed
       ELSE Ended(a)
    /\ UNCHANGED <<self, requestRows, slipped, selfBounds>>

-----------------------------------------------------------------------------
\* The write, in an acceptance, an override or a reversion.

\* What the section has to be, and what it is to become.
Expected(a) == IF tx[a].does = "revert" THEN tx[a].file.to ELSE base[tx[a].row]
NewState(a) == IF tx[a].does = "revert" THEN kept[tx[a].row] ELSE tx[a].file.to

\* Mutant: no comparison with the state the request was made for.
Check_Blind(a) ==
    /\ At(a, "ready")
    /\ tx' = [tx EXCEPT ![a].at = "checked", ![a].seen = self]
    /\ UNCHANGED <<self, requestRows, locks, selfHistory, selfBounds>>

\* The first export: the section must not have changed since.
Check(a) ==
    /\ At(a, "ready") /\ self[Target(a)] = Expected(a)
    /\ tx' = [tx EXCEPT ![a].at = "checked", ![a].seen = self]
    /\ UNCHANGED <<self, requestRows, locks, selfHistory, selfBounds>>

Changed(a) ==
    /\ At(a, "ready") /\ self[Target(a)] # Expected(a)
    /\ Rollback(a) /\ UNCHANGED interrupts

\* Mutant: the snapshot is what the file brings.
Keep_New(a) ==
    /\ At(a, "checked") /\ tx[a].does # "revert"
    /\ tx' = [tx EXCEPT ![a].at = "kept", ![a].copy = NewState(a)]
    /\ UNCHANGED <<self, requestRows, locks, selfHistory, selfBounds>>

\* create_protected_snapshot exports once more.
Keep(a) ==
    /\ At(a, "checked") /\ tx[a].does # "revert"
    /\ tx' = [tx EXCEPT ![a].at = "kept", ![a].copy = self[Target(a)]]
    /\ UNCHANGED <<self, requestRows, locks, selfHistory, selfBounds>>

\* hmx_import_authoritative deletes the records it finds and inserts the new ones.
Write(a) ==
    /\ At(a, IF tx[a].does = "revert" THEN "checked" ELSE "kept")
    /\ tx' = [tx EXCEPT ![a].at = "written", ![a].erased = self[Target(a)]]
    /\ UNCHANGED <<self, requestRows, locks, selfHistory, selfBounds>>

\* The last export: the section is the new one, the others are as they were.
AsIntended(a) ==
    /\ self[Target(a)] \subseteq tx[a].erased
    /\ \A s \in Sections \ {Target(a)} : self[s] = tx[a].seen[s]
Verify(a) ==
    /\ At(a, "written") /\ AsIntended(a)
    /\ tx' = [tx EXCEPT ![a].at = "verified"]
    /\ UNCHANGED <<self, requestRows, locks, selfHistory, selfBounds>>

Collateral(a) ==
    /\ At(a, "written") /\ ~AsIntended(a)
    /\ Rollback(a) /\ UNCHANGED interrupts

\* Records that came after the last export stay beside the new ones.
Commit(a) ==
    LET r == tx[a].row
        back == tx[a].does = "revert"
    IN
    /\ At(a, "verified")
    /\ self' = [self EXCEPT ![Target(a)] = (@ \ tx[a].erased) \cup NewState(a)]
    /\ verdict' = [q \in Replacements |->
                     IF q = r THEN IF back THEN "reverted" ELSE "executed"
                     ELSE IF rowLock[q] = a THEN "timed_out" ELSE verdict[q]]
    /\ undo' = [undo EXCEPT ![r] = IF back THEN "consumed" ELSE "open"]
    /\ kept' = [kept EXCEPT ![r] = IF back THEN {} ELSE tx[a].copy]
    /\ slipped' = IF a \in missed THEN slipped \cup {r} ELSE slipped
    /\ Ended(a)
    /\ UNCHANGED <<file, base, overdue, ripe, selfBounds>>

-----------------------------------------------------------------------------
\* hmx_pending_replacements, in the plan of every heartbeat and as a tool: what
\* has lapsed is expired, what is ripe is purged.
List ==
    /\ LapsedFree /\ PurgeFree
    /\ verdict' = [r \in Replacements |-> IF r \in LapsedRows THEN "timed_out" ELSE verdict[r]]
    /\ undo' = Purged
    /\ kept' = [r \in Replacements |-> IF Purged[r] = "purged" THEN {} ELSE kept[r]]
    /\ UNCHANGED <<self, file, base, overdue, ripe, locks, tx, selfHistory, selfBounds>>

\* The agent lives on: a record changes, goes or comes.  A record an open
\* transaction has deleted is locked.
Writing(s) == {a \in Actors : tx[a].at \in {"written", "verified"} /\ Target(a) = s}
Compared(s) == {a \in Actors : tx[a].at \in {"checked", "kept"} /\ Target(a) = s}
EditSelf(s, gone, come) ==
    /\ selfEdits < MaxSelfEdits /\ selfEdits' = selfEdits + 1
    /\ gone \subseteq self[s] /\ come \cap self[s] = {} /\ gone \cup come # {}
    /\ \A a \in Writing(s) : gone \cap tx[a].erased = {}
    /\ self' = [self EXCEPT ![s] = (@ \ gone) \cup come]
    /\ missed' = missed \cup Compared(s)
    /\ UNCHANGED <<requestRows, locks, tx, slipped, interrupts>>

\* Both limits of a timeout pass, or one of a window.
GrowOverdue(r) ==
    /\ verdict[r] \in Undecided /\ overdue' = overdue \cup {r} /\ r \notin overdue
    /\ UNCHANGED <<self, verdict, file, base, undo, kept, ripe, locks, tx,
                   selfHistory, selfBounds>>
Ripen(r) ==
    /\ undo[r] = "open" /\ ripe' = ripe \cup {r} /\ r \notin ripe
    /\ UNCHANGED <<self, verdict, file, base, undo, kept, overdue, locks, tx,
                   selfHistory, selfBounds>>

\* A statement fails or the process dies: PostgreSQL rolls the transaction back.
Interrupt(a) ==
    /\ ~At(a, "idle") /\ interrupts < MaxInterrupts
    /\ interrupts' = interrupts + 1 /\ Rollback(a)

\* An acceptance holds its row and wants the gate, an import the other way round:
\* PostgreSQL ends one of them.
Awaits(a, b) ==
    \/ At(a, "accepted") /\ gate = b
    \/ At(a, "enqueued") /\ rowLock[tx[a].row] = b
DeadlockDetected(a) ==
    /\ \E b \in Actors \ {a} : Awaits(a, b) /\ Awaits(b, a)
    /\ Rollback(a) /\ UNCHANGED interrupts

-----------------------------------------------------------------------------
OperatorStep(o) == Insert(o) \/ ReuseRequest(o) \/ Submit(o) \/ Authorize(o) \/ Overruled(o)
AgentStep(a) == Enter(a) \/ TakeBackSelf(a)
WriteStep(a) == Check(a) \/ Changed(a) \/ Keep(a) \/ Write(a) \/ Verify(a)
                \/ Collateral(a) \/ Commit(a)

ReplacementNext ==
    \/ \E o \in Operators, f \in Files : Measure(o, f) \/ Override(o, f)
    \/ \E o \in Operators : OperatorStep(o)
    \/ \E a \in Agents, r \in Replacements : Accept(a, r) \/ Decide(a, r) \/ BeginRevert(a, r)
    \/ \E a \in Agents : AgentStep(a)
    \/ \E a \in Actors : WriteStep(a) \/ Interrupt(a) \/ DeadlockDetected(a)
    \/ List
    \/ \E s \in Sections, gone, come \in SUBSET Records : EditSelf(s, gone, come)
    \/ \E r \in Replacements : GrowOverdue(r) \/ Ripen(r)

\* Statements end, and who waits for a lock gets it in turn (PostgreSQL queues
\* waiters); heartbeats go on.  Nobody has to submit, decide or revert anything.
ReplacementFairness ==
    /\ \A o \in Operators : SF_replacementVars(OperatorStep(o))
    /\ \A a \in Agents : SF_replacementVars(AgentStep(a))
    /\ \A a \in Actors : WF_replacementVars(WriteStep(a) \/ DeadlockDetected(a))
    /\ SF_replacementVars(List)

ReplacementSpec == ReplacementInit /\ [][ReplacementNext]_replacementVars /\ ReplacementFairness

-----------------------------------------------------------------------------
TxState ==
    [at : {"idle", "measured", "enqueued", "accepted", "undoing", "ready", "checked",
           "kept", "written", "verified"},
     does : {"nothing", "import", "override", "accept", "revert"},
     row : Replacements \cup {Nobody}, file : Files \cup {Nobody},
     seen : [Sections -> SUBSET Records], copy : SUBSET Records, erased : SUBSET Records]

ReplacementTypeOK ==
    /\ self \in [Sections -> SUBSET Records]
    /\ verdict \in [Replacements -> Undecided \cup Settled \cup {"none", "draft"}]
    /\ file \in [Replacements -> Files \cup {Nobody}]
    /\ base \in [Replacements -> SUBSET Records]
    /\ undo \in [Replacements -> {"none", "open", "consumed", "purged"}]
    /\ kept \in [Replacements -> SUBSET Records]
    /\ overdue \subseteq Replacements /\ ripe \subseteq Replacements
    /\ gate \in Actors \cup {Nobody}
    /\ rowLock \in [Replacements -> Actors \cup {Nobody}]
    /\ tx \in [Actors -> TxState]
    /\ missed \subseteq Actors /\ slipped \subseteq Replacements
    /\ selfEdits \in 0..MaxSelfEdits /\ interrupts \in 0..MaxInterrupts

\* A refusal, a timeout and an execution are final: no override, no second answer,
\* no late expiry and no import of the same file again takes them back.  An
\* execution can only be reverted.
VerdictsStand == [][\A r \in Replacements : verdict[r] \in Settled =>
    \/ verdict'[r] = verdict[r]
    \/ verdict[r] = "executed" /\ verdict'[r] = "reverted"]_verdict

\* Whatever edits, decisions and other replacements go on meanwhile: what is
\* erased is the state that the request, or the audit of the replacement taken
\* back, names; only an edit between the comparison and the write is not seen.
ErasesKnownState == \A a \in Actors \ missed :
    tx[a].at \in {"written", "verified"} => tx[a].erased = Expected(a)

\* A replacement whose window is open can be taken back: its snapshot is the
\* state that its audit names, unless it was executed over an unseen edit.
SnapshotsFit == \A r \in Replacements \ slipped :
    undo[r] = "open" => kept[r] = base[r]

\* No transaction stays open: not behind the gate, not behind a row, not in the
\* deadlock of the two; and a request that lapses undecided is expired.
ReplacementsEnd ==
    /\ \A a \in Actors : []<>At(a, "idle")
    /\ \A r \in Replacements : r \in LapsedRows ~> verdict[r] \notin Undecided

\* plans/hmx.md:1935, of a reversion: "it never overwrites newer state".
NewerStateKept == \A a \in Actors :
    tx[a].at \in {"written", "verified"} /\ tx[a].does = "revert" =>
        tx[a].erased = tx[a].file.to
=============================================================================
