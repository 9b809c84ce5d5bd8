--------------------------- MODULE HeartbeatProofs --------------------------
(***************************************************************************)
(* What holds of the heartbeat whoever else writes heartbeat_state, for    *)
(* any number of beats, sessions and faults: the types, the protection an  *)
(* outcome has while its row is locked, and that no beat is charged twice; *)
(* and, of a worker that is the only writer, that its beats never overlap. *)
(***************************************************************************)
EXTENDS Heartbeat, TLAPS

\* The places where a session has a beat to work on.
Working ==
    {"submitting", "think", "economy", "debit", "recap", "recapping", "legacy",
     "batch", "deciding", "release", "releasing", "rescue", "rescuing", "done"}

BeatsAtWork == \A s \in Sessions : at[s] \in Working => beat[s] \in Beats

\* Two sessions never have the same outcome locked.
LocksExclude ==
    \A s, t \in Sessions :
        s # t /\ Locked(s) /\ Locked(t) => beat[s] # beat[t]

IInv == TypeOK /\ BeatsAtWork /\ LockedOutcomesRun /\ LocksExclude /\ ChargedOnce

-----------------------------------------------------------------------------
(* The operators the actions share                                         *)

\* Finalizing changes nothing but running outcomes in the set.
LEMMA FinalizedType ==
    ASSUME TypeOK, NEW S
    PROVE  /\ Finalized(S) \in [Beats -> {"none", "running", "final"}]
           /\ \A b \in Beats :
                 /\ b \notin S => Finalized(S)[b] = outcome[b]
                 /\ outcome[b] = "final" => Finalized(S)[b] = "final"
BY DEF TypeOK, Finalized

\* A charge leaves the level within the bank.
LEMMA LessType ==
    ASSUME NEW energy \in 0..Cap, NEW cost \in 0..Cap
    PROVE  Less(energy, cost) \in 0..Cap
BY HeartbeatAssumption DEF Less

\* What a background statement writes is a row.
LEMMA WrittenType ==
    ASSUME TypeOK, NEW s \in Sessions, NEW r \in Written(s)
    PROVE  r \in Row
<1>1. snap[s] \in Row
    BY DEF TypeOK
<1>2. CASE r \in {[snap[s] EXCEPT !.energy = @ - c] : c \in 1..snap[s].energy}
    BY <1>1, <1>2, HeartbeatAssumption DEF Row
<1>3. CASE r \in {[snap[s] EXCEPT !.paused = TRUE], [snap[s] EXCEPT !.paused = FALSE], snap[s]}
    BY <1>1, <1>3 DEF Row
<1>4. QED
    BY <1>2, <1>3 DEF Written

-----------------------------------------------------------------------------
(* Types                                                                   *)

LEMMA TypeInit == Init => TypeOK
BY HeartbeatAssumption
   DEF Init, TypeOK, FirstRow, Row, Place, Queue!Init, Queue!TypeOK,
       Queue!States, NoBeat

\* A step changes the place of at most one session, or of the worker's two.
LEMMA TypeStep ==
    ASSUME TypeOK, BeatsAtWork, [Next]_vars
    PROVE  TypeOK'
<1> DEFINE Rest == crashes' \in Nat /\ errors' \in Nat /\ left' \in Nat
                     /\ writes' \in Nat
<1> USE DEF TypeOK
<1>a. FirstRow \in Row
    BY HeartbeatAssumption DEF FirstRow, Row, NoBeat
<1>b. ASSUME NEW s \in Sessions, NEW place \in Place, Goto(s, place)
      PROVE  at' \in [Sessions -> Place]
    BY <1>b DEF Goto
<1>c. ASSUME NEW s \in Sessions, NEW place \in Place, Open(s, place)
      PROVE  at' \in [Sessions -> Place] /\ snap' \in [Sessions -> Row]
    BY <1>c DEF Open, Goto
<1>d. ASSUME NEW s \in Sessions, NEW place \in Place, Close(s, place)
      PROVE  at' \in [Sessions -> Place] /\ snap' \in [Sessions -> Row]
    BY <1>a, <1>d DEF Close, Goto
<1>e. ASSUME NEW s \in Sessions, StatementFails(s)
      PROVE  Rest
    BY <1>e DEF StatementFails, Error, bounds
<1>f. ASSUME UNCHANGED bounds
      PROVE  Rest
    BY <1>f DEF bounds
<1>g. ASSUME NEW from \in Queue!States, NEW to \in Queue!States,
             NEW b \in Beats, Queue!Move(b, from, to)
      PROVE  Queue!TypeOK'
    BY <1>g DEF Queue!Move, Queue!TypeOK
<1>i. UNCHANGED queue => Queue!TypeOK'
    BY DEF Queue!TypeOK
<1>h. ASSUME NEW s \in Sessions
      PROVE  [snap[s] EXCEPT !.active = NoBeat] \in Row
    BY DEF Row, NoBeat
<1>1. ASSUME NEW s \in Sessions, StartStep(s)
      PROVE  TypeOK'
  <2>1. CASE Check(s)
    BY <1>i, <2>1, <1>b, <1>f DEF Check, Place
  <2>2. CASE OpenStart(s)
    BY <1>i, <2>2, <1>c, <1>f DEF OpenStart, Place
  <2>3. CASE CommitStart(s)
    <3>1. row' \in Row /\ outcome' \in [Beats -> {"none", "running", "final"}]
      <4>1. PICK b \in Beats, e \in 0..Cap :
               /\ row' = [snap[s] EXCEPT !.active = b, !.energy = e]
               /\ outcome' = [Finalized(Dropped(row, snap[s])) EXCEPT ![b] = "running"]
        BY <2>3 DEF CommitStart
      <4>2. Finalized(Dropped(row, snap[s])) \in [Beats -> {"none", "running", "final"}]
        BY FinalizedType
      <4>3. QED
        BY <4>1, <4>2 DEF Row
    <3>2. beat' \in [Sessions -> Beats \cup {NoBeat}]
      BY <2>3 DEF CommitStart
    <3>3. at' \in [Sessions -> Place] /\ snap' \in [Sessions -> Row]
      BY <1>i, <2>3, <1>d DEF CommitStart, Place
    <3>4. QED
      BY <3>1, <3>2, <3>3, <2>3, <1>f, <1>i DEF CommitStart
  <2>4. QED
    BY <1>1, <2>1, <2>2, <2>3 DEF StartStep
<1>2. ASSUME NEW s \in Sessions, RunStep(s)
      PROVE  TypeOK'
  <2>1. CASE OpenEconomy(s)
    BY <1>i, <2>1, <1>b, <1>f DEF OpenEconomy, Place
  <2>2. CASE OpenDebit(s) \/ OpenRecap(s) \/ OpenRelease(s) \/ OpenDecision(s)
    BY <1>i, <2>2, <1>c, <1>f DEF OpenDebit, OpenRecap, OpenRelease, OpenDecision, Place
  <2>3. CASE CommitEconomy(s)
    <3>1. PICK cost \in 0..Cap :
             /\ row' = IF cost = 0 /\ snap[s].active # beat[s] THEN row
                       ELSE [snap[s] EXCEPT !.energy = Less(@, cost)]
             /\ outcome' = [Finalized(Dropped(row, row')) EXCEPT ![beat[s]] = "final"]
             /\ debits' = [debits EXCEPT ![beat[s]] = IF cost = 0 THEN @ ELSE @ + 1]
      BY <2>3 DEF CommitEconomy
    <3>2. row' \in Row
      <4>1. snap[s].energy \in 0..Cap
        BY DEF Row
      <4>2. Less(snap[s].energy, cost) \in 0..Cap
        BY <4>1, LessType
      <4>3. QED
        BY <3>1, <4>2 DEF Row
    <3>3. outcome' \in [Beats -> {"none", "running", "final"}]
      BY <3>1, FinalizedType
    <3>4. debits' \in [Beats -> Nat]
      <4>1. CASE cost = 0
        BY <3>1, <4>1
      <4>2. CASE cost # 0
        <5>1. debits' = [debits EXCEPT ![beat[s]] = @ + 1]
          BY <3>1, <4>2
        <5>2. beat[s] \in Beats
          BY <2>3 DEF CommitEconomy, BeatsAtWork, Working
        <5>3. debits[beat[s]] + 1 \in Nat
          BY <5>2
        <5>4. QED
          BY <5>1, <5>2, <5>3
      <4>3. QED
        BY <4>1, <4>2
    <3>5. at' \in [Sessions -> Place] /\ snap' \in [Sessions -> Row]
      BY <1>i, <2>3, <1>d DEF CommitEconomy, Place
    <3>6. QED
      BY <2>3, <3>2, <3>3, <3>4, <3>5, <1>f, <1>i DEF CommitEconomy
  <2>4. CASE CommitRecap(s) \/ CommitRelease(s)
    <3>1. row' \in Row
      BY <2>4, <1>h DEF CommitRecap, CommitRelease
    <3>2. outcome' \in [Beats -> {"none", "running", "final"}]
      BY <2>4, FinalizedType DEF CommitRecap, CommitRelease
    <3>3. QED
      BY <1>i, <2>4, <3>1, <3>2, <1>d, <1>f DEF CommitRecap, CommitRelease, Place
  <2>5. CASE CommitDecision(s)
    <3>1. row' \in Row
      BY <2>5 DEF CommitDecision, Acted, Completed, Row, NoBeat
    <3>2. outcome' \in [Beats -> {"none", "running", "final"}]
      BY <2>5, FinalizedType DEF CommitDecision
    <3>3. QED
      BY <1>i, <2>5, <3>1, <3>2, <1>d, <1>f DEF CommitDecision, Place
  <2>6. CASE CommitBatch(s)
    <3>1. row' \in Row
      BY <2>6 DEF CommitBatch, Acted
    <3>2. outcome' \in [Beats -> {"none", "running", "final"}]
      BY <2>6, FinalizedType DEF CommitBatch
    <3>3. QED
      BY <1>i, <2>6, <3>1, <3>2, <1>d, <1>f DEF CommitBatch, Place
  <2>7. QED
    BY <1>2, <2>1, <2>2, <2>3, <2>4, <2>5, <2>6 DEF RunStep
<1>3. ASSUME NEW s \in Sessions, FaultStep(s)
      PROVE  TypeOK'
  <2>1. CASE DecisionCallFails(s) \/ ManualRaises(s)
    BY <1>i, <2>1, <1>b DEF DecisionCallFails, ManualRaises, Error, Place
  <2>2. CASE \/ StartFails(s) \/ EconomyFails(s) \/ RecapFails(s)
             \/ ReleaseFails(s) \/ DecisionFails(s) \/ WriteFails(s)
    BY <1>i, <2>2, <1>d, <1>e
       DEF StartFails, EconomyFails, RecapFails, ReleaseFails, DecisionFails,
           WriteFails, Place
  <2>3. CASE ClientLeaves(s)
    BY <1>i, <2>3, <1>d DEF ClientLeaves, LeaveManual, Place
  <2>4. QED
    BY <1>3, <2>1, <2>2, <2>3 DEF FaultStep
<1>4. ASSUME NEW s \in Sessions, EndManual(s)
      PROVE  TypeOK'
  BY <1>i, <1>4, <1>d, <1>f DEF EndManual, LeaveManual, Place
<1>5. ASSUME NEW s \in Sessions, OpenWrite(s)
      PROVE  TypeOK'
  BY <1>i, <1>5, <1>c DEF OpenWrite, Place
<1>6. ASSUME NEW s \in Sessions, CommitWrite(s)
      PROVE  TypeOK'
  <2>1. row' \in Row
    BY <1>6, WrittenType DEF CommitWrite
  <2>2. outcome' \in [Beats -> {"none", "running", "final"}]
    BY <1>6, FinalizedType DEF CommitWrite
  <2>3. QED
    BY <1>i, <1>6, <2>1, <2>2, <1>d, <1>f DEF CommitWrite, Place
<1>7. ASSUME NEW b \in Beats, Take(b)
      PROVE  TypeOK'
  <2>1. Queue!TypeOK'
    BY <1>7, <1>g DEF Take, Queue!Run, Queue!States
  <2>2. at' \in [Sessions -> Place] /\ beat' \in [Sessions -> Beats \cup {NoBeat}]
    BY <1>i, <1>7, <1>b DEF Take, Place, Sessions
  <2>3. QED
    BY <1>7, <2>1, <2>2, <1>f DEF Take
<1>8. CASE Submit \/ SubmitFails
  <2>1. Timer \in Sessions
    BY DEF Sessions
  <2>2. Queue!TypeOK'
    <3>1. CASE Submit
      <4>1. beat[Timer] \in Beats
        BY <2>1, <3>1 DEF Submit, BeatsAtWork, Working
      <4>2. QED
        BY <4>1, <3>1, <1>g DEF Submit, Queue!Enqueue, Queue!States
    <3>2. CASE SubmitFails
      BY <3>2 DEF SubmitFails, Queue!TypeOK
    <3>3. QED
      BY <1>8, <3>1, <3>2
  <2>3. QED
    BY <1>i, <1>8, <2>1, <2>2, <1>b, <1>f DEF Submit, SubmitFails, Error, Place
<1>9. CASE Settle
  <2>1. Consumer \in Sessions
    BY DEF Sessions
  <2>2. beat[Consumer] \in Beats
    BY <2>1, <1>9 DEF Settle, BeatsAtWork, Working
  <2>3. Queue!TypeOK'
    BY <2>2, <1>9, <1>g DEF Settle, Queue!Settle, Queue!States
  <2>4. QED
    BY <1>i, <1>9, <2>1, <2>3, <1>b, <1>f DEF Settle, Place
<1>10. CASE Crash
  <2>1. at' \in [Sessions -> Place]
    BY <1>10 DEF Crash, Place
  <2>2. beat' \in [Sessions -> Beats \cup {NoBeat}]
    BY <1>10 DEF Crash
  <2>3. snap' \in [Sessions -> Row]
    BY <1>10, <1>a DEF Crash
  <2>4. QED
    BY <1>10, <2>1, <2>2, <2>3, <1>i DEF Crash
<1>11. CASE Restart
  <2>1. Queue!TypeOK'
    BY <1>11 DEF Restart, Queue!TakeBack, Queue!TypeOK, Queue!States
  <2>2. QED
    BY <1>11, <2>1, <1>f DEF Restart, Place
<1>12. CASE UNCHANGED vars
  BY <1>12 DEF vars, Queue!TypeOK
<1>13. QED
  BY <1>1, <1>2, <1>3, <1>4, <1>5, <1>6, <1>7, <1>8, <1>9, <1>10, <1>11, <1>12
     DEF Next

-----------------------------------------------------------------------------
(* Whoever has work to do has a beat                                       *)

LEMMA WorkStep ==
    ASSUME TypeOK, BeatsAtWork, [Next]_vars
    PROVE  BeatsAtWork'
<1> USE DEF TypeOK, BeatsAtWork
<1>a. ASSUME NEW s \in Sessions, NEW place, Goto(s, place), UNCHANGED beat,
             place \in Working => at[s] \in Working
      PROVE  BeatsAtWork'
    BY <1>a DEF Goto
<1>b. ASSUME NEW s \in Sessions, NEW place, Goto(s, place),
             place \notin Working,
             \A t \in Sessions \ {s} : beat'[t] = beat[t]
      PROVE  BeatsAtWork'
    BY <1>b DEF Goto
<1>1. ASSUME NEW s \in Sessions, StartStep(s)
      PROVE  BeatsAtWork'
  <2>1. CASE Check(s)
    BY <2>1, <1>b DEF Check, Working
  <2>2. CASE OpenStart(s)
    BY <2>2, <1>b DEF OpenStart, Open, Working
  <2>3. CASE CommitStart(s)
    <3>1. PICK b \in Beats : beat' = [beat EXCEPT ![s] = b]
      BY <2>3 DEF CommitStart
    <3>2. QED
      BY <3>1, <2>3 DEF CommitStart, Close, Goto
  <2>4. QED
    BY <1>1, <2>1, <2>2, <2>3 DEF StartStep
<1>2. ASSUME NEW s \in Sessions, RunStep(s)
      PROVE  BeatsAtWork'
  <2>1. CASE \/ OpenEconomy(s) \/ OpenDebit(s) \/ CommitEconomy(s)
             \/ OpenRecap(s) \/ CommitRecap(s)
    BY <2>1, <1>a
       DEF OpenEconomy, OpenDebit, CommitEconomy, OpenRecap, CommitRecap,
           Open, Close, Working
  <2>2. CASE \/ OpenRelease(s) \/ CommitRelease(s)
             \/ OpenDecision(s) \/ CommitDecision(s) \/ CommitBatch(s)
    BY <2>2, <1>a
       DEF OpenRelease, CommitRelease, OpenDecision, CommitDecision,
           CommitBatch, Open, Close, Working
  <2>3. QED
    BY <1>2, <2>1, <2>2 DEF RunStep
<1>3. ASSUME NEW s \in Sessions, FaultStep(s)
      PROVE  BeatsAtWork'
  <2>1. CASE StartFails(s) \/ WriteFails(s)
    BY <2>1, <1>b DEF StartFails, WriteFails, Close, Working
  <2>2. CASE ClientLeaves(s)
    <3>1. \A t \in Sessions \ {s} : beat'[t] = beat[t]
      BY <2>2 DEF ClientLeaves, LeaveManual
    <3>2. QED
      BY <2>2, <3>1, <1>b DEF ClientLeaves, LeaveManual, Close, Working
  <2>3. CASE EconomyFails(s) \/ RecapFails(s) \/ ReleaseFails(s) \/ DecisionFails(s)
    BY <2>3, <1>a
       DEF EconomyFails, RecapFails, ReleaseFails, DecisionFails, Close,
           Locked, Working
  <2>4. CASE DecisionCallFails(s) \/ ManualRaises(s)
    BY <2>4, <1>a DEF DecisionCallFails, ManualRaises, Working
  <2>5. QED
    BY <1>3, <2>1, <2>2, <2>3, <2>4 DEF FaultStep
<1>4. ASSUME NEW s \in Sessions, EndManual(s)
      PROVE  BeatsAtWork'
  <2>1. \A t \in Sessions \ {s} : beat'[t] = beat[t]
    BY <1>4 DEF EndManual, LeaveManual
  <2>2. QED
    BY <1>4, <2>1, <1>b DEF EndManual, LeaveManual, Close, Working
<1>5. ASSUME NEW s \in Sessions, OpenWrite(s) \/ CommitWrite(s)
      PROVE  BeatsAtWork'
  <2>1. PICK place \in {"spend", "touch", "pause", "resume", "idle"} : Goto(s, place)
    BY <1>5 DEF OpenWrite, CommitWrite, Open, Close
  <2>2. UNCHANGED beat
    BY <1>5 DEF OpenWrite, CommitWrite
  <2>3. QED
    BY <2>1, <2>2, <1>b DEF Working
<1>6. ASSUME NEW b \in Beats, Take(b)
      PROVE  BeatsAtWork'
  BY <1>6 DEF Take, Goto, Sessions
<1>7. CASE Submit \/ SubmitFails
  <2>1. \A t \in Sessions \ {Timer} : beat'[t] = beat[t]
    BY <1>7 DEF Submit, SubmitFails
  <2>2. QED
    BY <1>7, <2>1, <1>b DEF Submit, SubmitFails, Working, Sessions
<1>8. CASE Settle
  <2>1. \A t \in Sessions \ {Consumer} : beat'[t] = beat[t]
    BY <1>8 DEF Settle
  <2>2. QED
    BY <1>8, <2>1, <1>b DEF Settle, Working, Sessions
<1>9. CASE Crash \/ Restart
  BY <1>9 DEF Crash, Restart, Working
<1>10. CASE UNCHANGED vars
  BY <1>10 DEF vars
<1>11. QED
  BY <1>1, <1>2, <1>3, <1>4, <1>5, <1>6, <1>7, <1>8, <1>9, <1>10 DEF Next

-----------------------------------------------------------------------------
(* The lock on an outcome, and the charge made under it                    *)

\* A step that takes no lock leaves the outcomes that are locked alone, because
\* whoever finalizes others must be able to lock them itself.
LEMMA LockStep ==
    ASSUME TypeOK, BeatsAtWork, LockedOutcomesRun, LocksExclude, [Next]_vars
    PROVE  LockedOutcomesRun' /\ LocksExclude'
<1> DEFINE Kept == \A t \in Sessions :
                      Locked(t)' => /\ Locked(t)
                                    /\ beat'[t] = beat[t]
                                    /\ outcome'[beat[t]] = "running"
<1> USE DEF TypeOK, LockedOutcomesRun, LocksExclude, Locked
<1>k. Kept => LockedOutcomesRun' /\ LocksExclude'
    OBVIOUS
<1>q. ASSUME NEW s \in Sessions, NEW place, Goto(s, place),
             place \notin {"economy", "debit"}, UNCHANGED outcome,
             \A t \in Sessions \ {s} : beat'[t] = beat[t]
      PROVE  Kept
    BY <1>q DEF Goto
<1>w. ASSUME NEW s \in Sessions, NEW place, Goto(s, place), NEW S,
             place \notin {"economy", "debit"}, CanWrite(s, S),
             \A t \in Sessions \ {s} :
                /\ beat'[t] = beat[t]
                /\ Locked(t) => outcome'[beat[t]] = Finalized(S)[beat[t]]
      PROVE  Kept
  <2>1. ASSUME NEW t \in Sessions, Locked(t)'
        PROVE  /\ Locked(t)
               /\ beat'[t] = beat[t]
               /\ outcome'[beat[t]] = "running"
    <3>1. t # s /\ Locked(t) /\ beat'[t] = beat[t]
      BY <1>w, <2>1 DEF Goto
    <3>2. beat[t] \in Beats /\ beat[t] \notin S
      BY <1>w, <3>1 DEF CanWrite, BeatsAtWork, Working
    <3>3. Finalized(S)[beat[t]] = outcome[beat[t]]
      BY <3>2, FinalizedType
    <3>4. QED
      BY <1>w, <3>1, <3>3
  <2>2. QED
    BY <2>1
<1>1. ASSUME NEW s \in Sessions, StartStep(s)
      PROVE  Kept
  <2>1. CASE Check(s) \/ OpenStart(s)
    BY <2>1, <1>q DEF Check, OpenStart, Open
  <2>2. CASE CommitStart(s)
    <3> DEFINE S == Dropped(row, snap[s])
    <3>1. PICK b \in Beats :
             /\ outcome[b] = "none"
             /\ outcome' = [Finalized(S) EXCEPT ![b] = "running"]
             /\ beat' = [beat EXCEPT ![s] = b]
      BY <2>2 DEF CommitStart, IsFresh
    <3>2. ASSUME NEW t \in Sessions \ {s}
          PROVE  /\ beat'[t] = beat[t]
                 /\ Locked(t) => outcome'[beat[t]] = Finalized(S)[beat[t]]
      <4>1. Locked(t) => beat[t] # b
        BY <3>1
      <4>2. QED
        BY <3>1, <4>1, FinalizedType
    <3>3. PICK place \in {"submitting", "think"} : Goto(s, place)
      BY <2>2 DEF CommitStart, Close
    <3>4. CanWrite(s, S)
      BY <2>2 DEF CommitStart
    <3>5. QED
      BY <3>2, <3>3, <3>4, <1>w
  <2>3. QED
    BY <1>1, <2>1, <2>2 DEF StartStep
<1>2. ASSUME NEW s \in Sessions, RunStep(s), ~OpenEconomy(s)
      PROVE  Kept
  <2>1. CASE OpenDebit(s)
    BY <2>1 DEF OpenDebit, Open, Goto
  <2>2. CASE OpenRecap(s) \/ OpenRelease(s) \/ OpenDecision(s)
    BY <2>2, <1>q DEF OpenRecap, OpenRelease, OpenDecision, Open
  <2>3. CASE CommitEconomy(s)
    <3>1. PICK S : /\ CanWrite(s, S)
                   /\ outcome' = [Finalized(S) EXCEPT ![beat[s]] = "final"]
      BY <2>3 DEF CommitEconomy
    <3>2. ASSUME NEW t \in Sessions \ {s}
          PROVE  /\ beat'[t] = beat[t]
                 /\ Locked(t) => outcome'[beat[t]] = Finalized(S)[beat[t]]
      <4>1. Locked(t) => beat[t] # beat[s] /\ beat[t] \in Beats
        BY <2>3 DEF CommitEconomy, BeatsAtWork, Working
      <4>2. UNCHANGED beat
        BY <2>3 DEF CommitEconomy
      <4>3. QED
        BY <3>1, <4>1, <4>2, FinalizedType
    <3>3. QED
      BY <2>3, <3>1, <3>2, <1>w DEF CommitEconomy, Close
  <2>4. CASE CommitRecap(s) \/ CommitRelease(s) \/ CommitDecision(s)
    BY <2>4, <1>w DEF CommitRecap, CommitRelease, CommitDecision, Close
  <2>5. CASE CommitBatch(s)
    BY <2>5, <1>w DEF CommitBatch, Close
  <2>6. QED
    BY <1>2, <2>1, <2>2, <2>3, <2>4, <2>5 DEF RunStep
<1>3. ASSUME NEW s \in Sessions, OpenEconomy(s)
      PROVE  LockedOutcomesRun' /\ LocksExclude'
  <2>1. CASE Chargeable(beat[s])
    <3>1. outcome[beat[s]] = "running"
      BY <2>1 DEF Chargeable
    <3>2. QED
      BY <1>3, <2>1, <3>1 DEF OpenEconomy, Goto
  <2>2. CASE ~Chargeable(beat[s])
    BY <1>3, <2>2, <1>q, <1>k DEF OpenEconomy
  <2>3. QED
    BY <2>1, <2>2
<1>4. ASSUME NEW s \in Sessions, FaultStep(s) \/ EndManual(s)
      PROVE  Kept
  <2>1. PICK place : Goto(s, place) /\ place \notin {"economy", "debit"}
    BY <1>4
       DEF FaultStep, EndManual, StartFails, EconomyFails, RecapFails,
           ReleaseFails, DecisionCallFails, DecisionFails, ManualRaises,
           ClientLeaves, WriteFails, LeaveManual, Close
  <2>2. UNCHANGED outcome /\ \A t \in Sessions \ {s} : beat'[t] = beat[t]
    BY <1>4
       DEF FaultStep, EndManual, StartFails, EconomyFails, RecapFails,
           ReleaseFails, DecisionCallFails, DecisionFails, ManualRaises,
           ClientLeaves, WriteFails, LeaveManual
  <2>3. QED
    BY <2>1, <2>2, <1>q
<1>5. ASSUME NEW s \in Sessions, OpenWrite(s)
      PROVE  Kept
  BY <1>5, <1>q DEF OpenWrite, Open
<1>6. ASSUME NEW s \in Sessions, CommitWrite(s)
      PROVE  Kept
  <2>1. CASE Written(s) = {}
    BY <1>6, <2>1, <1>q DEF CommitWrite, Close
  <2>2. CASE Written(s) # {}
    BY <1>6, <2>2, <1>w DEF CommitWrite, Close
  <2>3. QED
    BY <2>1, <2>2
<1>7. ASSUME NEW b \in Beats, Take(b)
      PROVE  Kept
  BY <1>7, <1>q DEF Take, Sessions
<1>8. CASE Submit \/ SubmitFails
  BY <1>8, <1>q DEF Submit, SubmitFails, Sessions
<1>9. CASE Settle
  <2>1. UNCHANGED outcome /\ \A t \in Sessions \ {Consumer} : beat'[t] = beat[t]
    BY <1>9 DEF Settle
  <2>2. QED
    <3>1. Consumer \in Sessions /\ Goto(Consumer, "idle")
      BY <1>9 DEF Settle, Sessions
    <3>2. QED
      BY <2>1, <3>1, <1>q
<1>10. CASE Crash \/ Restart
  BY <1>10 DEF Crash, Restart
<1>11. CASE UNCHANGED vars
  BY <1>11 DEF vars
<1>12. QED
  BY <1>k, <1>1, <1>2, <1>3, <1>4, <1>5, <1>6, <1>7, <1>8, <1>9, <1>10, <1>11
     DEF Next

\* No step takes an outcome back, and only a session that has the outcome
\* locked, running and therefore unpaid, charges for it.
LEMMA ChargeStep ==
    ASSUME TypeOK, BeatsAtWork, LockedOutcomesRun, ChargedOnce, [Next]_vars
    PROVE  ChargedOnce'
<1> DEFINE FinalStays == \A b \in Beats : outcome[b] = "final" => outcome'[b] = "final"
<1> USE DEF TypeOK, ChargedOnce
<1>a. ASSUME UNCHANGED debits, FinalStays
      PROVE  ChargedOnce'
    BY <1>a
<1>b. ASSUME NEW S, outcome' = Finalized(S)
      PROVE  FinalStays
    BY <1>b, FinalizedType
<1>c. ASSUME UNCHANGED <<outcome, debits>>
      PROVE  ChargedOnce'
    BY <1>c
<1>1. ASSUME NEW s \in Sessions, StartStep(s)
      PROVE  ChargedOnce'
  <2>1. CASE Check(s) \/ OpenStart(s)
    BY <2>1, <1>c DEF Check, OpenStart
  <2>2. CASE CommitStart(s)
    <3>1. PICK b \in Beats :
             /\ outcome[b] = "none"
             /\ outcome' = [Finalized(Dropped(row, snap[s])) EXCEPT ![b] = "running"]
      BY <2>2 DEF CommitStart, IsFresh
    <3>2. FinalStays
      BY <3>1, FinalizedType
    <3>3. QED
      BY <2>2, <3>2, <1>a DEF CommitStart
  <2>3. QED
    BY <1>1, <2>1, <2>2 DEF StartStep
<1>2. ASSUME NEW s \in Sessions, RunStep(s)
      PROVE  ChargedOnce'
  <2>1. CASE OpenEconomy(s) \/ OpenDebit(s) \/ OpenRecap(s) \/ OpenRelease(s) \/ OpenDecision(s)
    BY <2>1, <1>c DEF OpenEconomy, OpenDebit, OpenRecap, OpenRelease, OpenDecision
  <2>2. CASE CommitEconomy(s)
    <3>1. PICK cost \in 0..Cap :
             /\ outcome' = [Finalized(Dropped(row, row')) EXCEPT ![beat[s]] = "final"]
             /\ debits' = [debits EXCEPT ![beat[s]] = IF cost = 0 THEN @ ELSE @ + 1]
      BY <2>2 DEF CommitEconomy
    <3>2. beat[s] \in Beats /\ outcome[beat[s]] = "running"
      BY <2>2 DEF CommitEconomy, BeatsAtWork, Working, LockedOutcomesRun, Locked
    <3>3. debits[beat[s]] = 0
      BY <3>2
    <3>4. debits'[beat[s]] \in {0, 1}
      BY <3>1, <3>2, <3>3
    <3>5. \A b \in Beats \ {beat[s]} : debits'[b] = debits[b]
      BY <3>1
    <3>6. FinalStays /\ outcome'[beat[s]] = "final"
      BY <3>1, <3>2, FinalizedType
    <3>7. QED
      BY <3>4, <3>5, <3>6
  <2>3. CASE CommitRecap(s)
    BY <2>3, <1>a, <1>b DEF CommitRecap
  <2>4. CASE CommitRelease(s)
    BY <2>4, <1>a, <1>b DEF CommitRelease
  <2>5. CASE CommitDecision(s)
    BY <2>5, <1>a, <1>b DEF CommitDecision
  <2>6. CASE CommitBatch(s)
    BY <2>6, <1>a, <1>b DEF CommitBatch
  <2>7. QED
    BY <1>2, <2>1, <2>2, <2>3, <2>4, <2>5, <2>6 DEF RunStep
<1>3. ASSUME NEW s \in Sessions, FaultStep(s) \/ EndManual(s) \/ OpenWrite(s)
      PROVE  ChargedOnce'
  BY <1>3, <1>c
     DEF FaultStep, EndManual, OpenWrite, StartFails, EconomyFails, RecapFails,
         ReleaseFails, DecisionCallFails, DecisionFails, ManualRaises,
         ClientLeaves, WriteFails, LeaveManual
<1>4. ASSUME NEW s \in Sessions, CommitWrite(s)
      PROVE  ChargedOnce'
  <2>1. FinalStays
    BY <1>4, <1>b DEF CommitWrite
  <2>2. QED
    BY <1>4, <2>1, <1>a DEF CommitWrite
<1>5. ASSUME NEW b \in Beats, Take(b)
      PROVE  ChargedOnce'
  BY <1>5, <1>c DEF Take
<1>6. CASE Submit \/ SubmitFails \/ Settle \/ Crash \/ Restart
  BY <1>6, <1>c DEF Submit, SubmitFails, Settle, Crash, Restart
<1>7. CASE UNCHANGED vars
  BY <1>7, <1>c DEF vars
<1>8. QED
  BY <1>1, <1>2, <1>3, <1>4, <1>5, <1>6, <1>7 DEF Next

-----------------------------------------------------------------------------
(* The theorems                                                            *)

LEMMA InvInit == Init => IInv
<1>1. Init => TypeOK
    BY TypeInit
<1>2. Init => BeatsAtWork /\ LockedOutcomesRun /\ LocksExclude
    BY DEF Init, BeatsAtWork, Working, LockedOutcomesRun, LocksExclude, Locked
<1>3. Init => ChargedOnce
    BY DEF Init, ChargedOnce
<1>4. QED
    BY <1>1, <1>2, <1>3 DEF IInv

LEMMA InvNext == IInv /\ [Next]_vars => IInv'
BY TypeStep, WorkStep, LockStep, ChargeStep DEF IInv

\* The invariant the theorems rest on is inductive.
THEOREM Inductive == Spec => []IInv
BY InvInit, InvNext, PTL DEF Spec

\* The row of heartbeat_state, the ledger and every session keep their types:
\* in particular the energy stays within the bank, whatever snapshot it is
\* computed from.
THEOREM TypeCorrect == Spec => []TypeOK
<1>1. IInv => TypeOK
    BY DEF IInv
<1>2. QED
    BY <1>1, Inductive, PTL

\* While finalize_heartbeat_economy has an outcome locked, it stays running.
THEOREM LockProtects == Spec => []LockedOutcomesRun
<1>1. IInv => LockedOutcomesRun
    BY DEF IInv
<1>2. QED
    BY <1>1, Inductive, PTL

\* The economy charges a beat at most once, however often its event is run
\* and whatever other sessions do to the claim.
THEOREM ChargeOnce == Spec => []ChargedOnce
<1>1. IInv => ChargedOnce
    BY DEF IInv
<1>2. QED
    BY <1>1, Inductive, PTL
-----------------------------------------------------------------------------
(* The worker alone: one beat at a time                                    *)

\* The places where the consumer runs a beat that still has its claim.
Running == Working \ {"submitting", "done"}

\* The places of a statement that has read the row and will write it back.
Writing == {"debit", "recapping", "releasing", "rescuing", "deciding"}

\* A claim goes from the timer through the queue to the consumer, and is in one
\* of these places only: who has it can rely on the row, and nobody starts a
\* beat meanwhile.
OneClaim ==
    /\ at[Timer] \in {"idle", "checked", "starting", "submitting"}
    /\ at[Consumer] \in {"idle", "done"} \cup Running
    /\ at[Timer] \in {"checked", "starting"} => row.active = NoBeat
    /\ at[Timer] = "submitting" => /\ row.active = beat[Timer]
                                   /\ at[Consumer] \notin Running
                                   /\ \A b \in Beats : queue[b] # "waiting"
    /\ \A b \in Beats : queue[b] = "waiting" => /\ row.active = b
                                                /\ at[Consumer] \notin Running
    /\ at[Consumer] \in Running => row.active = beat[Consumer]

\* No snapshot is stale, and a claimed beat has its row in the ledger.
SnapshotsTrue ==
    /\ at[Timer] = "starting" => snap[Timer] = row
    /\ at[Consumer] \in Writing => snap[Consumer] = row
    /\ row.active # NoBeat => outcome[row.active] # "none"

LoneInv == IInv /\ OneClaim /\ SnapshotsTrue

\* What a step of the lone worker does to the claim and the ledger.
Pulses == Beating!Next \/ UNCHANGED <<row.active, outcome>>

\* Beats of the lone worker do not overlap: each of its steps keeps the claim in
\* one place, and begins, records or releases a beat or is invisible to Pulse.
LEMMA LoneStep ==
    ASSUME Manuals = {}, Writers = {}, MaxCrashes = 0, LoneInv, [Next]_vars
    PROVE  OneClaim' /\ SnapshotsTrue' /\ Pulses
<1> USE DEF LoneInv, OneClaim, SnapshotsTrue, Running, Working, Writing
<1>t. TypeOK /\ BeatsAtWork
  BY DEF IInv
<1>s. Sessions = {Timer, Consumer} /\ Timer # Consumer
  BY HeartbeatAssumption DEF Sessions
<1>u. /\ at \in [Sessions -> Place] /\ beat \in [Sessions -> Beats \cup {NoBeat}]
      /\ snap \in [Sessions -> Row] /\ row \in Row /\ row.active \in Beats \cup {NoBeat}
      /\ outcome \in [Beats -> {"none", "running", "final"}]
      /\ queue \in [Beats -> Queue!States]
  BY <1>t DEF TypeOK, Row, Queue!TypeOK
<1>n. NoBeat \notin Beats
  BY HeartbeatAssumption DEF NoBeat, Beats
<1>f. Finalized({NoBeat}) = outcome /\ Finalized({}) = outcome
  BY <1>n, <1>u DEF Finalized
<1>g. ASSUME NEW b \in Beats, outcome[b] # "none"
      PROVE  Finalized({b}) = [outcome EXCEPT ![b] = "final"]
  BY <1>u, <1>g DEF Finalized
<1>q. ASSUME UNCHANGED <<row, outcome, queue>>, UNCHANGED <<at[Timer], snap[Timer], beat[Timer]>>,
             at'[Consumer] \in {"idle", "done"} \cup Running,
             at'[Consumer] \in Running => at[Consumer] \in Running /\ beat'[Consumer] = beat[Consumer],
             at'[Consumer] \in Writing => snap'[Consumer] = row
      PROVE  OneClaim' /\ SnapshotsTrue' /\ Pulses
  BY <1>q DEF Pulses
<1>p. ASSUME UNCHANGED <<row, outcome, queue>>,
             UNCHANGED <<at[Consumer], snap[Consumer], beat[Consumer]>>,
             at'[Timer] \in {"idle", "checked", "starting"},
             at'[Timer] # "idle" => row.active = NoBeat,
             at'[Timer] = "starting" => snap'[Timer] = row
      PROVE  OneClaim' /\ SnapshotsTrue' /\ Pulses
  BY <1>p DEF Pulses
<1>1. CASE Check(Timer) \/ OpenStart(Timer) \/ StartFails(Timer)
  BY <1>1, <1>p, <1>s, <1>u DEF Check, MayStart, OpenStart, StartFails, Open, Close, Goto
<1>2. CASE CommitStart(Timer)
  <2>1. PICK b \in Beats, e \in 0..Cap :
          /\ IsFresh(b)
          /\ row' = [snap[Timer] EXCEPT !.active = b, !.energy = e]
          /\ outcome' = [Finalized(Dropped(row, snap[Timer])) EXCEPT ![b] = "running"]
          /\ beat' = [beat EXCEPT ![Timer] = b]
    BY <1>2, Zenon DEF CommitStart
  <2>2. /\ at[Timer] = "starting" /\ row.active = NoBeat /\ snap[Timer] = row
        /\ outcome[b] = "none"
    BY <1>2, <2>1 DEF CommitStart, IsFresh
  <2>3. Dropped(row, snap[Timer]) = {NoBeat}
    BY <2>2 DEF Dropped
  <2>4. outcome' = [outcome EXCEPT ![b] = "running"] /\ row'.active = b
    <3>1. Finalized(Dropped(row, snap[Timer])) = outcome
      BY <1>f, <2>3
    <3>2. row'.active = b
      BY <1>u, <2>1, <2>2 DEF Row
    <3>3. QED
      BY <2>1, <3>1, <3>2
  <2>5. /\ at'[Timer] = "submitting" /\ at'[Consumer] = at[Consumer]
        /\ beat'[Timer] = b /\ queue' = queue
    BY <1>2, <1>s, <1>u, <2>1 DEF CommitStart, Close, Goto
  <2>6. at[Consumer] \notin Running
    BY <1>n, <1>s, <1>t, <2>2 DEF BeatsAtWork
  <2>7. \A d \in Beats : queue[d] # "waiting"
    BY <1>n, <2>2
  <2>8. OneClaim' /\ SnapshotsTrue'
    BY <1>u, <2>4, <2>5, <2>6, <2>7
  <2>9. Beating!Begin(b)
    BY <2>1, <2>2, <2>4 DEF Beating!Begin
  <2>10. QED
    BY <2>8, <2>9 DEF Pulses, Beating!Next
<1>3. CASE Submit \/ SubmitFails
  <2>1. /\ at[Timer] = "submitting" /\ at'[Timer] = "idle" /\ at'[Consumer] = at[Consumer]
        /\ snap' = snap /\ beat'[Consumer] = beat[Consumer] /\ UNCHANGED <<row, outcome>>
    BY <1>3, <1>s, <1>u DEF Submit, SubmitFails, Goto
  <2>2. \A b \in Beats : queue'[b] = "waiting" => b = beat[Timer]
    BY <1>3, <1>u, <2>1 DEF Submit, SubmitFails, Queue!Enqueue, Queue!Move
  <2>3. QED
    BY <2>1, <2>2 DEF Pulses
<1>4. ASSUME NEW b \in Beats, Take(b) PROVE OneClaim' /\ SnapshotsTrue' /\ Pulses
  <2>1. /\ at[Consumer] = "idle" /\ at'[Consumer] \in {"think", "legacy"}
        /\ at'[Timer] = at[Timer] /\ snap' = snap /\ UNCHANGED <<row, outcome>>
        /\ beat'[Consumer] = b /\ beat'[Timer] = beat[Timer]
    BY <1>4, <1>s, <1>u DEF Take, Goto
  <2>2. queue[b] = "waiting" /\ queue' = [queue EXCEPT ![b] = "running"]
    BY <1>4 DEF Take, Queue!Run, Queue!Move
  <2>3. row.active = b /\ at[Timer] \notin {"checked", "starting", "submitting"}
    BY <1>n, <2>2
  <2>4. \A d \in Beats : queue'[d] # "waiting"
    BY <1>u, <2>2, <2>3
  <2>5. QED
    BY <2>1, <2>3, <2>4 DEF Pulses
<1>5. CASE Settle
  <2>1. /\ at[Consumer] = "done" /\ at'[Consumer] = "idle"
        /\ at'[Timer] = at[Timer] /\ snap' = snap /\ UNCHANGED <<row, outcome>>
        /\ beat'[Timer] = beat[Timer]
    BY <1>5, <1>s, <1>u DEF Settle, Goto
  <2>2. \A b \in Beats : queue'[b] = "waiting" => queue[b] = "waiting"
    BY <1>5, <1>u DEF Settle, Queue!Settle, Queue!Move
  <2>3. QED
    BY <2>1, <2>2 DEF Pulses
<1>6. CASE \/ OpenEconomy(Consumer) \/ OpenDebit(Consumer) \/ OpenRecap(Consumer)
           \/ OpenRelease(Consumer) \/ OpenDecision(Consumer)
  <2>1. /\ UNCHANGED <<row, outcome, queue, beat>>
        /\ UNCHANGED <<at[Timer], snap[Timer]>>
        /\ at[Consumer] \in Running /\ at'[Consumer] \in Running
        /\ at'[Consumer] \in Writing => snap'[Consumer] = row
    BY <1>6, <1>s, <1>u
       DEF OpenEconomy, OpenDebit, OpenRecap, OpenRelease, OpenDecision, Open, Goto
  <2>2. QED
    BY <1>q, <2>1
<1>7. CASE \/ EconomyFails(Consumer) \/ RecapFails(Consumer) \/ ReleaseFails(Consumer)
           \/ DecisionCallFails(Consumer) \/ DecisionFails(Consumer)
  <2>1. /\ UNCHANGED <<row, outcome, queue, beat>>
        /\ UNCHANGED <<at[Timer], snap[Timer]>>
        /\ at[Consumer] \in Running /\ at'[Consumer] \in {"done"} \cup Running
        /\ at'[Consumer] \notin Writing
    BY <1>7, <1>s, <1>u
       DEF EconomyFails, RecapFails, ReleaseFails, DecisionCallFails, DecisionFails,
           Locked, Close, Goto
  <2>2. QED
    BY <1>q, <2>1
\* From here on the consumer writes: the timer is at rest, since a claim is held.
<1>8. ASSUME at[Consumer] \in Writing
      PROVE  /\ snap[Consumer] = row /\ row.active = beat[Consumer]
             /\ beat[Consumer] \in Beats /\ outcome[beat[Consumer]] # "none"
             /\ at[Timer] = "idle" /\ \A b \in Beats : queue[b] # "waiting"
  BY <1>8, <1>n, <1>s, <1>t DEF BeatsAtWork
<1>w. ASSUME at[Consumer] \in Writing, UNCHANGED <<queue, beat>>, NEW place, Close(Consumer, place),
             \/ place \in Running \ Writing /\ row'.active = row.active
             \/ place = "done" /\ row'.active = NoBeat,
             outcome' \in {outcome, [outcome EXCEPT ![beat[Consumer]] = "final"]}
      PROVE  OneClaim' /\ SnapshotsTrue'
  <2>1. at'[Consumer] = place /\ at'[Timer] = "idle"
    BY <1>8, <1>s, <1>u, <1>w DEF Close, Goto
  <2>2. row.active \in Beats => outcome'[row.active] # "none"
    BY <1>8, <1>u, <1>w
  <2>3. QED
    BY <1>8, <1>n, <1>w, <2>1, <2>2
<1>9. CASE CommitEconomy(Consumer)
  <2>1. PICK cost \in 0..Cap :
          /\ row' = IF cost = 0 /\ snap[Consumer].active # beat[Consumer] THEN row
                    ELSE [snap[Consumer] EXCEPT !.energy = Less(@, cost)]
          /\ outcome' = [Finalized(Dropped(row, row')) EXCEPT ![beat[Consumer]] = "final"]
    BY <1>9 DEF CommitEconomy
  <2>2. at[Consumer] = "debit" /\ row'.active = row.active
    BY <1>8, <1>9, <1>u, <2>1 DEF CommitEconomy, Row
  <2>3. Dropped(row, row') = {}
    BY <1>8, <1>n, <2>2 DEF Dropped
  <2>4. outcome' = [outcome EXCEPT ![beat[Consumer]] = "final"]
    BY <1>f, <2>1, <2>3
  <2>5. OneClaim' /\ SnapshotsTrue'
    BY <1>9, <1>w, <2>2, <2>4 DEF CommitEconomy
  <2>6. outcome[beat[Consumer]] = "running"
    BY <1>s, <2>2 DEF IInv, LockedOutcomesRun, Locked
  <2>7. Beating!Record(beat[Consumer])
    BY <1>8, <2>2, <2>4, <2>6 DEF Beating!Record
  <2>8. QED
    BY <1>8, <2>2, <2>5, <2>7 DEF Pulses, Beating!Next
<1>10. CASE CommitRecap(Consumer) \/ CommitRelease(Consumer) \/ CommitDecision(Consumer)
  <2>1. at[Consumer] \in Writing \ {"debit"}
    BY <1>10 DEF CommitRecap, CommitRelease, CommitDecision
  <2>2. Drops(Consumer) = {beat[Consumer]}
    <3>1. Ends(Consumer) /\ Dropped(row, snap[Consumer]) = {}
      BY <1>8, <1>n, <2>1 DEF Ends, Dropped
    <3>2. QED
      BY <1>8, <2>1, <3>1 DEF Drops
  <2>3. row'.active = NoBeat
    <3>1. CASE CommitRecap(Consumer) \/ CommitRelease(Consumer)
      BY <1>8, <1>u, <2>1, <3>1 DEF CommitRecap, CommitRelease, Ends, Row
    <3>2. CASE CommitDecision(Consumer)
      BY <3>2 DEF CommitDecision, Acted, Completed, Row
    <3>3. QED
      BY <1>10, <3>1, <3>2
  <2>4. outcome' = [outcome EXCEPT ![beat[Consumer]] = "final"]
    BY <1>8, <1>10, <1>g, <2>1, <2>2 DEF CommitRecap, CommitRelease, CommitDecision
  <2>5. OneClaim' /\ SnapshotsTrue'
    BY <1>10, <1>w, <2>1, <2>3, <2>4 DEF CommitRecap, CommitRelease, CommitDecision
  <2>6. Beating!Release(beat[Consumer])
    BY <1>8, <2>1, <2>3, <2>4 DEF Beating!Release
  <2>7. QED
    BY <1>8, <2>1, <2>5, <2>6 DEF Pulses, Beating!Next
<1>11. CASE CommitBatch(Consumer)
  <2>1. at[Consumer] = "deciding" /\ row'.active = snap[Consumer].active
    BY <1>11 DEF CommitBatch, Acted
  <2>2. row'.active = row.active /\ Dropped(row, snap[Consumer]) = {}
    BY <1>8, <1>n, <2>1 DEF Dropped
  <2>3. outcome' = outcome
    BY <1>11, <1>f, <2>2 DEF CommitBatch
  <2>4. OneClaim' /\ SnapshotsTrue'
    BY <1>11, <1>w, <2>1, <2>2, <2>3 DEF CommitBatch
  <2>5. QED
    BY <2>2, <2>3, <2>4 DEF Pulses
\* What the lone worker never does.
<1>12. ASSUME StartStep(Consumer) \/ StartFails(Consumer) PROVE FALSE
  <2>1. at[Consumer] \notin {"checked", "starting"} /\ ~Check(Consumer)
    BY <1>s DEF Check
  <2>2. ~OpenStart(Consumer) /\ ~StartFails(Consumer)
    BY <2>1 DEF OpenStart, StartFails
  <2>3. ~CommitStart(Consumer)
    BY <2>1, Zenon DEF CommitStart
  <2>4. QED
    BY <1>12, <2>1, <2>2, <2>3 DEF StartStep
<1>13. ASSUME \/ RunStep(Timer) \/ EconomyFails(Timer) \/ RecapFails(Timer)
              \/ ReleaseFails(Timer) \/ DecisionCallFails(Timer) \/ DecisionFails(Timer)
              \/ Crash \/ Restart
       PROVE  FALSE
  <2>1. ~Crash /\ ~Restart
    BY <1>t DEF Crash, Restart, TypeOK
  <2>2. QED
    BY <1>13, <2>1
       DEF RunStep, OpenEconomy, OpenDebit, CommitEconomy, OpenRecap, CommitRecap,
           OpenRelease, CommitRelease, OpenDecision, CommitDecision, CommitBatch,
           EconomyFails, RecapFails, ReleaseFails, DecisionCallFails, DecisionFails, Locked
<1>14. ASSUME NEW s \in Sessions,
              \/ ManualRaises(s) \/ ClientLeaves(s) \/ EndManual(s)
              \/ OpenWrite(s) \/ CommitWrite(s) \/ WriteFails(s)
       PROVE  FALSE
  <2>1. at[s] \notin {"spend", "touch", "pause", "resume"}
    BY <1>s
  <2>2. QED
    BY <1>14, <2>1
       DEF ManualRaises, ClientLeaves, EndManual, OpenWrite, CommitWrite, WriteFails
<1>15. CASE UNCHANGED vars
  BY <1>15 DEF vars, Pulses
<1>16. ASSUME NEW s \in Sessions, StartStep(s) \/ RunStep(s) \/ FaultStep(s)
       PROVE  OneClaim' /\ SnapshotsTrue' /\ Pulses
  <2>1. CASE s = Timer
    BY <1>1, <1>2, <1>13, <1>14, <1>16, <2>1, <1>s DEF StartStep, FaultStep
  <2>2. CASE s = Consumer
    BY <1>6, <1>7, <1>9, <1>10, <1>11, <1>12, <1>14, <1>16, <2>2, <1>s DEF RunStep, FaultStep
  <2>3. QED
    BY <1>s, <2>1, <2>2
<1>17. QED
  BY <1>3, <1>4, <1>5, <1>13, <1>14, <1>15, <1>16 DEF Next

\* The worker alone implements Pulse for any number of beats and failing calls:
\* beats do not overlap, and a claim is given up by its own run only
\* (services/worker_service.py, db/11 and db/43).
THEOREM LoneWorkerPulses ==
    ASSUME Manuals = {}, Writers = {}, MaxCrashes = 0
    PROVE  Spec => ImplementsPulse
<1>1. Init => LoneInv /\ Beating!Init
  <2> SUFFICES ASSUME Init PROVE LoneInv /\ Beating!Init
    OBVIOUS
  <2>1. IInv
    BY InvInit
  <2>2. Timer \in Sessions /\ Consumer \in Sessions
    BY DEF Sessions
  <2>3. OneClaim /\ SnapshotsTrue
    BY <2>2 DEF Init, OneClaim, SnapshotsTrue, Running, Writing, Working, FirstRow, Queue!Init
  <2>4. Beating!Init
    BY DEF Init, Beating!Init, FirstRow
  <2>5. QED
    BY <2>1, <2>3, <2>4 DEF LoneInv
<1>2. LoneInv /\ [Next]_vars => LoneInv' /\ [Beating!Next]_<<row.active, outcome>>
  BY InvNext, LoneStep DEF LoneInv, Pulses
<1>3. QED
  BY <1>1, <1>2, PTL DEF Spec, ImplementsPulse, Beating!Spec
=============================================================================
