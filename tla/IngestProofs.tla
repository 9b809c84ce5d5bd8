---------------------------- MODULE IngestProofs ----------------------------
\* Proofs about Ingest for any number of documents, jobs, workers, executions
\* and faults.
\*
\* Rows carry no owner, so the argument is about the workers: what each of them
\* holds, which execution it waits for, and what that execution believes of the
\* receipts of its document.
EXTENDS Ingest, TLAPS

\* How executions end and what becomes of their jobs is open everywhere.
USE DEF RunOver, Completing, Outcome

LedgerType == /\ receipts \in [Contents -> SUBSET (Sections \cup {"enc", "doc"})]
              /\ met \subseteq Contents /\ mistaken \subseteq Contents
              /\ persisted \in [Contents -> [Sections -> Nat]]
HistoryType == /\ overlapped \subseteq Contents /\ disturbed \subseteq JobIds
               /\ takeovers \in [JobIds -> Nat]
               /\ ibudget \in [fault : 0..MaxIngestFaults, crash : 0..MaxIngestCrashes,
                               late : 0..MaxIngestLate]

\* A row that was inserted has a document; one that waits has an attempt left,
\* and one that failed has none.
RowsNamed == \A j \in JobIds :
    /\ ijob[j].status # "none" => ijob[j].content \in Contents
    /\ ijob[j].status = "none" => ijob[j].attempts = 0 /\ ~ijob[j].named
    /\ ijob[j].status = "pending" => ijob[j].attempts < MaxAttempts
    /\ ijob[j].status = "failed" => ijob[j].attempts >= MaxAttempts

\* What a worker holds was inserted; its job in hand is not in its batch.
BatchesNamed == \A w \in IngestWorkers :
    /\ \A j \in iworker[w].batch : ijob[j].status # "none"
    /\ iworker[w].at \in {"run", "fail"} \cup Completing =>
          /\ iworker[w].job \in JobIds /\ iworker[w].job \notin iworker[w].batch
          /\ ijob[iworker[w].job].status # "none"
    /\ iworker[w].at \in {"idle", "next"} => iworker[w].job = Nobody
    /\ iworker[w].at = "idle" => iworker[w].batch = {}
    /\ iworker[w].at # "run" => iworker[w].run = Nobody

\* A worker waits for an execution of its own on the document of its job.
Waits == \A w \in IngestWorkers : iworker[w].at = "run" =>
    /\ iworker[w].run \in Runs
    /\ irun[iworker[w].run].at # "free" /\ irun[iworker[w].run].owner = w
    /\ irun[iworker[w].run].content = ijob[iworker[w].job].content

\* An execution has a document, and what it knows is on record.
RunsNamed == \A r \in Runs :
    /\ irun[r].at = "free" => irun[r].content = Nobody
    /\ irun[r].at # "free" => /\ irun[r].content \in Contents
                              /\ irun[r].known \subseteq receipts[irun[r].content]

Base == IngestTypeOK /\ RowsNamed /\ BatchesNamed /\ Waits /\ RunsNamed
-----------------------------------------------------------------------------
LEMMA InitBase == IngestInit => Base
<1> SUFFICES ASSUME IngestInit PROVE Base
  OBVIOUS
<1> USE IngestAssumption DEF IngestInit, IdleWorker, FreeRun
<1>1. ijob \in [JobIds -> JobRow]
  BY DEF JobRow
<1>2. iworker \in [IngestWorkers -> WorkerState] /\ irun \in [Runs -> RunState]
  BY DEF WorkerState, RunState
<1>3. LedgerType /\ HistoryType
  BY DEF LedgerType, HistoryType
<1>4. RowsNamed /\ BatchesNamed /\ Waits /\ RunsNamed
  BY DEF RowsNamed, BatchesNamed, Waits, RunsNamed
<1>5. QED
  BY <1>1, <1>2, <1>3, <1>4 DEF Base, IngestTypeOK, LedgerType, HistoryType

\* The steps that touch rows.
LEMMA JobMoves ==
    ASSUME [IngestNext]_ingestVars
    PROVE  \/ ijob' = ijob
           \/ \E c \in Contents : EnqueueJob(c)
           \/ \E j \in JobIds : CancelJob(j) \/ ComeDue(j) \/ GoStale(j)
           \/ \E w \in IngestWorkers : ClaimJobs(w) \/ Poll(w) \/ CompleteJob(w)
                                       \/ CompleteFails(w) \/ FailJob(w)
<1>1. CASE UNCHANGED ingestVars
  BY <1>1 DEF ingestVars
<1>2. ASSUME NEW w \in IngestWorkers, StartJob(w) \/ StartFails(w) \/ PollFails(w)
      PROVE ijob' = ijob
  BY <1>2 DEF StartJob, StartFails, PollFails
<1>3. ASSUME NEW w \in IngestWorkers, Collect(w) \/ FailJobErrors(w) \/ CrashWorker(w)
      PROVE ijob' = ijob
  BY <1>3 DEF Collect, FailJobErrors, CrashWorker
<1>4. ASSUME NEW r \in Runs, RunStep(r) \/ ReadFails(r) \/ RunFails(r) PROVE ijob' = ijob
  BY <1>4 DEF RunStep, ReadFails, RunFails, ReadReceipts, CreateEncounter, RecordEncounter,
              CheckCancel, PersistSection, SealDocument
<1>5. QED
  BY <1>1, <1>2, <1>3, <1>4 DEF IngestNext, WorkerStep

\* The steps that touch workers.
LEMMA WorkerMoves ==
    ASSUME [IngestNext]_ingestVars
    PROVE  \/ iworker' = iworker
           \/ \E w \in IngestWorkers : \/ ClaimJobs(w) \/ StartJob(w) \/ StartFails(w)
                 \/ PollFails(w) \/ Collect(w) \/ CompleteJob(w) \/ CompleteFails(w)
                 \/ FailJob(w) \/ FailJobErrors(w) \/ CrashWorker(w)
<1>1. CASE UNCHANGED ingestVars
  BY <1>1 DEF ingestVars
<1>2. ASSUME NEW c \in Contents, EnqueueJob(c) PROVE iworker' = iworker
  BY <1>2 DEF EnqueueJob
<1>3. ASSUME NEW j \in JobIds, CancelJob(j) \/ ComeDue(j) \/ GoStale(j)
      PROVE iworker' = iworker
  BY <1>3 DEF CancelJob, ComeDue, GoStale
<1>4. ASSUME NEW w \in IngestWorkers, Poll(w) PROVE iworker' = iworker
  BY <1>4 DEF Poll
<1>5. ASSUME NEW r \in Runs, RunStep(r) \/ ReadFails(r) \/ RunFails(r) PROVE iworker' = iworker
  BY <1>5 DEF RunStep, ReadFails, RunFails, ReadReceipts, CreateEncounter, RecordEncounter,
              CheckCancel, PersistSection, SealDocument
<1>6. QED
  BY <1>1, <1>2, <1>3, <1>4, <1>5 DEF IngestNext, WorkerStep

\* The steps that touch executions.
LEMMA RunMoves ==
    ASSUME [IngestNext]_ingestVars
    PROVE  \/ irun' = irun
           \/ \E w \in IngestWorkers : StartJob(w) \/ Poll(w) \/ Collect(w) \/ CrashWorker(w)
           \/ \E r \in Runs : RunStep(r) \/ ReadFails(r) \/ RunFails(r)
<1>1. CASE UNCHANGED ingestVars
  BY <1>1 DEF ingestVars
<1>2. ASSUME NEW c \in Contents, EnqueueJob(c) PROVE irun' = irun
  BY <1>2 DEF EnqueueJob
<1>3. ASSUME NEW j \in JobIds, CancelJob(j) \/ ComeDue(j) \/ GoStale(j)
      PROVE irun' = irun
  BY <1>3 DEF CancelJob, ComeDue, GoStale
<1>4. ASSUME NEW w \in IngestWorkers, ClaimJobs(w) \/ StartFails(w) \/ PollFails(w)
      PROVE irun' = irun
  BY <1>4 DEF ClaimJobs, StartFails, PollFails
<1>5. ASSUME NEW w \in IngestWorkers,
             CompleteJob(w) \/ CompleteFails(w) \/ FailJob(w) \/ FailJobErrors(w)
      PROVE irun' = irun
  BY <1>5 DEF CompleteJob, CompleteFails, FailJob, FailJobErrors
<1>6. QED
  BY <1>1, <1>2, <1>3, <1>4, <1>5 DEF IngestNext, WorkerStep

\* Only the executions write the ledger.
LEMMA LedgerMoves ==
    ASSUME [IngestNext]_ingestVars
    PROVE  \/ UNCHANGED pipelineVars
           \/ \E r \in Runs : \/ ReadReceipts(r) \/ CreateEncounter(r) \/ RecordEncounter(r)
                              \/ PersistSection(r) \/ SealDocument(r)
<1> USE DEF pipelineVars
<1>1. CASE UNCHANGED ingestVars
  BY <1>1 DEF ingestVars
<1>2. ASSUME NEW c \in Contents, EnqueueJob(c) PROVE UNCHANGED pipelineVars
  BY <1>2 DEF EnqueueJob
<1>3. ASSUME NEW j \in JobIds, CancelJob(j) \/ ComeDue(j) \/ GoStale(j)
      PROVE UNCHANGED pipelineVars
  BY <1>3 DEF CancelJob, ComeDue, GoStale
<1>4. ASSUME NEW w \in IngestWorkers, WorkerStep(w) PROVE UNCHANGED pipelineVars
  BY <1>4 DEF WorkerStep, ClaimJobs, StartJob, Collect, CompleteJob, FailJob, FailJobErrors
<1>5. ASSUME NEW w \in IngestWorkers,
             StartFails(w) \/ Poll(w) \/ PollFails(w) \/ CompleteFails(w) \/ CrashWorker(w)
      PROVE UNCHANGED pipelineVars
  BY <1>5 DEF StartFails, Poll, PollFails, CompleteFails, CrashWorker
<1>6. ASSUME NEW r \in Runs, CheckCancel(r) \/ ReadFails(r) \/ RunFails(r) PROVE UNCHANGED pipelineVars
  BY <1>6 DEF CheckCancel, ReadFails, RunFails
<1>7. QED
  BY <1>1, <1>2, <1>3, <1>4, <1>5, <1>6 DEF IngestNext, RunStep
-----------------------------------------------------------------------------
\* A row that was inserted stays, with its document.
Kept == \A j \in JobIds : ijob[j].status # "none" =>
            ijob'[j].status # "none" /\ ijob'[j].content = ijob[j].content

RowsMove == ijob' \in [JobIds -> JobRow] /\ RowsNamed' /\ Kept

\* How each statement changes one row.
LEMMA FailedRowOK ==
    ASSUME NEW row \in JobRow
    PROVE  /\ FailedRow(row) \in JobRow
           /\ FailedRow(row).content = row.content
           /\ FailedRow(row).attempts = row.attempts
           /\ FailedRow(row).named = row.named
           /\ FailedRow(row).status \in {"cancelled", "failed", "pending"}
           /\ FailedRow(row).status = "pending" =>
                 row.attempts < MaxAttempts /\ row.status # "cancelled"
           /\ FailedRow(row).status = "failed" => row.attempts >= MaxAttempts
<1> DEFINE Again == [row EXCEPT !.status = "pending", !.due = FALSE, !.stale = FALSE]
           To(s) == [row EXCEPT !.status = s]
<1>1. /\ Again \in JobRow /\ Again.content = row.content /\ Again.attempts = row.attempts
      /\ Again.named = row.named /\ Again.status = "pending"
  BY Zenon DEF JobRow, Active
<1>2. ASSUME NEW s \in {"cancelled", "failed"}
      PROVE /\ To(s) \in JobRow /\ To(s).content = row.content
            /\ To(s).attempts = row.attempts /\ To(s).named = row.named
            /\ To(s).status = s
  BY Zenon DEF JobRow, Finished
<1>3. IF Exhausted(row) THEN row.attempts >= MaxAttempts ELSE row.attempts < MaxAttempts
  BY IngestAssumption DEF Exhausted, JobRow
<1>4. \/ FailedRow(row) = To("cancelled")
      \/ FailedRow(row) = To("failed") /\ Exhausted(row)
      \/ FailedRow(row) = Again /\ ~Exhausted(row) /\ row.status # "cancelled"
  BY Zenon DEF FailedRow
<1>5. QED
  <2> HIDE DEF Again, To
  <2>1. CASE FailedRow(row) = To("cancelled")
    BY <1>2, <2>1
  <2>2. CASE FailedRow(row) = To("failed") /\ Exhausted(row)
    BY <1>2, <1>3, <2>2
  <2>3. CASE FailedRow(row) = Again /\ ~Exhausted(row) /\ row.status # "cancelled"
    BY <1>1, <1>3, <2>3
  <2>4. QED
    BY <1>4, <2>1, <2>2, <2>3

LEMMA NewRowOK == ASSUME NEW row \in JobRow, NEW c \in Contents
  PROVE LET new == [row EXCEPT !.status = "pending", !.content = c, !.due = TRUE] IN
    /\ new \in JobRow /\ new.status = "pending" /\ new.content = c
    /\ new.attempts = row.attempts /\ new.named = row.named
BY Zenon DEF JobRow, Active

LEMMA CancelRowOK == ASSUME NEW row \in JobRow, row.status \in Active
  PROVE /\ CancelRow(row) \in JobRow /\ CancelRow(row).content = row.content
        /\ CancelRow(row).attempts = row.attempts /\ CancelRow(row).named = row.named
        /\ CancelRow(row).status = IF row.status = "pending" THEN "cancelled" ELSE row.status
<1>1. CASE row.status = "pending"
  BY <1>1 DEF CancelRow, JobRow, Finished
<1>2. CASE row.status # "pending"
  <2>1. CancelRow(row) = [row EXCEPT !.cancel = TRUE]
    BY <1>2 DEF CancelRow
  <2>2. /\ CancelRow(row) \in JobRow /\ CancelRow(row).content = row.content
        /\ CancelRow(row).attempts = row.attempts /\ CancelRow(row).named = row.named
        /\ CancelRow(row).status = row.status
    BY <2>1, Zenon DEF JobRow
  <2>3. QED
    BY <1>2, <2>2
<1>3. QED
  BY <1>1, <1>2

LEMMA ClaimedRowOK == ASSUME NEW row \in JobRow
  PROVE /\ ClaimedRow(row) \in JobRow /\ ClaimedRow(row).content = row.content
        /\ ClaimedRow(row).attempts = row.attempts + 1 /\ ClaimedRow(row).named = row.named
        /\ ClaimedRow(row).status = "in_progress"
<1>1. row.attempts + 1 \in Nat
  BY DEF JobRow
<1>2. QED
  BY <1>1, Zenon DEF ClaimedRow, JobRow, Active

LEMMA CompletedRowOK == ASSUME NEW row \in JobRow, NEW end
  PROVE /\ CompletedRow(row, end) \in JobRow /\ CompletedRow(row, end).status = "completed"
        /\ CompletedRow(row, end).content = row.content
        /\ CompletedRow(row, end).attempts = row.attempts
        /\ CompletedRow(row, end).named <=> end = "complete"
BY Zenon DEF CompletedRow, JobRow, Finished

LEMMA FlagOK ==
    ASSUME ijob \in [JobIds -> JobRow], NEW j \in JobIds
    PROVE  /\ [ijob EXCEPT ![j].due = TRUE] \in [JobIds -> JobRow]
           /\ [ijob EXCEPT ![j].stale = TRUE] \in [JobIds -> JobRow]
           /\ [ijob EXCEPT ![j].stale = FALSE] \in [JobIds -> JobRow]
  BY DEF JobRow

\* What an enqueued job becomes, its choice of a free row named.
LEMMA Enqueued ==
    ASSUME ijob \in [JobIds -> JobRow], NEW c \in Contents, EnqueueJob(c)
    PROVE  \E j \in JobIds, new \in JobRow :
              /\ ijob[j].status = "none" /\ ijob' = [ijob EXCEPT ![j] = new]
              /\ new.status = "pending" /\ new.content = c
              /\ new.attempts = ijob[j].attempts /\ new.named = ijob[j].named
              /\ ActiveFor(c) = {}
<1>1. PICK j \in JobIds : /\ ijob[j].status = "none"
                          /\ ijob' = [ijob EXCEPT ![j] = [@ EXCEPT !.status = "pending",
                                            !.content = c, !.due = TRUE]]
  <2>1. (CHOOSE j \in NewRows : TRUE) \in NewRows
    BY DEF EnqueueJob
  <2>2. QED
    BY <2>1 DEF EnqueueJob, NewRows
<1> DEFINE new == [ijob[j] EXCEPT !.status = "pending", !.content = c, !.due = TRUE]
<1>2. ijob[j] \in JobRow
  OBVIOUS
<1>3. /\ new \in JobRow /\ new.status = "pending" /\ new.content = c
      /\ new.attempts = ijob[j].attempts /\ new.named = ijob[j].named
  BY <1>2, NewRowOK
<1>4. ijob' = [ijob EXCEPT ![j] = new]
  BY <1>1
<1>5. ActiveFor(c) = {}
  BY DEF EnqueueJob
<1> HIDE DEF new
<1>6. QED
  BY <1>1, <1>3, <1>4, <1>5

\* What a completion, reported as one or not, may write.
LEMMA Completions ==
    ASSUME ijob \in [JobIds -> JobRow], BatchesNamed,
           NEW w \in IngestWorkers, CompleteJob(w) \/ CompleteFails(w)
    PROVE  \E j \in JobIds, end \in Completing :
              /\ j = iworker[w].job /\ end = iworker[w].at
              /\ ijob[j].status # "none"
              /\ ijob' = ijob \/ ijob' = [ijob EXCEPT ![j] = CompletedRow(ijob[j], end)]
<1>1. /\ iworker[w].at \in Completing
      /\ \/ ijob' = ijob
         \/ ijob' = [ijob EXCEPT ![iworker[w].job] =
                        CompletedRow(ijob[iworker[w].job], iworker[w].at)]
  BY DEF CompleteJob, CompleteFails
<1>2. iworker[w].job \in JobIds /\ ijob[iworker[w].job].status # "none"
  BY <1>1 DEF BatchesNamed
<1>3. QED
  BY <1>1, <1>2

LEMMA RowSteps == ASSUME Base, [IngestNext]_ingestVars PROVE RowsMove
<1> USE IngestAssumption DEF RowsMove, Kept, RowsNamed
<1>0. /\ ijob \in [JobIds -> JobRow] /\ RowsNamed
      /\ BatchesNamed
  BY DEF Base, IngestTypeOK
<1>1. CASE ijob' = ijob
  BY <1>0, <1>1
<1>2. ASSUME NEW c \in Contents, EnqueueJob(c) PROVE RowsMove
  <2>1. PICK j \in JobIds, new \in JobRow :
              /\ ijob[j].status = "none" /\ ijob' = [ijob EXCEPT ![j] = new]
              /\ new.status = "pending" /\ new.content = c
              /\ new.attempts = ijob[j].attempts /\ new.named = ijob[j].named
              /\ ActiveFor(c) = {}
    BY <1>0, <1>2, Enqueued
  <2>2. QED
    BY <1>0, <2>1
<1>3. ASSUME NEW j \in JobIds, CancelJob(j) \/ ComeDue(j) \/ GoStale(j) PROVE RowsMove
  <2>1. CASE CancelJob(j)
    <3>1. ijob[j] \in JobRow
      BY <1>0
    <3>2. QED
      BY <1>0, <2>1, <3>1, CancelRowOK DEF CancelJob, Active
  <2>2. CASE ComeDue(j) \/ GoStale(j)
    <3>1. ijob' \in [JobIds -> JobRow]
      BY <1>0, <2>2, FlagOK DEF ComeDue, GoStale
    <3>2. \A k \in JobIds : /\ ijob'[k].status = ijob[k].status
                             /\ ijob'[k].content = ijob[k].content
                             /\ ijob'[k].attempts = ijob[k].attempts
                             /\ ijob'[k].named = ijob[k].named
      BY <1>0, <2>2 DEF ComeDue, GoStale, JobRow
    <3>3. QED
      BY <1>0, <3>1, <3>2
  <2>3. QED
    BY <1>3, <2>1, <2>2
<1>4. ASSUME NEW w \in IngestWorkers, ClaimJobs(w) PROVE RowsMove
  <2>1. PICK batch \in SUBSET {j \in JobIds : Claimable(ijob[j])} :
            ijob' = [j \in JobIds |-> IF j \in batch THEN ClaimedRow(ijob[j]) ELSE ijob[j]]
    BY <1>4, Zenon DEF ClaimJobs
  <2>2. \A j \in batch : ijob[j] \in JobRow /\ ijob[j].status \in {"pending", "in_progress"}
    BY <1>0 DEF Claimable
  <2>3. QED
    BY <1>0, <2>1, <2>2, ClaimedRowOK
<1>5. ASSUME NEW w \in IngestWorkers, Poll(w) PROVE RowsMove
  <2>0. PICK j \in JobIds : ijob' = [ijob EXCEPT ![j].stale = FALSE]
    <3>1. ijob[iworker[w].job].status = "in_progress" /\ iworker[w].at = "run"
      BY <1>5 DEF Poll
    <3>2. iworker[w].job \in JobIds
      BY <1>0, <3>1 DEF BatchesNamed
    <3>3. QED
      BY <1>5, <3>2 DEF Poll
  <2>1. ijob' \in [JobIds -> JobRow]
    BY <1>0, <2>0, FlagOK
  <2>2. \A k \in JobIds : /\ ijob'[k].status = ijob[k].status
                           /\ ijob'[k].content = ijob[k].content
                           /\ ijob'[k].attempts = ijob[k].attempts
                           /\ ijob'[k].named = ijob[k].named
    BY <1>0, <2>0 DEF JobRow
  <2>3. QED
    BY <1>0, <2>1, <2>2
<1>6. ASSUME NEW w \in IngestWorkers, CompleteJob(w) \/ CompleteFails(w) PROVE RowsMove
  <2>1. PICK j \in JobIds, end \in Completing :
          /\ ijob[j].status # "none"
          /\ ijob' = ijob \/ ijob' = [ijob EXCEPT ![j] = CompletedRow(ijob[j], end)]
    BY <1>0, <1>6, Completions
  <2>2. ijob[j] \in JobRow
    BY <1>0
  <2>3. QED
    BY <1>0, <2>1, <2>2, CompletedRowOK
<1>7. ASSUME NEW w \in IngestWorkers, FailJob(w) PROVE RowsMove
  <2>1. PICK j \in JobIds : /\ ijob[j].status # "none"
                            /\ ijob' = [ijob EXCEPT ![j] = FailedRow(ijob[j])]
    BY <1>0, <1>7 DEF FailJob, BatchesNamed
  <2>2. ijob[j] \in JobRow
    BY <1>0
  <2>3. QED
    BY <1>0, <2>1, <2>2, FailedRowOK
<1>8. QED
  BY <1>1, <1>2, <1>3, <1>4, <1>5, <1>6, <1>7, JobMoves

\* Receipts and histories only grow.
Grows == /\ \A c \in Contents : receipts[c] \subseteq receipts'[c]
         /\ mistaken \subseteq mistaken'

LEMMA LedgerSteps == ASSUME Base, [IngestNext]_ingestVars PROVE LedgerType' /\ Grows
<1> USE DEF LedgerType, Grows
<1>0. LedgerType /\ RunsNamed
  BY DEF Base, IngestTypeOK
<1>1. CASE UNCHANGED pipelineVars
  BY <1>0, <1>1 DEF pipelineVars
<1>2. ASSUME NEW r \in Runs, ReadReceipts(r) PROVE LedgerType' /\ Grows
  BY <1>0, <1>2 DEF ReadReceipts, RunsNamed
<1>3. ASSUME NEW r \in Runs, CreateEncounter(r) \/ RecordEncounter(r) \/ SealDocument(r)
      PROVE LedgerType' /\ Grows
  BY <1>0, <1>3 DEF CreateEncounter, RecordEncounter, SealDocument, RunsNamed
<1>4. ASSUME NEW r \in Runs, PersistSection(r) PROVE LedgerType' /\ Grows
  BY <1>0, <1>4 DEF PersistSection, SectionReceipt, RunsNamed
<1>5. QED
  BY <1>1, <1>2, <1>3, <1>4, LedgerMoves

\* A worker goes on with the rest of its batch, or rests.
LEMMA ProceedOK ==
    ASSUME iworker \in [IngestWorkers -> WorkerState], NEW w \in IngestWorkers
    PROVE  /\ Proceed(w) \in WorkerState
           /\ Proceed(w).at = IF iworker[w].batch = {} THEN "idle" ELSE "next"
           /\ Proceed(w).batch = iworker[w].batch
           /\ Proceed(w).job = Nobody /\ Proceed(w).run = Nobody
<1>1. iworker[w].batch \in SUBSET JobIds
  BY DEF WorkerState
<1>2. CASE iworker[w].batch = {}
  BY <1>2 DEF Proceed, IdleWorker, WorkerState
<1>3. CASE iworker[w].batch # {}
  BY <1>1, <1>3 DEF Proceed, IdleWorker, WorkerState
<1>4. QED
  BY <1>2, <1>3

LEMMA WorkerTypes ==
    ASSUME Base, [IngestNext]_ingestVars
    PROVE  iworker' \in [IngestWorkers -> WorkerState]
<1> USE DEF WorkerState, IdleWorker
<1>0. iworker \in [IngestWorkers -> WorkerState]
  BY DEF Base, IngestTypeOK
<1>1. CASE iworker' = iworker
  BY <1>0, <1>1
<1>2. ASSUME NEW w \in IngestWorkers, ClaimJobs(w) PROVE iworker' \in [IngestWorkers -> WorkerState]
  <2>1. PICK batch \in SUBSET {j \in JobIds : Claimable(ijob[j])} :
            iworker' = [iworker EXCEPT ![w].at = "next", ![w].batch = batch]
    BY <1>2, Zenon DEF ClaimJobs
  <2>2. QED
    BY <1>0, <2>1
<1>3. ASSUME NEW w \in IngestWorkers, StartJob(w) PROVE iworker' \in [IngestWorkers -> WorkerState]
  <2>1. (CHOOSE q \in FreeRuns : TRUE) \in Runs
    BY <1>3 DEF StartJob, FreeRuns
  <2>2. QED
    BY <1>0, <1>3, <2>1 DEF StartJob
<1>4. ASSUME NEW w \in IngestWorkers,
             StartFails(w) \/ PollFails(w) \/ Collect(w) \/ CrashWorker(w) \/ FailJobErrors(w)
      PROVE iworker' \in [IngestWorkers -> WorkerState]
  BY <1>0, <1>4 DEF StartFails, PollFails, Collect, CrashWorker, FailJobErrors
<1>5. ASSUME NEW w \in IngestWorkers, CompleteJob(w) \/ CompleteFails(w) \/ FailJob(w)
      PROVE iworker' \in [IngestWorkers -> WorkerState]
  <2>1. Proceed(w) \in WorkerState
    BY <1>0, ProceedOK
  <2>2. QED
    BY <1>0, <1>5, <2>1 DEF CompleteJob, CompleteFails, FailJob
<1>6. QED
  BY <1>1, <1>2, <1>3, <1>4, <1>5, WorkerMoves

LEMMA BatchSteps ==
    ASSUME Base, [IngestNext]_ingestVars, RowsMove, iworker' \in [IngestWorkers -> WorkerState]
    PROVE  BatchesNamed'
<1> USE IngestAssumption DEF BatchesNamed
<1>0. /\ iworker \in [IngestWorkers -> WorkerState] /\ BatchesNamed /\ Kept
      /\ \A w \in IngestWorkers : iworker[w].batch \subseteq JobIds
  BY DEF Base, IngestTypeOK, RowsMove, WorkerState
<1>1. CASE iworker' = iworker
  BY <1>0, <1>1 DEF Kept
<1>2. ASSUME NEW w \in IngestWorkers, ClaimJobs(w) PROVE BatchesNamed'
  <2>1. PICK batch \in SUBSET {j \in JobIds : Claimable(ijob[j])} :
            /\ ijob' = [j \in JobIds |-> IF j \in batch THEN ClaimedRow(ijob[j]) ELSE ijob[j]]
            /\ iworker' = [iworker EXCEPT ![w].at = "next", ![w].batch = batch]
    BY <1>2, Zenon DEF ClaimJobs
  <2>2. \A j \in batch : ijob'[j].status # "none"
    BY <2>1 DEF Kept, RowsMove, Claimable
  <2>3. iworker[w].at = "idle"
    BY <1>2 DEF ClaimJobs
  <2>4. QED
    BY <1>0, <2>1, <2>2, <2>3 DEF Kept, WorkerState
<1>3. ASSUME NEW w \in IngestWorkers, StartJob(w) PROVE BatchesNamed'
  <2>1. PICK j \in iworker[w].batch : \E r \in Runs :
            iworker' = [iworker EXCEPT ![w] = [at |-> "run", job |-> j, run |-> r,
                                               batch |-> iworker[w].batch \ {j}]]
    <3>1. (CHOOSE q \in FreeRuns : TRUE) \in Runs
      BY <1>3 DEF StartJob, FreeRuns
    <3>2. QED
      BY <1>3, <3>1 DEF StartJob
  <2>2. QED
    BY <1>0, <2>1 DEF Kept
<1>4. ASSUME NEW w \in IngestWorkers, StartFails(w) \/ CrashWorker(w) \/ FailJobErrors(w)
      PROVE BatchesNamed'
  BY <1>0, <1>4 DEF StartFails, CrashWorker, FailJobErrors, IdleWorker, Kept
<1>5. ASSUME NEW w \in IngestWorkers, PollFails(w) \/ Collect(w) \/ CompleteFails(w)
      PROVE BatchesNamed'
  BY <1>0, <1>5 DEF PollFails, Collect, CompleteFails, Kept, WorkerState
<1>6. ASSUME NEW w \in IngestWorkers, CompleteJob(w) \/ FailJob(w) PROVE BatchesNamed'
  <2>1. iworker' = [iworker EXCEPT ![w] = Proceed(w)]
    BY <1>6 DEF CompleteJob, FailJob
  <2>2. /\ iworker'[w].at = IF iworker[w].batch = {} THEN "idle" ELSE "next"
        /\ iworker'[w].batch = iworker[w].batch
        /\ iworker'[w].job = Nobody /\ iworker'[w].run = Nobody
    BY <1>0, <2>1, ProceedOK
  <2>3. \A v \in IngestWorkers \ {w} : iworker'[v] = iworker[v]
    BY <1>0, <2>1
  <2>4. QED
    BY <1>0, <2>2, <2>3 DEF Kept
<1>7. QED
  BY <1>1, <1>2, <1>3, <1>4, <1>5, <1>6, WorkerMoves

\* What one step may do to one execution: it is begun, it goes on, or it ends.
RunMove(r) ==
    \/ irun'[r] = irun[r]
    \/ irun'[r] = FreeRun
    \/ /\ irun[r].at = "free" /\ irun'[r].at = "gate" /\ irun'[r].known = {}
       /\ irun'[r].content \in Contents
    \/ /\ irun[r].at # "free" /\ irun'[r].at # "free"
       /\ irun'[r].owner = irun[r].owner /\ irun'[r].content = irun[r].content
       /\ irun'[r].known \subseteq receipts'[irun[r].content]

RunsMove == irun' \in [Runs -> RunState] /\ \A r \in Runs : RunMove(r)

LEMMA FreeRunOK == FreeRun \in RunState
  BY DEF FreeRun, RunState

LEMMA EndedOK ==
    ASSUME irun \in [Runs -> RunState], NEW r \in Runs, NEW how \in RunOver
    PROVE  /\ Ended(r, how) \in [Runs -> RunState]
           /\ \A q \in Runs \ {r} : Ended(r, how)[q] = irun[q]
           /\ \/ Ended(r, how)[r] = FreeRun
              \/ /\ Ended(r, how)[r].at = how
                 /\ Ended(r, how)[r].owner = irun[r].owner
                 /\ Ended(r, how)[r].content = irun[r].content
                 /\ Ended(r, how)[r].known = irun[r].known
<1>1. CASE \E w \in IngestWorkers : iworker[w].run = r
  BY <1>1 DEF Ended, RunState
<1>2. CASE ~ \E w \in IngestWorkers : iworker[w].run = r
  BY <1>2, FreeRunOK DEF Ended
<1>3. QED
  BY <1>1, <1>2

LEMMA RunSteps ==
    ASSUME Base, [IngestNext]_ingestVars, LedgerType', Grows
    PROVE  RunsMove
<1> USE DEF RunsMove, RunMove
<1>0. /\ irun \in [Runs -> RunState] /\ RunsNamed /\ RowsNamed /\ BatchesNamed /\ Waits
      /\ ijob \in [JobIds -> JobRow] /\ iworker \in [IngestWorkers -> WorkerState]
      /\ LedgerType
  BY DEF Base, IngestTypeOK, LedgerType
<1>1. CASE irun' = irun
  BY <1>0, <1>1
<1>2. ASSUME NEW w \in IngestWorkers, StartJob(w) PROVE RunsMove
  <2>1. PICK j \in iworker[w].batch : irun' = [irun EXCEPT ![CHOOSE q \in FreeRuns : TRUE] =
            [FreeRun EXCEPT !.at = "gate", !.owner = w, !.content = ijob[j].content]]
    BY <1>2, Zenon DEF StartJob
  <2>2. PICK r \in Runs : irun[r].at = "free" /\ irun' = [irun EXCEPT ![r] =
            [FreeRun EXCEPT !.at = "gate", !.owner = w, !.content = ijob[j].content]]
    BY <1>2, <2>1 DEF StartJob, FreeRuns
  <2>3. ijob[j].content \in Contents
    BY <1>0 DEF RowsNamed, BatchesNamed, WorkerState
  <2> DEFINE new == [FreeRun EXCEPT !.at = "gate", !.owner = w, !.content = ijob[j].content]
  <2>4. new \in RunState /\ new.at = "gate" /\ new.known = {} /\ new.content \in Contents
    BY <2>3 DEF FreeRun, RunState
  <2> HIDE DEF new
  <2>5. irun' = [irun EXCEPT ![r] = new]
    BY <2>2 DEF new
  <2>6. QED
    BY <1>0, <2>2, <2>4, <2>5
<1>3. ASSUME NEW w \in IngestWorkers, Poll(w) PROVE RunsMove
  <2> DEFINE r == iworker[w].run
             b == irun[r].cancel \/ ijob[iworker[w].job].cancel
  <2>1. r \in Runs /\ irun[r].at # "free"
    BY <1>0, <1>3 DEF Poll, Waits
  <2>2. irun' = [irun EXCEPT ![r].cancel = b]
    BY <1>3 DEF Poll
  <2>3. b \in BOOLEAN
    OBVIOUS
  <2> HIDE DEF r, b
  <2>4. /\ irun' \in [Runs -> RunState]
        /\ irun'[r].at = irun[r].at /\ irun'[r].owner = irun[r].owner
        /\ irun'[r].content = irun[r].content /\ irun'[r].known = irun[r].known
    BY <1>0, <2>1, <2>2, <2>3 DEF RunState
  <2>5. \A q \in Runs \ {r} : irun'[q] = irun[q]
    BY <1>0, <2>2
  <2>6. QED
    BY <1>0, <2>1, <2>4, <2>5 DEF RunsNamed, Grows
<1>4. ASSUME NEW w \in IngestWorkers, Collect(w) PROVE RunsMove
  BY <1>0, <1>4, FreeRunOK DEF Collect
<1>5. ASSUME NEW w \in IngestWorkers, CrashWorker(w) PROVE RunsMove
  BY <1>0, <1>5, FreeRunOK DEF CrashWorker
<1>6. ASSUME NEW r \in Runs, CreateEncounter(r) \/ RecordEncounter(r) PROVE RunsMove
  BY <1>0, <1>6 DEF CreateEncounter, RecordEncounter, RunState, RunsNamed, Grows
<1>7. ASSUME NEW r \in Runs, PersistSection(r) PROVE RunsMove
  <2>1. PICK s \in Sections : /\ irun' = [irun EXCEPT ![r].known = @ \cup {s}]
                              /\ receipts' = [receipts EXCEPT ![irun[r].content] = @ \cup {s}]
    BY <1>7 DEF PersistSection, SectionReceipt
  <2>2. irun[r].at = "persist"
    BY <1>7 DEF PersistSection
  <2>3. s \in receipts'[irun[r].content]
    BY <1>0, <2>1, <2>2 DEF RunsNamed, LedgerType
  <2>4. irun' \in [Runs -> RunState]
    BY <1>0, <2>1 DEF RunState
  <2>5. /\ irun'[r].at = "persist" /\ irun'[r].owner = irun[r].owner
        /\ irun'[r].content = irun[r].content /\ irun'[r].known = irun[r].known \cup {s}
    BY <1>0, <2>1, <2>2 DEF RunState
  <2>6. QED
    BY <1>0, <2>1, <2>2, <2>3, <2>4, <2>5 DEF RunsNamed, Grows
<1>8. ASSUME NEW r \in Runs, SealDocument(r) \/ ReadFails(r) \/ RunFails(r) PROVE RunsMove
  <2>1. PICK how \in RunOver : irun' = Ended(r, how)
    BY <1>8 DEF SealDocument, ReadFails, RunFails
  <2>2. irun[r].at # "free"
    BY <1>8 DEF SealDocument, ReadFails, RunFails
  <2>3. /\ irun' \in [Runs -> RunState]
        /\ \A q \in Runs \ {r} : irun'[q] = irun[q]
        /\ \/ irun'[r] = FreeRun
           \/ /\ irun'[r].at # "free" /\ irun'[r].owner = irun[r].owner
              /\ irun'[r].content = irun[r].content /\ irun'[r].known = irun[r].known
    BY <1>0, <2>1, EndedOK
  <2>4. irun[r].known \subseteq receipts'[irun[r].content]
    BY <1>0, <2>2 DEF RunsNamed, Grows
  <2>5. QED
    BY <2>2, <2>3, <2>4
<1>9. ASSUME NEW r \in Runs, CheckCancel(r) PROVE RunsMove
  <2>1. CASE irun[r].cancel
    BY <1>0, <1>9, <2>1, EndedOK DEF CheckCancel, RunsNamed, Grows
  <2>2. CASE ~irun[r].cancel
    BY <1>0, <1>9, <2>2 DEF CheckCancel, RunState, RunsNamed, Grows
  <2>3. QED
    BY <2>1, <2>2
<1>10. ASSUME NEW r \in Runs, ReadReceipts(r) PROVE RunsMove
  <2>1. CASE "doc" \in Found(irun[r].content)
    BY <1>0, <1>10, <2>1, EndedOK DEF ReadReceipts, RunsNamed, Grows
  <2>2. CASE "doc" \notin Found(irun[r].content)
    <3>1. Found(irun[r].content) \subseteq receipts[irun[r].content]
      BY <2>2 DEF Found
    <3>2. receipts' = receipts /\ irun[r].at = "gate"
      BY <1>10 DEF ReadReceipts
    <3>3. QED
      BY <1>0, <1>10, <2>2, <3>1, <3>2 DEF ReadReceipts, RunState
  <2>3. QED
    BY <2>1, <2>2
<1>11. QED
  BY <1>1, <1>2, <1>3, <1>4, <1>5, <1>6, <1>7, <1>8, <1>9, <1>10, RunMoves DEF RunStep

LEMMA RunsStayNamed == ASSUME Base, RunsMove, Grows PROVE RunsNamed'
  BY DEF Base, IngestTypeOK, RunsMove, RunMove, Grows, RunsNamed, FreeRun, RunState

\* No step ends an execution a worker waits for, except that worker's own.
Waited(v) == /\ irun'[iworker[v].run].at # "free"
             /\ irun'[iworker[v].run].owner = v
             /\ irun'[iworker[v].run].content = irun[iworker[v].run].content

LEMMA EndedWaits ==
    ASSUME Base, NEW r \in Runs, NEW how \in RunOver, irun' = Ended(r, how),
           NEW v \in IngestWorkers, iworker[v].at = "run"
    PROVE  Waited(v)
<1>1. /\ irun \in [Runs -> RunState] /\ iworker[v].run \in Runs
      /\ irun[iworker[v].run].at # "free" /\ irun[iworker[v].run].owner = v
  BY DEF Base, IngestTypeOK, Waits
<1>2. CASE iworker[v].run = r
  <2>1. irun' = [irun EXCEPT ![r].at = how]
    BY <1>2 DEF Ended
  <2>2. QED
    BY <1>1, <1>2, <2>1 DEF Waited, RunState
<1>3. CASE iworker[v].run # r
  BY <1>1, <1>3, EndedOK DEF Waited
<1>4. QED
  BY <1>2, <1>3

LEMMA RunsOutlive ==
    ASSUME Base, NEW r \in Runs, RunStep(r) \/ ReadFails(r) \/ RunFails(r),
           NEW v \in IngestWorkers, iworker[v].at = "run"
    PROVE  Waited(v)
<1>1. /\ irun \in [Runs -> RunState] /\ iworker[v].run \in Runs
      /\ irun[iworker[v].run].at # "free" /\ irun[iworker[v].run].owner = v
  BY DEF Base, IngestTypeOK, Waits
<1>2. CASE CreateEncounter(r) \/ RecordEncounter(r) \/ PersistSection(r)
  <2>1. CASE CreateEncounter(r) \/ RecordEncounter(r)
    BY <1>1, <2>1 DEF CreateEncounter, RecordEncounter, Waited, RunState
  <2>2. CASE PersistSection(r)
    <3>1. PICK s \in Sections : irun' = [irun EXCEPT ![r].known = @ \cup {s}]
      BY <2>2 DEF PersistSection
    <3>2. QED
      BY <1>1, <3>1 DEF Waited, RunState
  <2>3. QED
    BY <1>2, <2>1, <2>2
<1>3. CASE SealDocument(r) \/ ReadFails(r) \/ RunFails(r)
  <2>1. PICK how \in RunOver : irun' = Ended(r, how)
    BY <1>3 DEF SealDocument, ReadFails, RunFails
  <2>2. QED
    BY <2>1, EndedWaits
<1>4. CASE CheckCancel(r)
  <2>1. CASE irun[r].cancel
    BY <1>4, <2>1, EndedWaits DEF CheckCancel
  <2>2. CASE ~irun[r].cancel
    BY <1>1, <1>4, <2>2 DEF CheckCancel, Waited, RunState
  <2>3. QED
    BY <2>1, <2>2
<1>5. CASE ReadReceipts(r)
  <2>1. CASE "doc" \in Found(irun[r].content)
    BY <1>5, <2>1, EndedWaits DEF ReadReceipts
  <2>2. CASE "doc" \notin Found(irun[r].content)
    BY <1>1, <1>5, <2>2 DEF ReadReceipts, Waited, RunState
  <2>3. QED
    BY <2>1, <2>2
<1>6. QED
  BY <1>2, <1>3, <1>4, <1>5 DEF RunStep

LEMMA WaitSteps == ASSUME Base, [IngestNext]_ingestVars, RowsMove PROVE Waits'
<1>0. /\ irun \in [Runs -> RunState] /\ Waits /\ Kept /\ BatchesNamed
      /\ iworker \in [IngestWorkers -> WorkerState]
  BY DEF Base, IngestTypeOK, RowsMove
\* Whoever waits on keeps its execution and its job.
<1>1. ASSUME NEW v \in IngestWorkers, iworker'[v] = iworker[v], iworker[v].at = "run", Waited(v)
      PROVE  /\ iworker'[v].run \in Runs
             /\ irun'[iworker'[v].run].at # "free" /\ irun'[iworker'[v].run].owner = v
             /\ irun'[iworker'[v].run].content = ijob'[iworker'[v].job].content
  <2>1. iworker[v].job \in JobIds /\ ijob[iworker[v].job].status # "none"
    BY <1>0, <1>1 DEF BatchesNamed
  <2>2. ijob'[iworker[v].job].content = ijob[iworker[v].job].content
    BY <1>0, <2>1 DEF Kept
  <2>3. QED
    BY <1>0, <1>1, <2>2 DEF Waits, Waited
<1>2. ASSUME irun' = irun, NEW v \in IngestWorkers, iworker[v].at = "run" PROVE Waited(v)
  BY <1>0, <1>2 DEF Waits, Waited
\* One worker moves and does not wait afterwards; no execution changes.
<1>3. ASSUME NEW w \in IngestWorkers, irun' = irun, iworker'[w].at # "run",
             \A v \in IngestWorkers \ {w} : iworker'[v] = iworker[v]
      PROVE Waits'
  BY <1>1, <1>2, <1>3 DEF Waits
<1>4. ASSUME NEW w \in IngestWorkers, ClaimJobs(w) PROVE Waits'
  <2>1. PICK batch \in SUBSET {j \in JobIds : Claimable(ijob[j])} :
            iworker' = [iworker EXCEPT ![w].at = "next", ![w].batch = batch]
    BY <1>4, Zenon DEF ClaimJobs
  <2>2. irun' = irun
    BY <1>4 DEF ClaimJobs
  <2>3. iworker'[w].at # "run" /\ \A v \in IngestWorkers \ {w} : iworker'[v] = iworker[v]
    BY <1>0, <2>1 DEF WorkerState
  <2>4. QED
    BY <1>3, <2>2, <2>3
<1>5. ASSUME NEW w \in IngestWorkers, StartFails(w) \/ FailJobErrors(w) PROVE Waits'
  <2>1. /\ irun' = irun /\ iworker'[w].at # "run"
        /\ \A v \in IngestWorkers \ {w} : iworker'[v] = iworker[v]
    BY <1>0, <1>5 DEF StartFails, FailJobErrors, IdleWorker
  <2>2. QED
    BY <1>3, <2>1
<1>6. ASSUME NEW w \in IngestWorkers, PollFails(w) \/ CompleteFails(w) PROVE Waits'
  <2>1. /\ irun' = irun /\ iworker'[w].at # "run"
        /\ \A v \in IngestWorkers \ {w} : iworker'[v] = iworker[v]
    BY <1>0, <1>6 DEF PollFails, CompleteFails, WorkerState
  <2>2. QED
    BY <1>3, <2>1
<1>7. ASSUME NEW w \in IngestWorkers, CompleteJob(w) \/ FailJob(w) PROVE Waits'
  <2>1. irun' = irun /\ iworker' = [iworker EXCEPT ![w] = Proceed(w)]
    BY <1>7 DEF CompleteJob, FailJob
  <2>2. iworker'[w].at # "run" /\ \A v \in IngestWorkers \ {w} : iworker'[v] = iworker[v]
    BY <1>0, <2>1, ProceedOK
  <2>3. QED
    BY <1>3, <2>1, <2>2
<1>8. ASSUME NEW w \in IngestWorkers, StartJob(w) PROVE Waits'
  <2>1. PICK j \in iworker[w].batch :
          /\ irun' = [irun EXCEPT ![CHOOSE q \in FreeRuns : TRUE] =
                [FreeRun EXCEPT !.at = "gate", !.owner = w, !.content = ijob[j].content]]
          /\ iworker' = [iworker EXCEPT ![w] = [at |-> "run", job |-> j,
                run |-> CHOOSE q \in FreeRuns : TRUE, batch |-> iworker[w].batch \ {j}]]
    BY <1>8, Zenon DEF StartJob
  <2> DEFINE new == [FreeRun EXCEPT !.at = "gate", !.owner = w, !.content = ijob[j].content]
  <2>2. PICK r \in Runs :
          /\ irun[r].at = "free" /\ irun' = [irun EXCEPT ![r] = new]
          /\ iworker' = [iworker EXCEPT ![w] = [at |-> "run", job |-> j, run |-> r,
                                                 batch |-> iworker[w].batch \ {j}]]
    <3>1. (CHOOSE q \in FreeRuns : TRUE) \in FreeRuns
      BY <1>8 DEF StartJob
    <3>2. QED
      BY <2>1, <3>1 DEF FreeRuns
  <2>3. new.at # "free" /\ new.owner = w /\ new.content = ijob[j].content
    BY DEF FreeRun
  <2> HIDE DEF new
  <2>4. ijob'[j].content = ijob[j].content
    BY <1>0 DEF Kept, BatchesNamed, WorkerState
  <2>5. ASSUME NEW v \in IngestWorkers \ {w}, iworker[v].at = "run" PROVE Waited(v)
    BY <1>0, <2>2, <2>5 DEF Waits, Waited
  <2>6. /\ iworker'[w].run = r /\ iworker'[w].job = j
        /\ irun'[r] = new /\ \A v \in IngestWorkers \ {w} : iworker'[v] = iworker[v]
    BY <1>0, <2>2
  <2>7. QED
    BY <1>1, <2>3, <2>4, <2>5, <2>6 DEF Waits
<1>9. ASSUME NEW w \in IngestWorkers, Collect(w) PROVE Waits'
  <2>1. /\ irun' = [irun EXCEPT ![iworker[w].run] = FreeRun]
        /\ iworker[w].at = "run" /\ iworker'[w].at # "run"
        /\ \A v \in IngestWorkers \ {w} : iworker'[v] = iworker[v]
    BY <1>0, <1>9 DEF Collect, WorkerState
  <2>2. ASSUME NEW v \in IngestWorkers \ {w}, iworker[v].at = "run" PROVE Waited(v)
    BY <1>0, <2>1, <2>2 DEF Waits, Waited
  <2>3. QED
    BY <1>1, <2>1, <2>2 DEF Waits
<1>10. ASSUME NEW w \in IngestWorkers, CrashWorker(w) PROVE Waits'
  <2>1. /\ irun' = [r \in Runs |-> IF irun[r].owner = w THEN FreeRun ELSE irun[r]]
        /\ iworker'[w].at # "run"
        /\ \A v \in IngestWorkers \ {w} : iworker'[v] = iworker[v]
    BY <1>0, <1>10 DEF CrashWorker, IdleWorker
  <2>2. ASSUME NEW v \in IngestWorkers \ {w}, iworker[v].at = "run" PROVE Waited(v)
    BY <1>0, <2>1, <2>2 DEF Waits, Waited
  <2>3. QED
    BY <1>1, <2>1, <2>2 DEF Waits
<1>11. CASE iworker' = iworker
  <2>1. ASSUME NEW v \in IngestWorkers, iworker[v].at = "run" PROVE Waited(v)
    <3>1. ASSUME NEW r \in Runs, RunStep(r) \/ ReadFails(r) \/ RunFails(r) PROVE Waited(v)
      BY <2>1, <3>1, RunsOutlive
    <3>2. ASSUME NEW w \in IngestWorkers, Poll(w) PROVE Waited(v)
      BY <1>0, <2>1, <3>2 DEF Poll, Waits, Waited, RunState
    <3>3. ASSUME NEW w \in IngestWorkers, StartJob(w) \/ Collect(w) \/ CrashWorker(w)
          PROVE Waited(v)
      <4>1. CASE StartJob(w)
        <5>1. iworker[w].at = "next" /\ iworker'[w].at = "run"
          BY <1>0, <4>1 DEF StartJob
        <5>2. QED
          BY <1>11, <5>1
      <4>2. CASE Collect(w)
        BY <1>0, <1>11, <4>2 DEF Collect, WorkerState
      <4>3. CASE CrashWorker(w)
        BY <1>0, <1>11, <2>1, <4>3 DEF CrashWorker, Waits, Waited, IdleWorker
      <4>4. QED
        BY <3>3, <4>1, <4>2, <4>3
    <3>4. QED
      BY <1>2, <2>1, <3>1, <3>2, <3>3, RunMoves
  <2>2. QED
    BY <1>1, <1>11, <2>1 DEF Waits
<1>12. QED
  BY <1>4, <1>5, <1>6, <1>7, <1>8, <1>9, <1>10, <1>11, WorkerMoves

LEMMA Spending ==
    ASSUME HistoryType, NEW kind \in {"fault", "crash", "late"}, NEW bound \in Nat,
           Spend(kind, bound),
           kind = "fault" => bound = MaxIngestFaults,
           kind = "crash" => bound = MaxIngestCrashes,
           kind = "late" => bound = MaxIngestLate
    PROVE  ibudget' \in [fault : 0..MaxIngestFaults, crash : 0..MaxIngestCrashes,
                         late : 0..MaxIngestLate]
<1> USE IngestAssumption DEF HistoryType, Spend
<1>1. CASE kind = "fault"
  BY <1>1
<1>2. CASE kind = "crash"
  BY <1>2
<1>3. CASE kind = "late"
  BY <1>3
<1>4. QED
  BY <1>1, <1>2, <1>3

LEMMA HistorySteps == ASSUME Base, [IngestNext]_ingestVars PROVE HistoryType'
<1>0. /\ HistoryType /\ RowsNamed /\ BatchesNamed
      /\ iworker \in [IngestWorkers -> WorkerState]
  BY DEF Base, IngestTypeOK, HistoryType
<1>1. CASE UNCHANGED <<overlapped, disturbed, takeovers, ibudget>>
  BY <1>0, <1>1 DEF HistoryType
<1>2. CASE Fault /\ UNCHANGED <<overlapped, disturbed, takeovers>>
  BY <1>0, <1>2, Spending, IngestAssumption DEF Fault, HistoryType
<1>3. ASSUME NEW j \in JobIds, GoStale(j) PROVE HistoryType'
  <2>1. CASE Held(j)
    BY <1>0, <1>3, <2>1, Spending, IngestAssumption DEF GoStale, HistoryType
  <2>2. CASE ~Held(j)
    BY <1>0, <1>3, <2>2 DEF GoStale, HistoryType
  <2>3. QED
    BY <2>1, <2>2
<1>4. ASSUME NEW w \in IngestWorkers, CrashWorker(w) PROVE HistoryType'
  BY <1>0, <1>4, Spending, IngestAssumption DEF CrashWorker, HistoryType
<1>5. ASSUME NEW w \in IngestWorkers, ClaimJobs(w) PROVE HistoryType'
  <2>1. PICK batch \in SUBSET {j \in JobIds : Claimable(ijob[j])} :
          LET taken == {j \in batch : ijob[j].status = "in_progress"} IN
            /\ takeovers' = [j \in JobIds |->
                  IF j \in taken THEN takeovers[j] + 1 ELSE takeovers[j]]
            /\ disturbed' = disturbed \cup {j \in taken : Held(j)}
    BY <1>5, Zenon DEF ClaimJobs
  <2>2. overlapped' = overlapped /\ ibudget' = ibudget
    BY <1>5 DEF ClaimJobs
  <2>3. QED
    BY <1>0, <2>1, <2>2 DEF HistoryType
<1>6. ASSUME NEW w \in IngestWorkers, StartJob(w) PROVE HistoryType'
  <2>1. PICK j \in iworker[w].batch :
            overlapped' = IF \E q \in Runs : irun[q].content = ijob[j].content
                          THEN overlapped \cup {ijob[j].content} ELSE overlapped
    BY <1>6, Zenon DEF StartJob
  <2>2. ijob[j].content \in Contents
    BY <1>0 DEF RowsNamed, BatchesNamed, WorkerState
  <2>3. disturbed' = disturbed /\ takeovers' = takeovers /\ ibudget' = ibudget
    BY <1>6 DEF StartJob
  <2>4. QED
    BY <1>0, <2>1, <2>2, <2>3 DEF HistoryType
<1>7. ASSUME NEW w \in IngestWorkers, CompleteFails(w) PROVE HistoryType'
  <2>1. iworker[w].job \in JobIds
    BY <1>0, <1>7 DEF CompleteFails, BatchesNamed
  <2>2. QED
    BY <1>0, <1>7, <2>1, Spending, IngestAssumption DEF CompleteFails, Fault, HistoryType
\* The rest leaves the histories alone and at most counts a fault.
<1>8. ASSUME NEW c \in Contents, EnqueueJob(c) PROVE HistoryType'
  BY <1>1, <1>8 DEF EnqueueJob
<1>9. ASSUME NEW j \in JobIds, CancelJob(j) \/ ComeDue(j) PROVE HistoryType'
  BY <1>1, <1>9 DEF CancelJob, ComeDue
<1>10. ASSUME NEW w \in IngestWorkers,
              StartFails(w) \/ PollFails(w) \/ FailJobErrors(w)
       PROVE HistoryType'
  BY <1>1, <1>2, <1>10 DEF StartFails, PollFails, FailJobErrors
<1>11. ASSUME NEW w \in IngestWorkers, Poll(w) \/ Collect(w) \/ CompleteJob(w) \/ FailJob(w)
       PROVE HistoryType'
  BY <1>1, <1>11 DEF Poll, Collect, CompleteJob, FailJob
<1>12. ASSUME NEW r \in Runs, RunStep(r) PROVE HistoryType'
  BY <1>1, <1>12 DEF RunStep, ReadReceipts, CreateEncounter, RecordEncounter, CheckCancel,
                     PersistSection, SealDocument
<1>13. ASSUME NEW r \in Runs, ReadFails(r) \/ RunFails(r) PROVE HistoryType'
  BY <1>2, <1>13 DEF ReadFails, RunFails, pipelineVars
<1>14. CASE UNCHANGED ingestVars
  BY <1>1, <1>14 DEF ingestVars
<1>15. QED
  BY <1>3, <1>4, <1>5, <1>6, <1>7, <1>8, <1>9, <1>10, <1>11, <1>12, <1>13, <1>14
     DEF IngestNext, WorkerStep

LEMMA BaseStep == ASSUME Base, [IngestNext]_ingestVars PROVE Base' /\ RowsMove /\ RunsMove /\ Grows
<1>1. RowsMove /\ LedgerType' /\ Grows /\ iworker' \in [IngestWorkers -> WorkerState]
  BY RowSteps, LedgerSteps, WorkerTypes
<1>2. BatchesNamed' /\ Waits' /\ RunsMove /\ HistoryType'
  BY <1>1, BatchSteps, WaitSteps, RunSteps, HistorySteps
<1>3. RunsNamed'
  BY <1>1, <1>2, RunsStayNamed
<1>4. QED
  BY <1>1, <1>2, <1>3 DEF Base, IngestTypeOK, RowsMove, RunsMove, LedgerType, HistoryType

LEMMA BaseInvariant == IngestSpec => []Base
<1>1. IngestInit => Base
  BY InitBase
<1>2. Base /\ [IngestNext]_ingestVars => Base'
  BY BaseStep
<1>3. QED
  BY <1>1, <1>2, PTL DEF IngestSpec

\* Types: rows, workers, executions and receipts keep their types for any
\* number of them (ingestion_jobs, ingestion_receipts, run_ingestion_jobs_step).
THEOREM TypeCorrect == IngestSpec => []IngestTypeOK
<1>1. Base => IngestTypeOK
  BY DEF Base
<1>2. QED
  BY <1>1, BaseInvariant, PTL
-----------------------------------------------------------------------------
\* Only claims take jobs over.
LEMMA TakeoverMoves ==
    ASSUME [IngestNext]_ingestVars
    PROVE  takeovers' = takeovers \/ \E w \in IngestWorkers : ClaimJobs(w)
<1>1. CASE UNCHANGED ingestVars
  BY <1>1 DEF ingestVars
<1>2. ASSUME NEW c \in Contents, EnqueueJob(c) PROVE takeovers' = takeovers
  BY <1>2 DEF EnqueueJob
<1>3. ASSUME NEW j \in JobIds, CancelJob(j) \/ ComeDue(j) \/ GoStale(j)
      PROVE takeovers' = takeovers
  BY <1>3 DEF CancelJob, ComeDue, GoStale
<1>4. ASSUME NEW w \in IngestWorkers, WorkerStep(w) PROVE takeovers' = takeovers \/ ClaimJobs(w)
  BY <1>4 DEF WorkerStep, StartJob, Collect, CompleteJob, FailJob, FailJobErrors
<1>5. ASSUME NEW w \in IngestWorkers,
             StartFails(w) \/ Poll(w) \/ PollFails(w) \/ CompleteFails(w) \/ CrashWorker(w)
      PROVE takeovers' = takeovers
  BY <1>5 DEF StartFails, Poll, PollFails, CompleteFails, CrashWorker
<1>6. ASSUME NEW r \in Runs, RunStep(r) \/ ReadFails(r) \/ RunFails(r) PROVE takeovers' = takeovers
  BY <1>6 DEF RunStep, ReadFails, RunFails, ReadReceipts, CreateEncounter, RecordEncounter,
              CheckCancel, PersistSection, SealDocument
<1>7. QED
  BY <1>1, <1>2, <1>3, <1>4, <1>5, <1>6 DEF IngestNext

LEMMA AttemptsStep ==
    ASSUME Base, AttemptsBounded, [IngestNext]_ingestVars
    PROVE  AttemptsBounded'
<1> USE IngestAssumption DEF AttemptsBounded
<1>0. /\ ijob \in [JobIds -> JobRow] /\ takeovers \in [JobIds -> Nat] /\ RowsNamed
      /\ ijob' \in [JobIds -> JobRow] /\ takeovers' \in [JobIds -> Nat]
      /\ BatchesNamed
  BY BaseStep DEF Base, IngestTypeOK
<1>1. ASSUME NEW w \in IngestWorkers, ClaimJobs(w) PROVE AttemptsBounded'
  <2>1. PICK batch \in SUBSET {j \in JobIds : Claimable(ijob[j])} :
          /\ LET taken == {j \in batch : ijob[j].status = "in_progress"} IN
               takeovers' = [j \in JobIds |->
                  IF j \in taken THEN takeovers[j] + 1 ELSE takeovers[j]]
          /\ ijob' = [j \in JobIds |-> IF j \in batch THEN ClaimedRow(ijob[j]) ELSE ijob[j]]
    BY <1>1, Zenon DEF ClaimJobs
  <2>2. ASSUME NEW j \in JobIds PROVE ijob'[j].attempts <= MaxAttempts + takeovers'[j]
    <3>1. ijob[j] \in JobRow /\ ijob[j].attempts \in Nat /\ takeovers[j] \in Nat
      BY <1>0 DEF JobRow
    <3>2. CASE j \notin batch
      BY <2>1, <3>1, <3>2
    <3>3. CASE j \in batch /\ ijob[j].status = "pending"
      <4>1. ijob'[j].attempts = ijob[j].attempts + 1 /\ takeovers'[j] = takeovers[j]
        BY <2>1, <3>1, <3>3, ClaimedRowOK
      <4>2. ijob[j].attempts < MaxAttempts
        BY <1>0, <3>3 DEF RowsNamed
      <4>3. QED
        BY <3>1, <4>1, <4>2
    <3>4. CASE j \in batch /\ ijob[j].status = "in_progress"
      <4>1. ijob'[j].attempts = ijob[j].attempts + 1 /\ takeovers'[j] = takeovers[j] + 1
        BY <2>1, <3>1, <3>4, ClaimedRowOK
      <4>2. QED
        BY <3>1, <4>1
    <3>5. QED
      BY <3>2, <3>3, <3>4 DEF Claimable
  <2>3. QED
    BY <2>2
\* Nothing else counts an attempt or a takeover.
<1>2. ASSUME \A j \in JobIds : ijob'[j].attempts = ijob[j].attempts, takeovers' = takeovers
      PROVE AttemptsBounded'
  BY <1>2
<1>3. ASSUME NEW c \in Contents, EnqueueJob(c) PROVE AttemptsBounded'
  <2>1. PICK j \in JobIds, new \in JobRow :
              /\ ijob[j].status = "none" /\ ijob' = [ijob EXCEPT ![j] = new]
              /\ new.status = "pending" /\ new.content = c
              /\ new.attempts = ijob[j].attempts /\ new.named = ijob[j].named
              /\ ActiveFor(c) = {}
    BY <1>0, <1>3, Enqueued
  <2>2. takeovers' = takeovers
    BY <1>3 DEF EnqueueJob
  <2>3. QED
    BY <1>0, <1>2, <2>1, <2>2
<1>4. ASSUME NEW j \in JobIds, CancelJob(j) \/ ComeDue(j) \/ GoStale(j) PROVE AttemptsBounded'
  <2>1. ijob[j] \in JobRow
    BY <1>0
  <2>2. \A k \in JobIds : ijob'[k].attempts = ijob[k].attempts
    BY <1>0, <1>4, <2>1, CancelRowOK DEF CancelJob, ComeDue, GoStale, JobRow
  <2>3. takeovers' = takeovers
    BY <1>4 DEF CancelJob, ComeDue, GoStale
  <2>4. QED
    BY <1>2, <2>2, <2>3
<1>5. ASSUME NEW w \in IngestWorkers, Poll(w) \/ CompleteJob(w) \/ CompleteFails(w) PROVE AttemptsBounded'
  <2>1. \A k \in JobIds : ijob'[k].attempts = ijob[k].attempts
    <3>1. CASE Poll(w)
      BY <1>0, <3>1 DEF Poll, JobRow
    <3>2. CASE CompleteJob(w) \/ CompleteFails(w)
      <4>1. PICK j \in JobIds, end \in Completing :
              ijob' = ijob \/ ijob' = [ijob EXCEPT ![j] = CompletedRow(ijob[j], end)]
        BY <1>0, <3>2, Completions
      <4>2. ijob[j] \in JobRow
        BY <1>0
      <4>3. QED
        BY <1>0, <4>1, <4>2, CompletedRowOK
    <3>3. QED
      BY <1>5, <3>1, <3>2
  <2>2. takeovers' = takeovers
    BY <1>5 DEF Poll, CompleteJob, CompleteFails
  <2>3. QED
    BY <1>2, <2>1, <2>2
<1>6. ASSUME NEW w \in IngestWorkers, FailJob(w) PROVE AttemptsBounded'
  <2>1. PICK j \in JobIds : ijob' = [ijob EXCEPT ![j] = FailedRow(ijob[j])]
    BY <1>0, <1>6 DEF FailJob, BatchesNamed
  <2>2. ijob[j] \in JobRow
    BY <1>0
  <2>3. FailedRow(ijob[j]).attempts = ijob[j].attempts
    BY <2>2, FailedRowOK
  <2>4. takeovers' = takeovers
    BY <1>6 DEF FailJob
  <2>5. QED
    BY <1>0, <1>2, <2>1, <2>3, <2>4
<1>7. CASE ijob' = ijob
  <2>1. CASE takeovers' = takeovers
    BY <1>2, <1>7, <2>1
  <2>2. CASE \E w \in IngestWorkers : ClaimJobs(w)
    BY <1>1, <2>2
  <2>3. takeovers' = takeovers \/ \E w \in IngestWorkers : ClaimJobs(w)
    BY TakeoverMoves
  <2>4. QED
    BY <2>1, <2>2, <2>3
<1>8. QED
  BY <1>1, <1>3, <1>4, <1>5, <1>6, <1>7, JobMoves

\* Only a claim that timed out buys an attempt beyond the maximum (the count
\* of claim_ingestion_jobs, the limit of fail_ingestion_job).
THEOREM Attempts == IngestSpec => []AttemptsBounded
<1>1. IngestInit => AttemptsBounded
  BY IngestAssumption DEF IngestInit, AttemptsBounded
<1>2. Base /\ AttemptsBounded /\ [IngestNext]_ingestVars => AttemptsBounded'
  BY AttemptsStep
<1>3. QED
  BY <1>1, <1>2, BaseInvariant, PTL DEF IngestSpec
-----------------------------------------------------------------------------
\* A document with a receipt was read, however its executions interleave.
LEMMA HonestStep ==
    ASSUME Base, ReceiptsHonest, [IngestNext]_ingestVars
    PROVE  ReceiptsHonest'
<1> USE IngestAssumption DEF ReceiptsHonest
<1>0. LedgerType /\ RunsNamed /\ irun \in [Runs -> RunState]
  BY DEF Base, IngestTypeOK, LedgerType
<1>1. CASE receipts' = receipts /\ persisted' = persisted
  BY <1>1
<1>2. ASSUME NEW r \in Runs, RecordEncounter(r) PROVE ReceiptsHonest'
  BY <1>0, <1>2 DEF RecordEncounter, LedgerType, RunsNamed
<1>3. ASSUME NEW r \in Runs, PersistSection(r) PROVE ReceiptsHonest'
  <2> DEFINE c == irun[r].content
  <2>1. PICK s \in Sections :
          /\ persisted' = [persisted EXCEPT ![c][s] = @ + 1]
          /\ receipts' = [receipts EXCEPT ![c] = @ \cup {s}]
    BY <1>3 DEF PersistSection, SectionReceipt
  <2>2. c \in Contents
    BY <1>0, <1>3 DEF PersistSection, RunsNamed
  <2> HIDE DEF c
  <2>3. \A d \in Contents \ {c} : receipts'[d] = receipts[d] /\ persisted'[d] = persisted[d]
    BY <1>0, <2>1, <2>2 DEF LedgerType
  <2>4. persisted'[c] = [persisted[c] EXCEPT ![s] = @ + 1] /\ receipts'[c] = receipts[c] \cup {s}
    BY <1>0, <2>1, <2>2 DEF LedgerType
  <2>5. persisted[c] \in [Sections -> Nat]
    BY <1>0, <2>2 DEF LedgerType
  <2>6. \A t \in Sections \cap receipts'[c] : persisted'[c][t] > 0
    BY <2>2, <2>4, <2>5
  <2>7. "doc" \in receipts'[c] => Sections \subseteq receipts'[c]
    BY <2>2, <2>4
  <2>8. QED
    BY <2>3, <2>6, <2>7
<1>4. ASSUME NEW r \in Runs, SealDocument(r) PROVE ReceiptsHonest'
  <2>1. /\ receipts' = [receipts EXCEPT ![irun[r].content] = @ \cup {"doc"}]
        /\ persisted' = persisted
        /\ irun[r].content \in Contents
        /\ Sections \subseteq receipts[irun[r].content]
    BY <1>0, <1>4 DEF SealDocument, Sealable, RunsNamed
  <2>2. QED
    BY <1>0, <2>1 DEF LedgerType
<1>5. ASSUME NEW r \in Runs, ReadReceipts(r) \/ CreateEncounter(r) PROVE ReceiptsHonest'
  BY <1>1, <1>5 DEF ReadReceipts, CreateEncounter
<1>6. QED
  BY <1>1, <1>2, <1>3, <1>4, <1>5, LedgerMoves DEF pipelineVars

\* A receipt is never ahead of the work it stands for (db/66 writes the
\* memories of a section and its receipt in one statement).
THEOREM Honest == IngestSpec => []ReceiptsHonest
<1>1. IngestInit => ReceiptsHonest
  BY DEF IngestInit, ReceiptsHonest
<1>2. Base /\ ReceiptsHonest /\ [IngestNext]_ingestVars => ReceiptsHonest'
  BY HonestStep
<1>3. QED
  BY <1>1, <1>2, BaseInvariant, PTL DEF IngestSpec
-----------------------------------------------------------------------------
\* Two executions at work on one document are on record.
Apart == \A r, q \in Runs :
    /\ r # q /\ irun[r].at # "free" /\ irun[r].content = irun[q].content
    => irun[r].content \in overlapped

\* Unless executions overlapped, memories were written once and only with a
\* receipt, and an execution past its gate knows all receipts.
Once == \A c \in Contents \ overlapped :
    /\ \A s \in Sections : /\ persisted[c][s] <= 1
                           /\ persisted[c][s] > 0 => s \in receipts[c]
    /\ \A r \in Runs : irun[r].content = c
                       /\ irun[r].at \in {"meet", "note", "check", "persist"}
                       => irun[r].known = receipts[c] \cap Sections

\* Only the start of an execution adds to the overlapped documents.
LEMMA OverlapMoves ==
    ASSUME [IngestNext]_ingestVars
    PROVE  overlapped' = overlapped \/ \E w \in IngestWorkers : StartJob(w)
<1>1. CASE UNCHANGED ingestVars
  BY <1>1 DEF ingestVars
<1>2. ASSUME NEW c \in Contents, EnqueueJob(c) PROVE overlapped' = overlapped
  BY <1>2 DEF EnqueueJob
<1>3. ASSUME NEW j \in JobIds, CancelJob(j) \/ ComeDue(j) \/ GoStale(j)
      PROVE overlapped' = overlapped
  BY <1>3 DEF CancelJob, ComeDue, GoStale
<1>4. ASSUME NEW w \in IngestWorkers, WorkerStep(w) PROVE overlapped' = overlapped \/ StartJob(w)
  BY <1>4 DEF WorkerStep, ClaimJobs, Collect, CompleteJob, FailJob, FailJobErrors
<1>5. ASSUME NEW w \in IngestWorkers,
             StartFails(w) \/ Poll(w) \/ PollFails(w) \/ CompleteFails(w) \/ CrashWorker(w)
      PROVE overlapped' = overlapped
  BY <1>5 DEF StartFails, Poll, PollFails, CompleteFails, CrashWorker
<1>6. ASSUME NEW r \in Runs, RunStep(r) \/ ReadFails(r) \/ RunFails(r) PROVE overlapped' = overlapped
  BY <1>6 DEF RunStep, ReadFails, RunFails, ReadReceipts, CreateEncounter, RecordEncounter,
              CheckCancel, PersistSection, SealDocument
<1>7. QED
  BY <1>1, <1>2, <1>3, <1>4, <1>5, <1>6 DEF IngestNext

\* What the start of an execution does, its choice of a free slot named.
LEMMA Started ==
    ASSUME Base, NEW w \in IngestWorkers, StartJob(w)
    PROVE  \E r \in Runs, c \in Contents :
              /\ irun[r].at = "free" /\ irun'[r].at = "gate" /\ irun'[r].content = c
              /\ irun'[r].known = {}
              /\ \A q \in Runs \ {r} : irun'[q] = irun[q]
              /\ overlapped' = IF \E q \in Runs : irun[q].content = c
                               THEN overlapped \cup {c} ELSE overlapped
              /\ UNCHANGED pipelineVars
<1>0. /\ irun \in [Runs -> RunState] /\ RowsNamed /\ BatchesNamed
      /\ iworker \in [IngestWorkers -> WorkerState]
  BY DEF Base, IngestTypeOK
<1>1. PICK j \in iworker[w].batch :
        /\ irun' = [irun EXCEPT ![CHOOSE q \in FreeRuns : TRUE] =
              [FreeRun EXCEPT !.at = "gate", !.owner = w, !.content = ijob[j].content]]
        /\ overlapped' = IF \E q \in Runs : irun[q].content = ijob[j].content
                         THEN overlapped \cup {ijob[j].content} ELSE overlapped
  BY Zenon DEF StartJob
<1>2. PICK r \in Runs :
        /\ irun[r].at = "free"
        /\ irun' = [irun EXCEPT ![r] =
              [FreeRun EXCEPT !.at = "gate", !.owner = w, !.content = ijob[j].content]]
  <2>1. (CHOOSE q \in FreeRuns : TRUE) \in FreeRuns
    BY DEF StartJob
  <2>2. QED
    BY <1>1, <2>1 DEF FreeRuns
<1> DEFINE new == [FreeRun EXCEPT !.at = "gate", !.owner = w, !.content = ijob[j].content]
<1>3. new.at = "gate" /\ new.content = ijob[j].content /\ new.known = {}
  BY DEF FreeRun
<1>4. ijob[j].content \in Contents
  BY <1>0 DEF RowsNamed, BatchesNamed, WorkerState
<1>5. irun' = [irun EXCEPT ![r] = new]
  BY <1>2
<1> HIDE DEF new
<1>6. irun'[r] = new /\ \A q \in Runs \ {r} : irun'[q] = irun[q]
  BY <1>0, <1>5
<1>7. UNCHANGED pipelineVars
  BY DEF StartJob
<1>8. QED
  BY <1>1, <1>2, <1>3, <1>4, <1>6, <1>7

\* A step of one execution leaves the others alone.
LEMMA OthersStay ==
    ASSUME irun \in [Runs -> RunState], NEW q \in Runs, RunStep(q) \/ ReadFails(q) \/ RunFails(q)
    PROVE  \A r \in Runs \ {q} : irun'[r] = irun[r]
<1>1. CASE CreateEncounter(q) \/ RecordEncounter(q)
  BY <1>1 DEF CreateEncounter, RecordEncounter
<1>2. CASE PersistSection(q)
  <2>1. PICK s \in Sections : irun' = [irun EXCEPT ![q].known = @ \cup {s}]
    BY <1>2 DEF PersistSection
  <2>2. QED
    BY <2>1
<1>3. CASE SealDocument(q) \/ ReadFails(q) \/ RunFails(q)
  BY <1>3, EndedOK DEF SealDocument, ReadFails, RunFails
<1>4. CASE CheckCancel(q) \/ ReadReceipts(q)
  BY <1>4, EndedOK DEF CheckCancel, ReadReceipts
<1>5. QED
  BY <1>1, <1>2, <1>3, <1>4 DEF RunStep

\* No other step begins an execution.
LEMMA BegunMoves ==
    ASSUME Base, [IngestNext]_ingestVars, ~ \E w \in IngestWorkers : StartJob(w),
           NEW r \in Runs, irun[r].at = "free"
    PROVE  irun'[r].at = "free"
<1>0. irun \in [Runs -> RunState] /\ Waits /\ iworker \in [IngestWorkers -> WorkerState]
  BY DEF Base, IngestTypeOK
<1>1. CASE irun' = irun
  BY <1>1
<1>2. ASSUME NEW w \in IngestWorkers, Poll(w) \/ Collect(w) \/ CrashWorker(w)
      PROVE irun'[r].at = "free"
  BY <1>0, <1>2 DEF Poll, Collect, CrashWorker, Waits, FreeRun, RunState
<1>3. ASSUME NEW q \in Runs, RunStep(q) \/ ReadFails(q) \/ RunFails(q) PROVE irun'[r].at = "free"
  <2>1. irun[q].at # "free"
    BY <1>3 DEF RunStep, ReadFails, RunFails, ReadReceipts, CreateEncounter, RecordEncounter,
                CheckCancel, PersistSection, SealDocument
  <2>2. irun'[r] = irun[r]
    BY <1>0, <1>3, <2>1, OthersStay
  <2>3. QED
    BY <2>2
<1>4. QED
  BY <1>1, <1>2, <1>3, RunMoves

LEMMA ApartStep == ASSUME Base, Apart, [IngestNext]_ingestVars PROVE Apart'
<1>0. RunsMove /\ RunsNamed /\ RunsNamed'
  BY BaseStep DEF Base
<1>1. ASSUME NEW w \in IngestWorkers, StartJob(w) PROVE Apart'
  <2>1. PICK r \in Runs, c \in Contents :
              /\ irun[r].at = "free" /\ irun'[r].at = "gate" /\ irun'[r].content = c
              /\ irun'[r].known = {}
              /\ \A q \in Runs \ {r} : irun'[q] = irun[q]
              /\ overlapped' = IF \E q \in Runs : irun[q].content = c
                               THEN overlapped \cup {c} ELSE overlapped
              /\ UNCHANGED pipelineVars
    BY <1>1, Started
  <2>2. QED
    BY <2>1 DEF Apart
<1>2. CASE overlapped' = overlapped /\ ~ \E w \in IngestWorkers : StartJob(w)
  <2>1. \A r \in Runs : \/ irun'[r].at = "free"
                        \/ /\ irun[r].at # "free" /\ irun'[r].content = irun[r].content
    BY <1>0, <1>2, BegunMoves DEF RunsMove, RunMove, FreeRun
  <2>2. \A r \in Runs : irun'[r].at = "free" => irun'[r].content = Nobody
    BY <1>0 DEF RunsNamed
  <2>3. \A r \in Runs : irun'[r].at # "free" => irun'[r].content # Nobody
    BY <1>0, IngestAssumption DEF RunsNamed
  <2>4. QED
    BY <1>2, <2>1, <2>2, <2>3 DEF Apart
<1>3. QED
  BY <1>1, <1>2, OverlapMoves

Past == {"meet", "note", "check", "persist"}

\* A step that leaves the ledger alone teaches an execution nothing.
Unmoved(r) == \/ irun'[r].at \notin Past
              \/ /\ irun[r].at \in Past /\ irun'[r].content = irun[r].content
                 /\ irun'[r].known = irun[r].known

LEMMA QuietRuns ==
    ASSUME Base, [IngestNext]_ingestVars, NEW r \in Runs,
           ~ \E q \in Runs : \/ ReadReceipts(q) \/ CreateEncounter(q) \/ RecordEncounter(q)
                             \/ PersistSection(q) \/ SealDocument(q)
    PROVE  Unmoved(r)
<1> USE DEF Past, Unmoved
<1>0. irun \in [Runs -> RunState] /\ Waits /\ BatchesNamed
  BY DEF Base, IngestTypeOK
<1>1. CASE irun' = irun
  BY <1>1
<1>2. ASSUME NEW w \in IngestWorkers, StartJob(w) PROVE Unmoved(r)
  BY <1>2, Started
<1>3. ASSUME NEW w \in IngestWorkers, Poll(w) PROVE Unmoved(r)
  BY <1>0, <1>3 DEF Poll, Waits, RunState
<1>4. ASSUME NEW w \in IngestWorkers, Collect(w) \/ CrashWorker(w) PROVE Unmoved(r)
  BY <1>0, <1>4 DEF Collect, CrashWorker, FreeRun, RunState
<1>5. ASSUME NEW q \in Runs, ReadFails(q) \/ RunFails(q) PROVE Unmoved(r)
  <2>1. CASE r = q
    BY <1>0, <1>5, <2>1, EndedOK DEF ReadFails, RunFails, FreeRun
  <2>2. CASE r # q
    BY <1>0, <1>5, <2>2, OthersStay
  <2>3. QED
    BY <2>1, <2>2
<1>6. ASSUME NEW q \in Runs, CheckCancel(q) PROVE Unmoved(r)
  <2>1. CASE irun[q].cancel
    BY <1>0, <1>6, <2>1, EndedOK DEF CheckCancel, FreeRun
  <2>2. CASE ~irun[q].cancel
    BY <1>0, <1>6, <2>2 DEF CheckCancel, RunState
  <2>3. QED
    BY <2>1, <2>2
<1>7. QED
  BY <1>1, <1>2, <1>3, <1>4, <1>5, <1>6, RunMoves DEF RunStep

LEMMA OnceStep == ASSUME Base, Apart, Once, [IngestNext]_ingestVars PROVE Once'
<1> USE IngestAssumption DEF Past
<1>0. /\ irun \in [Runs -> RunState] /\ RunsNamed /\ LedgerType /\ overlapped \subseteq overlapped'
      /\ LedgerType'
  <2>1. overlapped \subseteq overlapped'
    <3>1. ASSUME NEW w \in IngestWorkers, StartJob(w) PROVE overlapped \subseteq overlapped'
      BY <3>1, Started
    <3>2. QED
      BY <3>1, OverlapMoves
  <2>2. QED
    BY <2>1, LedgerSteps DEF Base, IngestTypeOK, LedgerType
<1>1. CASE UNCHANGED pipelineVars /\ \A r \in Runs : Unmoved(r)
  BY <1>0, <1>1 DEF Once, Unmoved, pipelineVars
<1>2. ASSUME NEW r \in Runs, ReadReceipts(r) PROVE Once'
  <2>0. /\ receipts' = receipts /\ persisted' = persisted
        /\ \A q \in Runs \ {r} : irun'[q] = irun[q]
    BY <1>0, <1>2, OthersStay DEF ReadReceipts, RunStep
  <2>1. irun'[r].at \in Past => irun'[r].known = receipts[irun'[r].content] \cap Sections
    <3>1. CASE "doc" \in Found(irun[r].content)
      BY <1>0, <1>2, <3>1, EndedOK DEF ReadReceipts, FreeRun
    <3>2. CASE "doc" \notin Found(irun[r].content)
      <4>1. Found(irun[r].content) = receipts[irun[r].content]
        BY <3>2 DEF Found
      <4>2. irun'[r].known = Found(irun[r].content) \cap Sections
            /\ irun'[r].content = irun[r].content
        BY <1>0, <1>2, <3>2 DEF ReadReceipts, RunState
      <4>3. QED
        BY <4>1, <4>2
    <3>3. QED
      BY <3>1, <3>2
  <2>2. QED
    BY <1>0, <2>0, <2>1 DEF Once
<1>3. ASSUME NEW r \in Runs, CreateEncounter(r) \/ RecordEncounter(r) PROVE Once'
  <2>1. /\ persisted' = persisted
        /\ \A c \in Contents : receipts'[c] \cap Sections = receipts[c] \cap Sections
        /\ \A q \in Runs : /\ irun'[q].at \in Past => irun[q].at \in Past
                           /\ irun'[q].content = irun[q].content
                           /\ irun'[q].known = irun[q].known
    <3>1. CASE CreateEncounter(r)
      BY <1>0, <3>1 DEF CreateEncounter, RunState
    <3>2. CASE RecordEncounter(r)
      <4>1. /\ persisted' = persisted /\ irun[r].at = "note"
            /\ receipts' = [receipts EXCEPT ![irun[r].content] = @ \cup {"enc"}]
            /\ irun' = [irun EXCEPT ![r].at = "check"]
        BY <3>2 DEF RecordEncounter
      <4>2. \A c \in Contents : receipts'[c] \cap Sections = receipts[c] \cap Sections
        BY <1>0, <4>1 DEF LedgerType
      <4>3. QED
        BY <1>0, <4>1, <4>2 DEF RunState
    <3>3. QED
      BY <1>3, <3>1, <3>2
  <2>2. QED
    BY <1>0, <2>1 DEF Once
<1>4. ASSUME NEW r \in Runs, PersistSection(r) PROVE Once'
  <2> DEFINE c == irun[r].content
  <2>1. PICK s \in Sections \ irun[r].known :
          /\ persisted' = [persisted EXCEPT ![c][s] = @ + 1]
          /\ receipts' = [receipts EXCEPT ![c] = @ \cup {s}]
          /\ irun' = [irun EXCEPT ![r].known = @ \cup {s}]
    BY <1>4 DEF PersistSection, SectionReceipt
  <2>2. c \in Contents /\ irun[r].at = "persist"
    BY <1>0, <1>4 DEF PersistSection, RunsNamed
  <2>3. /\ irun'[r].content = c /\ irun'[r].known = irun[r].known \cup {s}
        /\ \A q \in Runs \ {r} : irun'[q] = irun[q]
    BY <1>0, <2>1 DEF RunState
  <2>4. c \notin overlapped => \A q \in Runs \ {r} : irun[q].content # c
    BY <2>2 DEF Apart
  <2> HIDE DEF c
  <2>5. \A d \in Contents \ {c} : receipts'[d] = receipts[d] /\ persisted'[d] = persisted[d]
    BY <1>0, <2>1, <2>2 DEF LedgerType
  <2>6. persisted'[c] = [persisted[c] EXCEPT ![s] = @ + 1] /\ receipts'[c] = receipts[c] \cup {s}
    BY <1>0, <2>1, <2>2 DEF LedgerType
  <2>7. persisted[c] \in [Sections -> Nat]
    BY <1>0, <2>2 DEF LedgerType
  <2>8. ASSUME c \notin overlapped
        PROVE /\ \A t \in Sections : /\ persisted'[c][t] <= 1
                                     /\ persisted'[c][t] > 0 => t \in receipts'[c]
              /\ irun'[r].known = receipts'[c] \cap Sections
    <3>1. irun[r].known = receipts[c] \cap Sections
      BY <2>2, <2>8 DEF Once, c
    <3>2. persisted[c][s] = 0
      BY <2>2, <2>7, <2>8, <3>1 DEF Once
    <3>3. \A t \in Sections : persisted[c][t] <= 1 /\ (persisted[c][t] > 0 => t \in receipts[c])
      BY <2>2, <2>8 DEF Once
    <3>4. ASSUME NEW t \in Sections
          PROVE persisted'[c][t] <= 1 /\ (persisted'[c][t] > 0 => t \in receipts'[c])
      BY <2>6, <2>7, <3>2, <3>3
    <3>5. QED
      BY <2>3, <2>6, <3>1, <3>4
  <2>9. ASSUME NEW d \in Contents \ overlapped', NEW q \in Runs, irun'[q].content = d,
               irun'[q].at \in Past
        PROVE irun'[q].known = receipts'[d] \cap Sections
    <3>1. CASE q = r
      BY <1>0, <2>3, <2>8, <2>9, <3>1
    <3>2. CASE q # r
      <4>1. d # c
        BY <1>0, <2>3, <2>4, <2>9, <3>2
      <4>2. QED
        BY <1>0, <2>3, <2>5, <2>9, <3>2, <4>1 DEF Once
    <3>3. QED
      BY <3>1, <3>2
  <2>10. ASSUME NEW d \in Contents \ overlapped', NEW t \in Sections
         PROVE persisted'[d][t] <= 1 /\ (persisted'[d][t] > 0 => t \in receipts'[d])
    BY <1>0, <2>5, <2>8 DEF Once
  <2>11. QED
    BY <2>9, <2>10 DEF Once
<1>5. ASSUME NEW r \in Runs, SealDocument(r) PROVE Once'
  <2>1. /\ persisted' = persisted
        /\ \A c \in Contents : receipts'[c] \cap Sections = receipts[c] \cap Sections
    BY <1>0, <1>5 DEF SealDocument, LedgerType, RunsNamed
  <2>2. irun'[r].at \notin Past /\ \A q \in Runs \ {r} : irun'[q] = irun[q]
    BY <1>0, <1>5, EndedOK DEF SealDocument, FreeRun
  <2>3. QED
    BY <1>0, <2>1, <2>2 DEF Once
<1>6. QED
  BY <1>1, <1>2, <1>3, <1>4, <1>5, LedgerMoves, QuietRuns

\* Crashes, failures, retries and takeovers persist a section once, unless two
\* executions on its document overlapped (receipts and memories of one section
\* commit together, db/66; receipts are read once, pipeline.py).
THEOREM WrittenOnce == IngestSpec => []PersistedOnce
<1>1. IngestInit => Apart /\ Once
  BY IngestAssumption DEF IngestInit, Apart, Once, FreeRun
<1>2. Base /\ Apart /\ Once /\ [IngestNext]_ingestVars => Apart' /\ Once'
  BY ApartStep, OnceStep
<1>3. Once => PersistedOnce
  BY DEF Once, PersistedOnce
<1>4. QED
  BY <1>1, <1>2, <1>3, BaseInvariant, PTL DEF IngestSpec
-----------------------------------------------------------------------------
\* A document that was read to its end, or taken for it.
Read(c) == c \in mistaken \/ Sections \subseteq receipts[c]

\* What an execution that returned, a worker about to complete its job and a
\* result that names its document stand for.
ReadToEnd ==
    /\ \A r \in Runs : irun[r].at = "returned" => Read(irun[r].content)
    /\ \A w \in IngestWorkers : iworker[w].at = "complete" => Read(ijob[iworker[w].job].content)
    /\ \A j \in JobIds : ijob[j].named => Read(ijob[j].content)

\* How a row comes to name its document.
LEMMA NamedMoves ==
    ASSUME Base, [IngestNext]_ingestVars, NEW j \in JobIds, ijob'[j].named
    PROVE  \/ ijob[j].named
           \/ \E w \in IngestWorkers : iworker[w].at = "complete" /\ iworker[w].job = j
<1>0. /\ ijob \in [JobIds -> JobRow] /\ ijob[j] \in JobRow /\ BatchesNamed
      /\ iworker \in [IngestWorkers -> WorkerState]
  BY DEF Base, IngestTypeOK
<1>1. CASE ijob' = ijob
  BY <1>1
<1>2. ASSUME NEW c \in Contents, EnqueueJob(c) PROVE ijob[j].named
  <2>1. PICK k \in JobIds, new \in JobRow :
              /\ ijob[k].status = "none" /\ ijob' = [ijob EXCEPT ![k] = new]
              /\ new.status = "pending" /\ new.content = c
              /\ new.attempts = ijob[k].attempts /\ new.named = ijob[k].named
              /\ ActiveFor(c) = {}
    BY <1>0, <1>2, Enqueued
  <2>2. QED
    BY <1>0, <2>1
<1>3. ASSUME NEW k \in JobIds, CancelJob(k) \/ ComeDue(k) \/ GoStale(k)
      PROVE ijob[j].named
  <2>1. CASE CancelJob(k)
    BY <1>0, <2>1, CancelRowOK DEF CancelJob, Active
  <2>2. CASE ComeDue(k) \/ GoStale(k)
    BY <1>0, <2>2 DEF ComeDue, GoStale, JobRow
  <2>3. QED
    BY <1>3, <2>1, <2>2
<1>4. ASSUME NEW w \in IngestWorkers, ClaimJobs(w) PROVE ijob[j].named
  <2>1. PICK batch \in SUBSET {k \in JobIds : Claimable(ijob[k])} :
            ijob' = [k \in JobIds |-> IF k \in batch THEN ClaimedRow(ijob[k]) ELSE ijob[k]]
    BY <1>4, Zenon DEF ClaimJobs
  <2>2. QED
    BY <1>0, <2>1, ClaimedRowOK
<1>5. ASSUME NEW w \in IngestWorkers, Poll(w) PROVE ijob[j].named
  BY <1>0, <1>5 DEF Poll, JobRow
<1>6. ASSUME NEW w \in IngestWorkers, CompleteJob(w) \/ CompleteFails(w)
      PROVE \/ ijob[j].named
            \/ iworker[w].at = "complete" /\ iworker[w].job = j
  <2>1. PICK k \in JobIds, end \in Completing :
          /\ k = iworker[w].job /\ end = iworker[w].at
          /\ ijob' = ijob \/ ijob' = [ijob EXCEPT ![k] = CompletedRow(ijob[k], end)]
    BY <1>0, <1>6, Completions
  <2>2. CompletedRow(ijob[k], end).named => end = "complete"
    BY <1>0, CompletedRowOK
  <2>3. QED
    BY <1>0, <2>1, <2>2
<1>7. ASSUME NEW w \in IngestWorkers, FailJob(w) PROVE ijob[j].named
  <2>1. PICK k \in JobIds : ijob' = [ijob EXCEPT ![k] = FailedRow(ijob[k])]
    BY <1>0, <1>7 DEF FailJob, BatchesNamed
  <2>2. QED
    BY <1>0, <2>1, FailedRowOK
<1>8. QED
  BY <1>1, <1>2, <1>3, <1>4, <1>5, <1>6, <1>7, JobMoves

\* How a worker comes to complete a job: its execution returned.
LEMMA CompletingMoves ==
    ASSUME Base, [IngestNext]_ingestVars, NEW w \in IngestWorkers, iworker'[w].at = "complete"
    PROVE  /\ iworker'[w].job = iworker[w].job
           /\ \/ iworker[w].at = "complete"
              \/ iworker[w].at = "run" /\ irun[iworker[w].run].at = "returned"
<1> DEFINE Goal == /\ iworker'[w].job = iworker[w].job
                   /\ \/ iworker[w].at = "complete"
                      \/ iworker[w].at = "run" /\ irun[iworker[w].run].at = "returned"
<1>0. iworker \in [IngestWorkers -> WorkerState]
  BY DEF Base, IngestTypeOK
<1>1. CASE iworker'[w] = iworker[w]
  BY <1>1
<1>2. ASSUME NEW v \in IngestWorkers, ClaimJobs(v) PROVE Goal
  <2>1. PICK batch \in SUBSET {j \in JobIds : Claimable(ijob[j])} :
            iworker' = [iworker EXCEPT ![v].at = "next", ![v].batch = batch]
    BY <1>2, Zenon DEF ClaimJobs
  <2>2. QED
    BY <1>0, <1>1, <2>1 DEF WorkerState
<1>3. ASSUME NEW v \in IngestWorkers, StartJob(v) PROVE Goal
  <2>1. PICK j \in iworker[v].batch :
            iworker' = [iworker EXCEPT ![v] = [at |-> "run", job |-> j,
                run |-> CHOOSE q \in FreeRuns : TRUE, batch |-> iworker[v].batch \ {j}]]
    BY <1>3, Zenon DEF StartJob
  <2>2. QED
    BY <1>0, <1>1, <2>1
<1>4. ASSUME NEW v \in IngestWorkers, StartFails(v) \/ CrashWorker(v) \/ FailJobErrors(v) PROVE Goal
  BY <1>0, <1>1, <1>4 DEF StartFails, CrashWorker, FailJobErrors, IdleWorker
<1>5. ASSUME NEW v \in IngestWorkers, PollFails(v) \/ CompleteFails(v) PROVE Goal
  BY <1>0, <1>1, <1>5 DEF PollFails, CompleteFails, WorkerState
<1>6. ASSUME NEW v \in IngestWorkers, Collect(v) PROVE Goal
  BY <1>0, <1>1, <1>6 DEF Collect, WorkerState
<1>7. ASSUME NEW v \in IngestWorkers, CompleteJob(v) \/ FailJob(v) PROVE Goal
  <2>1. iworker' = [iworker EXCEPT ![v] = Proceed(v)]
    BY <1>7 DEF CompleteJob, FailJob
  <2>2. Proceed(v).at # "complete"
    BY <1>0, ProceedOK
  <2>3. QED
    BY <1>0, <1>1, <2>1, <2>2
<1>8. QED
  BY <1>1, <1>2, <1>3, <1>4, <1>5, <1>6, <1>7, WorkerMoves

\* How an execution comes to return: it sealed its document, or took it for
\* one that was ingested before.
LEMMA ReturnedMoves ==
    ASSUME Base, ReceiptsHonest, [IngestNext]_ingestVars, NEW r \in Runs,
           irun'[r].at = "returned"
    PROVE  /\ irun'[r].content = irun[r].content
           /\ irun[r].at = "returned" \/ Read(irun[r].content)'
<1> DEFINE Goal == /\ irun'[r].content = irun[r].content
                   /\ irun[r].at = "returned" \/ Read(irun[r].content)'
<1>0. /\ irun \in [Runs -> RunState] /\ RunsNamed /\ LedgerType /\ Waits
      /\ receipts \in [Contents -> SUBSET (Sections \cup {"enc", "doc"})]
  BY DEF Base, IngestTypeOK, LedgerType
<1>1. CASE irun'[r] = irun[r]
  BY <1>1
<1>2. ASSUME NEW w \in IngestWorkers, StartJob(w) PROVE Goal
  BY <1>1, <1>2, Started
<1>3. ASSUME NEW w \in IngestWorkers, Poll(w) \/ Collect(w) \/ CrashWorker(w) PROVE Goal
  BY <1>0, <1>1, <1>3 DEF Poll, Collect, CrashWorker, Waits, FreeRun, RunState
<1>4. ASSUME NEW q \in Runs, q # r, RunStep(q) \/ ReadFails(q) \/ RunFails(q) PROVE Goal
  BY <1>0, <1>1, <1>4, OthersStay
<1>5. CASE CreateEncounter(r) \/ RecordEncounter(r)
  BY <1>0, <1>5 DEF CreateEncounter, RecordEncounter, RunState
<1>6. CASE PersistSection(r)
  <2>1. PICK s \in Sections : irun' = [irun EXCEPT ![r].known = @ \cup {s}]
    BY <1>6 DEF PersistSection
  <2>2. QED
    BY <1>0, <2>1 DEF RunState
<1>7. CASE RunFails(r) \/ ReadFails(r) \/ CheckCancel(r)
  <2>1. CASE irun' = Ended(r, "raised") \/ irun' = Ended(r, "unread")
    BY <1>0, <2>1, EndedOK DEF FreeRun
  <2>2. CASE irun' = [irun EXCEPT ![r].at = "persist"]
    BY <1>0, <2>2 DEF RunState
  <2>3. QED
    BY <1>7, <2>1, <2>2 DEF ReadFails, RunFails, CheckCancel
<1>8. CASE SealDocument(r)
  <2>1. /\ irun' = Ended(r, "returned") /\ irun[r].content \in Contents
        /\ Sections \subseteq receipts[irun[r].content]
    BY <1>0, <1>8 DEF SealDocument, Sealable, RunsNamed
  <2>2. Grows
    BY BaseStep
  <2>3. Read(irun[r].content)'
    BY <1>0, <2>1, <2>2, EndedOK DEF Read, Grows, FreeRun
  <2>4. QED
    BY <1>0, <2>1, <2>3, EndedOK DEF FreeRun
<1>9. CASE ReadReceipts(r)
  <2>1. "doc" \in Found(irun[r].content)
    BY <1>0, <1>9 DEF ReadReceipts, RunState
  <2>2. /\ irun' = Ended(r, "returned") /\ irun[r].content \in Contents /\ receipts' = receipts
        /\ mistaken' = IF receipts[irun[r].content] = {}
                       THEN mistaken \cup {irun[r].content} ELSE mistaken
    BY <1>0, <1>9, <2>1 DEF ReadReceipts, RunsNamed
  <2>3. irun'[r].content = irun[r].content
    BY <1>0, <2>2, EndedOK DEF FreeRun
  <2>4. receipts[irun[r].content] # {} => Sections \subseteq receipts[irun[r].content]
    BY <2>1, <2>2 DEF Found, ReceiptsHonest
  <2>5. Read(irun[r].content)'
    BY <2>2, <2>3, <2>4 DEF Read
  <2>6. QED
    BY <2>3, <2>5
<1>10. QED
  BY <1>1, <1>2, <1>3, <1>4, <1>5, <1>6, <1>7, <1>8, <1>9, RunMoves DEF RunStep

LEMMA ReadStep ==
    ASSUME Base, ReceiptsHonest, ReadToEnd, [IngestNext]_ingestVars
    PROVE  ReadToEnd'
<1>0. /\ Kept /\ Grows /\ RowsNamed /\ RunsNamed /\ BatchesNamed /\ Waits
      /\ RowsNamed'
  BY BaseStep DEF Base, RowsMove
<1>1. \A c \in Contents : Read(c) => Read(c)'
  BY <1>0 DEF Read, Grows
<1>2. ASSUME NEW r \in Runs, irun'[r].at = "returned" PROVE Read(irun[r].content)'
  <2>1. irun'[r].content = irun[r].content /\ (irun[r].at = "returned" \/ Read(irun[r].content)')
    BY <1>2, ReturnedMoves
  <2>2. CASE irun[r].at = "returned"
    <3>1. Read(irun[r].content) /\ irun[r].content \in Contents
      BY <1>0, <2>2 DEF ReadToEnd, RunsNamed
    <3>2. irun[r].content \in mistaken' \/ Sections \subseteq receipts'[irun[r].content]
      BY <1>1, <3>1 DEF Read
    <3>3. QED
      BY <2>1, <3>2 DEF Read
  <2>3. QED
    BY <2>1, <2>2
<1>3. ASSUME NEW w \in IngestWorkers, iworker'[w].at = "complete"
      PROVE Read(ijob[iworker[w].job].content)'
  <2> DEFINE j == iworker[w].job
  <2>1. /\ iworker'[w].job = j
        /\ \/ iworker[w].at = "complete"
           \/ iworker[w].at = "run" /\ irun[iworker[w].run].at = "returned"
    BY <1>3, CompletingMoves
  <2>2. j \in JobIds /\ ijob[j].status # "none" /\ ijob[j].content \in Contents
    BY <1>0, <2>1 DEF BatchesNamed, RowsNamed
  <2>3. ijob'[j].content = ijob[j].content
    BY <1>0, <2>2 DEF Kept
  <2>4. Read(ijob[j].content)
    BY <1>0, <2>1 DEF ReadToEnd, Waits
  <2>5. ijob[j].content \in mistaken' \/ Sections \subseteq receipts'[ijob[j].content]
    BY <1>1, <2>2, <2>4 DEF Read
  <2>6. QED
    BY <2>1, <2>3, <2>5 DEF Read
<1>4. ASSUME NEW j \in JobIds, ijob'[j].named PROVE Read(ijob[j].content)'
  <2>1. \/ ijob[j].named
        \/ \E w \in IngestWorkers : iworker[w].at = "complete" /\ iworker[w].job = j
    BY <1>4, NamedMoves
  <2>2. Read(ijob[j].content) /\ ijob[j].status # "none"
    BY <1>0, <2>1 DEF ReadToEnd, BatchesNamed, RowsNamed
  <2>3. ijob'[j].content = ijob[j].content /\ ijob[j].content \in Contents
    BY <1>0, <2>2 DEF Kept, RowsNamed
  <2>4. ijob[j].content \in mistaken' \/ Sections \subseteq receipts'[ijob[j].content]
    BY <1>1, <2>2, <2>3 DEF Read
  <2>5. QED
    BY <2>3, <2>4 DEF Read
<1>5. QED
  BY <1>2, <1>3, <1>4 DEF ReadToEnd

\* A result that names its document stands for a document read to the end, or
\* skipped on the word of an encounter (mistaken), although the pipeline returns
\* from a source it cannot read as from one that held nothing, and
\* complete_ingestion_job looks neither at the status nor at the owner.
THEOREM ReadWhole == IngestSpec => []NamedIsRead
<1>1. IngestInit => ReadToEnd
  BY DEF IngestInit, ReadToEnd, IdleWorker, FreeRun
<1>2. Base /\ ReceiptsHonest /\ ReadToEnd /\ [IngestNext]_ingestVars => ReadToEnd'
  BY ReadStep
<1>3. ReadToEnd => NamedIsRead
  BY DEF ReadToEnd, Read, NamedIsRead
<1>4. QED
  BY <1>1, <1>2, <1>3, BaseInvariant, Honest, PTL DEF IngestSpec
-----------------------------------------------------------------------------
\* What one statement may do to the status of one row.
Turn(j) ==
    \/ ijob'[j].status = ijob[j].status
    \/ ijob[j].status = "none" /\ ijob'[j].status = "pending"
    \/ ijob[j].status = "pending" /\ ijob'[j].status = "cancelled"
    \/ /\ ijob[j].status \in Active /\ ijob'[j].status = "in_progress"
       /\ \E w \in IngestWorkers : ClaimJobs(w)
    \/ \E w \in IngestWorkers : Holds(w, j) /\ (~Holds(w, j)' \/ j \in disturbed')

LEMMA Turns == ASSUME Base, [IngestNext]_ingestVars, NEW j \in JobIds PROVE Turn(j)
<1> USE DEF Turn
<1>0. /\ ijob \in [JobIds -> JobRow] /\ ijob[j] \in JobRow /\ BatchesNamed
      /\ iworker \in [IngestWorkers -> WorkerState]
  BY DEF Base, IngestTypeOK
<1>1. CASE ijob' = ijob
  BY <1>1
<1>2. ASSUME NEW c \in Contents, EnqueueJob(c) PROVE Turn(j)
  <2>1. PICK k \in JobIds, new \in JobRow :
              /\ ijob[k].status = "none" /\ ijob' = [ijob EXCEPT ![k] = new]
              /\ new.status = "pending" /\ new.content = c
              /\ new.attempts = ijob[k].attempts /\ new.named = ijob[k].named
              /\ ActiveFor(c) = {}
    BY <1>0, <1>2, Enqueued
  <2>2. QED
    BY <1>0, <2>1
<1>3. ASSUME NEW k \in JobIds, CancelJob(k) \/ ComeDue(k) \/ GoStale(k) PROVE Turn(j)
  <2>1. CASE CancelJob(k)
    BY <1>0, <2>1, CancelRowOK DEF CancelJob, Active
  <2>2. CASE ComeDue(k) \/ GoStale(k)
    <3>1. ijob'[j].status = ijob[j].status
      BY <1>0, <2>2 DEF ComeDue, GoStale, JobRow
    <3>2. QED
      BY <3>1
  <2>3. QED
    BY <1>3, <2>1, <2>2
<1>4. ASSUME NEW w \in IngestWorkers, ClaimJobs(w) PROVE Turn(j)
  <2>1. PICK batch \in SUBSET {k \in JobIds : Claimable(ijob[k])} :
            ijob' = [k \in JobIds |-> IF k \in batch THEN ClaimedRow(ijob[k]) ELSE ijob[k]]
    BY <1>4, Zenon DEF ClaimJobs
  <2>2. CASE j \in batch
    <3>1. ijob'[j].status = "in_progress" /\ ijob[j].status \in Active
      BY <1>0, <2>1, <2>2, ClaimedRowOK DEF Claimable, Active
    <3>2. QED
      BY <1>4, <3>1
  <2>3. CASE j \notin batch
    BY <2>1, <2>3
  <2>4. QED
    BY <2>2, <2>3
<1>5. ASSUME NEW w \in IngestWorkers, Poll(w) PROVE Turn(j)
  <2>1. ijob'[j].status = ijob[j].status
    BY <1>0, <1>5 DEF Poll, JobRow
  <2>2. QED
    BY <2>1
<1>6. ASSUME NEW w \in IngestWorkers, CompleteJob(w) \/ FailJob(w) PROVE Turn(j)
  <2>1. /\ iworker[w].at \in {"fail"} \cup Completing
        /\ ijob'[j] = ijob[j] \/ iworker[w].job = j
        /\ iworker' = [iworker EXCEPT ![w] = Proceed(w)]
    BY <1>0, <1>6 DEF CompleteJob, FailJob
  <2>2. CASE iworker[w].job = j
    <3>1. iworker'[w].batch = iworker[w].batch /\ iworker'[w].job = Nobody
      BY <1>0, <2>1, ProceedOK
    <3>2. j \notin iworker[w].batch
      BY <1>0, <2>1, <2>2 DEF BatchesNamed
    <3>3. Holds(w, j) /\ ~Holds(w, j)'
      BY <2>2, <3>1, <3>2, IngestAssumption DEF Holds
    <3>4. QED
      BY <3>3
  <2>3. QED
    BY <2>1, <2>2
<1>7. ASSUME NEW w \in IngestWorkers, CompleteFails(w) PROVE Turn(j)
  <2>1. \/ ijob'[j] = ijob[j]
        \/ iworker[w].job = j /\ j \in disturbed'
    BY <1>0, <1>7 DEF CompleteFails
  <2>2. QED
    BY <2>1 DEF Holds
<1>8. QED
  BY <1>1, <1>2, <1>3, <1>4, <1>5, <1>6, <1>7, JobMoves

\* Unless a claim was taken from a living process, or a completion was
\* committed and reported as an error, a job in somebody's hands is in
\* progress and in nobody else's.
HeldOnce == \A w \in IngestWorkers, j \in JobIds \ disturbed : Holds(w, j) =>
    /\ ijob[j].status = "in_progress"
    /\ \A v \in IngestWorkers \ {w} : ~Holds(v, j)

\* A worker gets hold of a job only by claiming it.
LEMMA HoldMoves ==
    ASSUME Base, [IngestNext]_ingestVars, ~ \E v \in IngestWorkers : ClaimJobs(v),
           NEW w \in IngestWorkers, NEW j \in JobIds, Holds(w, j)'
    PROVE  Holds(w, j)
<1> USE IngestAssumption DEF Holds
<1>0. iworker \in [IngestWorkers -> WorkerState] /\ BatchesNamed
  BY DEF Base, IngestTypeOK
<1>1. CASE iworker'[w] = iworker[w]
  BY <1>1
<1>2. ASSUME NEW v \in IngestWorkers, StartJob(v) PROVE Holds(w, j)
  <2>1. PICK k \in iworker[v].batch :
            iworker' = [iworker EXCEPT ![v] = [at |-> "run", job |-> k,
                run |-> CHOOSE q \in FreeRuns : TRUE, batch |-> iworker[v].batch \ {k}]]
    BY <1>2, Zenon DEF StartJob
  <2>2. QED
    BY <1>0, <1>1, <2>1
<1>3. ASSUME NEW v \in IngestWorkers, StartFails(v) \/ CrashWorker(v) \/ FailJobErrors(v)
      PROVE Holds(w, j)
  BY <1>0, <1>1, <1>3 DEF StartFails, CrashWorker, FailJobErrors, IdleWorker
<1>4. ASSUME NEW v \in IngestWorkers, PollFails(v) \/ CompleteFails(v) \/ Collect(v)
      PROVE Holds(w, j)
  BY <1>0, <1>1, <1>4 DEF PollFails, CompleteFails, Collect, WorkerState
<1>5. ASSUME NEW v \in IngestWorkers, CompleteJob(v) \/ FailJob(v) PROVE Holds(w, j)
  <2>1. iworker' = [iworker EXCEPT ![v] = Proceed(v)]
    BY <1>5 DEF CompleteJob, FailJob
  <2>2. Proceed(v).batch = iworker[v].batch /\ Proceed(v).job = Nobody
    BY <1>0, ProceedOK
  <2>3. QED
    BY <1>0, <1>1, <2>1, <2>2
<1>6. QED
  BY <1>1, <1>2, <1>3, <1>4, <1>5, WorkerMoves

\* Histories are not forgotten.
LEMMA DisturbedMoves ==
    ASSUME [IngestNext]_ingestVars
    PROVE  disturbed \subseteq disturbed'
<1>1. CASE UNCHANGED ingestVars
  BY <1>1 DEF ingestVars
<1>2. ASSUME NEW c \in Contents, EnqueueJob(c) PROVE disturbed' = disturbed
  BY <1>2 DEF EnqueueJob
<1>3. ASSUME NEW j \in JobIds, CancelJob(j) \/ ComeDue(j) \/ GoStale(j)
      PROVE disturbed' = disturbed
  BY <1>3 DEF CancelJob, ComeDue, GoStale
<1>4. ASSUME NEW w \in IngestWorkers, ClaimJobs(w) PROVE disturbed \subseteq disturbed'
  <2>1. \E S : disturbed' = disturbed \cup S
    BY <1>4, Zenon DEF ClaimJobs
  <2>2. QED
    BY <2>1
<1>5. ASSUME NEW w \in IngestWorkers, StartJob(w) \/ Collect(w) \/ CompleteJob(w) \/ FailJob(w)
      PROVE disturbed' = disturbed
  BY <1>5 DEF StartJob, Collect, CompleteJob, FailJob
<1>6. ASSUME NEW w \in IngestWorkers, StartFails(w) \/ Poll(w) \/ PollFails(w) \/ CrashWorker(w)
      PROVE disturbed' = disturbed
  BY <1>6 DEF StartFails, Poll, PollFails, CrashWorker
<1>7. ASSUME NEW w \in IngestWorkers, CompleteFails(w) \/ FailJobErrors(w)
      PROVE disturbed \subseteq disturbed'
  BY <1>7 DEF CompleteFails, FailJobErrors
<1>8. ASSUME NEW r \in Runs, RunStep(r) \/ ReadFails(r) \/ RunFails(r) PROVE disturbed' = disturbed
  BY <1>8 DEF RunStep, ReadFails, RunFails, ReadReceipts, CreateEncounter, RecordEncounter,
              CheckCancel, PersistSection, SealDocument
<1>9. QED
  BY <1>1, <1>2, <1>3, <1>4, <1>5, <1>6, <1>7, <1>8 DEF IngestNext, WorkerStep

LEMMA HeldOnceStep == ASSUME Base, HeldOnce, [IngestNext]_ingestVars PROVE HeldOnce'
<1> USE IngestAssumption
<1>0. /\ iworker \in [IngestWorkers -> WorkerState] /\ BatchesNamed
      /\ ijob \in [JobIds -> JobRow] /\ BatchesNamed'
  BY BaseStep DEF Base, IngestTypeOK
<1>1. ASSUME NEW w \in IngestWorkers, ClaimJobs(w) PROVE HeldOnce'
  <2>1. PICK batch \in SUBSET {j \in JobIds : Claimable(ijob[j])} :
          /\ disturbed' = disturbed
                \cup {j \in {k \in batch : ijob[k].status = "in_progress"} : Held(j)}
          /\ ijob' = [j \in JobIds |-> IF j \in batch THEN ClaimedRow(ijob[j]) ELSE ijob[j]]
          /\ iworker' = [iworker EXCEPT ![w].at = "next", ![w].batch = batch]
    BY <1>1, Zenon DEF ClaimJobs
  <2>2. iworker[w].at = "idle"
    BY <1>1 DEF ClaimJobs
  <2>3. \A j \in JobIds : ~Holds(w, j)
    BY <1>0, <2>2 DEF BatchesNamed, Holds
  <2>4. \A j \in JobIds : Holds(w, j)' => j \in batch
    BY <1>0, <2>1, <2>2 DEF BatchesNamed, Holds, WorkerState
  <2>5. \A v \in IngestWorkers \ {w}, j \in JobIds : Holds(v, j)' <=> Holds(v, j)
    BY <1>0, <2>1 DEF Holds
  <2>6. ASSUME NEW j \in JobIds \ disturbed', j \in batch
        PROVE /\ ijob'[j].status = "in_progress"
              /\ \A v \in IngestWorkers : ~Holds(v, j)
    <3>1. ijob[j] \in JobRow /\ ijob[j].status \in {"pending", "in_progress"}
      BY <1>0, <2>6 DEF Claimable
    <3>2. ijob'[j].status = "in_progress"
      BY <2>1, <2>6, <3>1, ClaimedRowOK
    <3>3. ijob[j].status = "in_progress" => ~Held(j)
      BY <2>1, <2>6
    <3>4. ijob[j].status = "pending" => \A v \in IngestWorkers : ~Holds(v, j)
      BY <2>1, <2>6 DEF HeldOnce
    <3>5. QED
      BY <3>1, <3>2, <3>3, <3>4 DEF Held
  <2>7. ASSUME NEW j \in JobIds \ disturbed', j \notin batch
        PROVE ijob'[j] = ijob[j] /\ ~Holds(w, j)'
    BY <2>1, <2>4, <2>7
  <2>8. disturbed \subseteq disturbed'
    BY <2>1
  <2>9. ASSUME NEW v \in IngestWorkers, NEW j \in JobIds \ disturbed', Holds(v, j)'
        PROVE /\ ijob'[j].status = "in_progress"
              /\ \A u \in IngestWorkers \ {v} : ~Holds(u, j)'
    <3>1. CASE j \in batch
      BY <2>5, <2>6, <2>9, <3>1
    <3>2. CASE j \notin batch
      BY <2>5, <2>7, <2>8, <2>9, <3>2 DEF HeldOnce
    <3>3. QED
      BY <3>1, <3>2
  <2>10. QED
    BY <2>9 DEF HeldOnce
<1>2. CASE ~ \E w \in IngestWorkers : ClaimJobs(w)
  <2>1. disturbed \subseteq disturbed'
    BY <1>2, DisturbedMoves
  <2>2. ASSUME NEW w \in IngestWorkers, NEW j \in JobIds \ disturbed', Holds(w, j)'
        PROVE /\ ijob'[j].status = "in_progress"
              /\ \A v \in IngestWorkers \ {w} : ~Holds(v, j)'
    <3>1. Holds(w, j)
      BY <1>2, <2>2, HoldMoves
    <3>2. ijob[j].status = "in_progress" /\ \A v \in IngestWorkers \ {w} : ~Holds(v, j)
      BY <2>1, <2>2, <3>1 DEF HeldOnce
    <3>3. \A v \in IngestWorkers \ {w} : ~Holds(v, j)'
      BY <1>2, <3>2, HoldMoves
    <3>4. ijob'[j].status = "in_progress"
      <4>1. ~ \E v \in IngestWorkers : Holds(v, j) /\ (~Holds(v, j)' \/ j \in disturbed')
        BY <2>2, <3>2
      <4>2. QED
        BY <1>2, <3>2, <4>1, Turns DEF Turn
    <3>5. QED
      BY <3>3, <3>4
  <2>3. QED
    BY <2>2 DEF HeldOnce
<1>3. QED
  BY <1>1, <1>2

\* A row that failed for good or was cancelled is completed late or stays over:
\* fail_ingestion_job finds its attempts used up or its status cancelled.
LEMMA OverStays ==
    ASSUME Base, [IngestNext]_ingestVars, NEW j \in JobIds,
           ijob[j].status \in {"failed", "cancelled"}
    PROVE  ijob'[j].status \in Finished
<1> USE DEF Finished
<1>0. /\ ijob \in [JobIds -> JobRow] /\ BatchesNamed /\ RowsNamed
      /\ ijob[j] \in JobRow /\ ijob[j].attempts \in Nat
  BY DEF Base, IngestTypeOK, JobRow
<1>1. CASE ijob' = ijob
  BY <1>1
<1>2. ASSUME NEW c \in Contents, EnqueueJob(c) PROVE ijob'[j] = ijob[j]
  <2>1. PICK k \in JobIds, new \in JobRow :
              /\ ijob[k].status = "none" /\ ijob' = [ijob EXCEPT ![k] = new]
              /\ new.status = "pending" /\ new.content = c
              /\ new.attempts = ijob[k].attempts /\ new.named = ijob[k].named
              /\ ActiveFor(c) = {}
    BY <1>0, <1>2, Enqueued
  <2>2. QED
    BY <1>0, <2>1
<1>3. ASSUME NEW k \in JobIds, CancelJob(k) \/ ComeDue(k) \/ GoStale(k)
      PROVE ijob'[j] = ijob[j]
  BY <1>0, <1>3 DEF CancelJob, ComeDue, GoStale, Active
<1>4. ASSUME NEW w \in IngestWorkers, ClaimJobs(w) PROVE ijob'[j] = ijob[j]
  <2>1. PICK batch \in SUBSET {k \in JobIds : Claimable(ijob[k])} :
            ijob' = [k \in JobIds |-> IF k \in batch THEN ClaimedRow(ijob[k]) ELSE ijob[k]]
    BY <1>4, Zenon DEF ClaimJobs
  <2>2. j \notin batch
    BY <2>1 DEF Claimable
  <2>3. QED
    BY <2>1, <2>2
<1>5. ASSUME NEW w \in IngestWorkers, Poll(w) PROVE ijob'[j].status = ijob[j].status
  BY <1>0, <1>5 DEF Poll, JobRow
<1>6. ASSUME NEW w \in IngestWorkers, CompleteJob(w) \/ CompleteFails(w)
      PROVE ijob'[j].status \in Finished
  <2>1. PICK k \in JobIds, end \in Completing :
          ijob' = ijob \/ ijob' = [ijob EXCEPT ![k] = CompletedRow(ijob[k], end)]
    BY <1>0, <1>6, Completions
  <2>2. CompletedRow(ijob[k], end).status = "completed"
    BY <1>0, CompletedRowOK
  <2>3. QED
    BY <1>0, <2>1, <2>2
<1>7. ASSUME NEW w \in IngestWorkers, FailJob(w) PROVE ijob'[j].status \in Finished
  <2>1. PICK k \in JobIds : ijob' = [ijob EXCEPT ![k] = FailedRow(ijob[k])]
    BY <1>0, <1>7 DEF FailJob, BatchesNamed
  <2>2. FailedRow(ijob[j]).status \in {"cancelled", "failed"}
    <3>1. ijob[j].status = "failed" => ijob[j].attempts >= MaxAttempts
      BY <1>0 DEF RowsNamed
    <3>2. QED
      BY <1>0, <3>1, FailedRowOK, IngestAssumption
  <2>3. QED
    BY <1>0, <2>1, <2>2
<1>8. QED
  BY <1>1, <1>2, <1>3, <1>4, <1>5, <1>6, <1>7, JobMoves

\* A finished job stays as it is for every number of workers and rows, unless
\* it was taken from a living process or its completion was reported as an
\* error: complete_ingestion_job and fail_ingestion_job would change it.  A job
\* that failed for good or was cancelled does not come back to the queue, these
\* cases included.
THEOREM FinishedStay == IngestSpec => FinishedStays
<1>1. IngestInit => HeldOnce
  BY IngestAssumption DEF IngestInit, HeldOnce, Holds, IdleWorker
<1>2. Base /\ HeldOnce /\ [IngestNext]_ingestVars => HeldOnce'
  BY HeldOnceStep
<1>3. Base /\ HeldOnce /\ [IngestNext]_ingestVars
      => [\A j \in JobIds :
            /\ ijob[j].status \in Finished /\ j \notin disturbed'
               => ijob'[j].status = ijob[j].status
            /\ ijob[j].status \in {"failed", "cancelled"}
               => ijob'[j].status \in Finished]_ingestVars
  <2> SUFFICES ASSUME Base, HeldOnce, [IngestNext]_ingestVars, NEW j \in JobIds
               PROVE  /\ ijob[j].status \in Finished /\ j \notin disturbed'
                         => ijob'[j].status = ijob[j].status
                      /\ ijob[j].status \in {"failed", "cancelled"}
                         => ijob'[j].status \in Finished
    OBVIOUS
  <2>1. Turn(j) /\ disturbed \subseteq disturbed'
    BY Turns, DisturbedMoves
  <2>2. ASSUME ijob[j].status \in Finished, j \notin disturbed'
        PROVE  ijob'[j].status = ijob[j].status
    <3>1. \A w \in IngestWorkers : ~Holds(w, j)
      BY <2>1, <2>2 DEF HeldOnce, Finished
    <3>2. QED
      BY <2>1, <2>2, <3>1 DEF Turn, Finished, Active
  <2>3. QED
    BY <2>2, OverStays
<1>4. QED
  BY <1>1, <1>2, <1>3, BaseInvariant, PTL DEF IngestSpec, FinishedStays
-----------------------------------------------------------------------------
\* The statement that makes a row active looked at the index first.
LEMMA ActiveMoves ==
    ASSUME Base, [IngestNext]_ingestVars
    PROVE  \/ \A j \in JobIds : ijob'[j].status \in Active => ijob[j].status \in Active
           \/ \E k \in JobIds :
                 /\ \A j \in JobIds \ {k} : ijob'[j] = ijob[j]
                 /\ ActiveFor(ijob'[k].content) \subseteq {k}
<1> DEFINE Quiet == \A j \in JobIds : ijob'[j].status \in Active => ijob[j].status \in Active
           Indexed == \E k \in JobIds : /\ \A j \in JobIds \ {k} : ijob'[j] = ijob[j]
                                        /\ ActiveFor(ijob'[k].content) \subseteq {k}
<1>0. ijob \in [JobIds -> JobRow] /\ BatchesNamed
  BY DEF Base, IngestTypeOK
<1>1. CASE ijob' = ijob
  BY <1>1
<1>2. ASSUME NEW c \in Contents, EnqueueJob(c) PROVE Indexed
  <2>1. PICK k \in JobIds, new \in JobRow :
              /\ ijob[k].status = "none" /\ ijob' = [ijob EXCEPT ![k] = new]
              /\ new.status = "pending" /\ new.content = c
              /\ new.attempts = ijob[k].attempts /\ new.named = ijob[k].named
              /\ ActiveFor(c) = {}
    BY <1>0, <1>2, Enqueued
  <2>2. QED
    BY <1>0, <2>1
<1>3. ASSUME NEW k \in JobIds, CancelJob(k) PROVE Quiet
  <2>1. ijob[k].status \in Active /\ ijob' = [ijob EXCEPT ![k] = CancelRow(ijob[k])]
    BY <1>0, <1>3 DEF CancelJob
  <2>2. QED
    BY <1>0, <2>1
<1>4. ASSUME NEW k \in JobIds, ComeDue(k) \/ GoStale(k) PROVE Quiet
  BY <1>0, <1>4 DEF ComeDue, GoStale, JobRow
<1>5. ASSUME NEW w \in IngestWorkers, ClaimJobs(w) PROVE Quiet
  <2>1. PICK batch \in SUBSET {k \in JobIds : Claimable(ijob[k])} :
            ijob' = [k \in JobIds |-> IF k \in batch THEN ClaimedRow(ijob[k]) ELSE ijob[k]]
    BY <1>5, Zenon DEF ClaimJobs
  <2>2. \A k \in batch : ijob[k].status \in Active
    BY <2>1 DEF Claimable, Active
  <2>3. QED
    BY <2>1, <2>2
<1>6. ASSUME NEW w \in IngestWorkers, Poll(w) PROVE Quiet
  BY <1>0, <1>6 DEF Poll, JobRow
<1>7. ASSUME NEW w \in IngestWorkers, CompleteJob(w) \/ CompleteFails(w) PROVE Quiet
  <2>1. PICK j \in JobIds, end \in Completing :
          ijob' = ijob \/ ijob' = [ijob EXCEPT ![j] = CompletedRow(ijob[j], end)]
    BY <1>0, <1>7, Completions
  <2>2. CompletedRow(ijob[j], end).status = "completed"
    BY <1>0, CompletedRowOK
  <2>3. QED
    BY <1>0, <2>1, <2>2 DEF Active
<1>8. ASSUME NEW w \in IngestWorkers, FailJob(w) PROVE Quiet \/ Indexed
  <2> DEFINE k == iworker[w].job
             new == FailedRow(ijob[k])
  <2>1. IndexAllows(k, new) /\ k \in JobIds /\ ijob' = [ijob EXCEPT ![k] = new]
    BY <1>0, <1>8, Zenon DEF FailJob, BatchesNamed
  <2> HIDE DEF k, new
  <2>2. CASE new.status \in Active
    BY <1>0, <2>1, <2>2 DEF IndexAllows
  <2>3. CASE new.status \notin Active
    BY <1>0, <2>1, <2>3
  <2>4. QED
    BY <2>2, <2>3
<1>9. QED
  BY <1>1, <1>2, <1>3, <1>4, <1>5, <1>6, <1>7, <1>8, JobMoves

\* The partial unique index and the enqueue that returns the job there is
\* leave a document one active job, whatever late workers report.
THEOREM OneActive == IngestSpec => []OneActiveJob
<1>1. IngestInit => OneActiveJob
  BY DEF IngestInit, OneActiveJob, Active
<1>2. Base /\ OneActiveJob /\ [IngestNext]_ingestVars => OneActiveJob'
  <2> SUFFICES ASSUME Base, OneActiveJob, [IngestNext]_ingestVars, NEW j \in JobIds,
                      NEW k \in JobIds, j # k, ijob'[j].status \in Active,
                      ijob'[k].status \in Active, ijob'[j].content = ijob'[k].content
               PROVE  FALSE
    BY DEF OneActiveJob
  <2>1. \A i \in JobIds : ijob[i].status \in Active => ijob'[i].content = ijob[i].content
    BY BaseStep DEF RowsMove, Kept, Active
  <2>2. CASE \A i \in JobIds : ijob'[i].status \in Active => ijob[i].status \in Active
    BY <2>1, <2>2 DEF OneActiveJob
  <2>3. ASSUME NEW n \in JobIds, \A i \in JobIds \ {n} : ijob'[i] = ijob[i],
               ActiveFor(ijob'[n].content) \subseteq {n}
        PROVE  FALSE
    <3>1. CASE n = j
      BY <2>3, <3>1 DEF ActiveFor
    <3>2. CASE n = k
      BY <2>3, <3>2 DEF ActiveFor
    <3>3. CASE n \notin {j, k}
      BY <2>3, <3>3 DEF OneActiveJob
    <3>4. QED
      BY <3>1, <3>2, <3>3
  <2>4. QED
    BY <2>2, <2>3, ActiveMoves
<1>3. QED
  BY <1>1, <1>2, BaseInvariant, PTL DEF IngestSpec
=============================================================================
