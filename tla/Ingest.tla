------------------------------- MODULE Ingest -------------------------------
(***************************************************************************)
(* The durable queue of ingestion jobs (ingestion_jobs), the maintenance   *)
(* worker that runs them and the part of the pipeline that makes a run     *)
(* resumable: the receipts of sections and documents.  Of readers and      *)
(* model calls only the outcome is modelled: a run of the pipeline is its  *)
(* writes in order, any of which may fail, and a source that cannot be     *)
(* read ends it as if there had been nothing in it.  Time is two flags of  *)
(* a job: `due' (its next_attempt_at has come) and `stale' (claimed_at is  *)
(* older than the claim timeout).                                          *)
(***************************************************************************)
EXTENDS Integers, FiniteSets

CONSTANTS
    Contents,          \* the documents, named by content hash
    Sections,          \* the sections of a document that are not skipped
    JobIds,            \* the rows that can be inserted
    Runs,              \* executions of the pipeline that can be alive at once
    IngestWorkers,     \* maintenance processes
    Nobody,            \* no job, run, worker or content
    MaxAttempts,       \* max_attempts of every job
    JobBatch,          \* ingest.job_batch_size
    MaxIngestFaults,   \* failing statements, model calls and lost replies
    MaxIngestCrashes,  \* processes that die
    MaxIngestLate,     \* claims that time out under a living process
    MaxIngestTrouble   \* all of these together

ASSUME IngestAssumption ==
    /\ MaxAttempts \in Nat \ {0} /\ JobBatch \in Nat \ {0}
    /\ {MaxIngestFaults, MaxIngestCrashes, MaxIngestLate, MaxIngestTrouble} \subseteq Nat
    /\ Nobody \notin Contents \cup JobIds \cup Runs \cup IngestWorkers
    /\ {"enc", "doc"} \cap Sections = {}

VARIABLES
    ijob,        \* the rows of ingestion_jobs
    iworker,     \* what each process is doing
    irun,        \* the executions of the pipeline
    receipts,    \* ingestion_receipts of each document
    met,         \* documents with an encounter memory
    persisted,   \* how often a section's memories were written
    mistaken,    \* history: documents skipped on the word of an encounter
    overlapped,  \* history: documents two executions worked on at once
    disturbed,   \* history: jobs taken from a living process, or whose
                 \* completion was committed and reported as failed
    takeovers,   \* history: stale claims taken over, of each job
    ibudget      \* faults, crashes and late claims so far

ingestVars == <<ijob, iworker, irun, receipts, met, persisted, mistaken,
                overlapped, disturbed, takeovers, ibudget>>
pipelineVars == <<receipts, met, persisted, mistaken>>

Active   == {"pending", "in_progress"}
Finished == {"completed", "failed", "cancelled"}

\* How an execution is over: it returned, it returned without having read its
\* source, or it raised.
RunOver == {"returned", "unread", "raised"}

IdleWorker == [at |-> "idle", batch |-> {}, job |-> Nobody, run |-> Nobody]
FreeRun    == [at |-> "free", owner |-> Nobody, content |-> Nobody,
               cancel |-> FALSE, known |-> {}]

IngestInit ==
    /\ ijob = [j \in JobIds |-> [status |-> "none", content |-> Nobody,
                  cancel |-> FALSE, attempts |-> 0, due |-> FALSE, stale |-> FALSE,
                  named |-> FALSE]]
    /\ iworker = [w \in IngestWorkers |-> IdleWorker]
    /\ irun = [r \in Runs |-> FreeRun]
    /\ receipts = [c \in Contents |-> {}]
    /\ met = {}
    /\ persisted = [c \in Contents |-> [s \in Sections |-> 0]]
    /\ mistaken = {} /\ overlapped = {} /\ disturbed = {}
    /\ takeovers = [j \in JobIds |-> 0]
    /\ ibudget = [fault |-> 0, crash |-> 0, late |-> 0]

Spend(kind, bound) ==
    /\ ibudget[kind] < bound
    /\ ibudget.fault + ibudget.crash + ibudget.late < MaxIngestTrouble
    /\ ibudget' = [ibudget EXCEPT ![kind] = @ + 1]
Fault == Spend("fault", MaxIngestFaults)

-----------------------------------------------------------------------------
(* The queue.                                                              *)

\* The jobs the partial unique index on content_hash keeps to one.
ActiveFor(c) == {j \in JobIds : ijob[j].content = c /\ ijob[j].status \in Active}

NewRows == {j \in JobIds : ijob[j].status = "none"}

\* An active job for the same content is THE job: only a new one is a step.
EnqueueJob(c) ==
    /\ ActiveFor(c) = {} /\ NewRows # {}
    /\ ijob' = [ijob EXCEPT ![CHOOSE j \in NewRows : TRUE] =
                  [@ EXCEPT !.status = "pending", !.content = c, !.due = TRUE]]
    /\ UNCHANGED <<iworker, irun, pipelineVars, overlapped, disturbed,
                   takeovers, ibudget>>

CancelRow(row) ==
    IF row.status = "pending" THEN [row EXCEPT !.status = "cancelled"]
                              ELSE [row EXCEPT !.cancel = TRUE]

CancelJob(j) ==
    /\ ijob[j].status \in Active
    /\ ijob' = [ijob EXCEPT ![j] = CancelRow(@)]
    /\ UNCHANGED <<iworker, irun, pipelineVars, overlapped, disturbed,
                   takeovers, ibudget>>

\* Mutant: the claim of a lost worker is never taken over.
Claimable_NotStale(row) == row.status = "pending" /\ row.due

\* Mutant: the claim does not look at the status.
Claimable_AnyStatus(row) == row.due \/ row.stale

Claimable(row) == \/ row.status = "pending" /\ row.due
                  \/ row.status = "in_progress" /\ row.stale

ClaimedRow(row) == [row EXCEPT !.status = "in_progress", !.stale = FALSE,
                               !.attempts = @ + 1]

Holds(w, j) == j \in iworker[w].batch \/ iworker[w].job = j
Held(j) == \E w \in IngestWorkers : Holds(w, j)

\* SKIP LOCKED: a row another statement is looking at is passed over, so a
\* claim may take fewer rows than are due.
ClaimJobs(w) ==
    /\ iworker[w].at = "idle"
    /\ \E batch \in SUBSET {j \in JobIds : Claimable(ijob[j])} :
         /\ batch # {} /\ Cardinality(batch) <= JobBatch
         /\ LET taken == {j \in batch : ijob[j].status = "in_progress"} IN
              /\ takeovers' = [j \in JobIds |->
                    IF j \in taken THEN takeovers[j] + 1 ELSE takeovers[j]]
              /\ disturbed' = disturbed \cup {j \in taken : Held(j)}
         /\ ijob' = [j \in JobIds |->
                IF j \in batch THEN ClaimedRow(ijob[j]) ELSE ijob[j]]
         /\ iworker' = [iworker EXCEPT ![w].at = "next", ![w].batch = batch]
    /\ UNCHANGED <<irun, pipelineVars, overlapped, ibudget>>

\* Mutant: one attempt too many.
Exhausted_OffByOne(row) == row.attempts > MaxAttempts

\* A terminal attempt, a cancelled job or another try.
Exhausted(row) == row.attempts >= MaxAttempts

FailedRow(row) ==
    IF row.cancel \/ row.status = "cancelled"
    THEN [row EXCEPT !.status = "cancelled"]
    ELSE IF Exhausted(row) THEN [row EXCEPT !.status = "failed"]
    ELSE [row EXCEPT !.status = "pending", !.due = FALSE, !.stale = FALSE]

\* Whether the unique index lets the row of job j change to `row'.
IndexAllows(j, row) == row.status \in Active => ActiveFor(row.content) \subseteq {j}

\* The backoff of a pending job has passed.
ComeDue(j) ==
    /\ ijob[j].status = "pending" /\ ~ijob[j].due
    /\ ijob' = [ijob EXCEPT ![j].due = TRUE]
    /\ UNCHANGED <<iworker, irun, pipelineVars, overlapped, disturbed,
                   takeovers, ibudget>>

\* Nobody has refreshed claimed_at for the length of the claim timeout.
GoStale(j) ==
    /\ ijob[j].status = "in_progress" /\ ~ijob[j].stale
    /\ ijob' = [ijob EXCEPT ![j].stale = TRUE]
    /\ IF Held(j) THEN Spend("late", MaxIngestLate) ELSE UNCHANGED ibudget
    /\ UNCHANGED <<iworker, irun, pipelineVars, overlapped, disturbed, takeovers>>

-----------------------------------------------------------------------------
(* The worker's step: the claimed jobs one after the other.                *)

\* The job is over for this process; the next one of its batch is up.
Proceed(w) ==
    IF iworker[w].batch = {} THEN IdleWorker
    ELSE [IdleWorker EXCEPT !.at = "next", !.batch = iworker[w].batch]

FreeRuns == {r \in Runs : irun[r].at = "free"}

StartJob(w) ==
    /\ iworker[w].at = "next" /\ FreeRuns # {}
    /\ \E j \in iworker[w].batch :
         LET c == ijob[j].content  r == CHOOSE q \in FreeRuns : TRUE IN
         /\ overlapped' = IF \E q \in Runs : irun[q].content = c
                          THEN overlapped \cup {c} ELSE overlapped
         /\ irun' = [irun EXCEPT ![r] = [FreeRun EXCEPT !.at = "gate",
                                           !.owner = w, !.content = c]]
         /\ iworker' = [iworker EXCEPT ![w] = [at |-> "run", job |-> j, run |-> r,
                                                batch |-> iworker[w].batch \ {j}]]
    /\ UNCHANGED <<ijob, pipelineVars, disturbed, takeovers, ibudget>>

\* The configuration is read outside the try block: its failure leaves the
\* job in_progress and drops the rest of the batch.
StartFails(w) ==
    /\ iworker[w].at = "next" /\ Fault
    /\ iworker' = [iworker EXCEPT ![w] = IdleWorker]
    /\ UNCHANGED <<ijob, irun, pipelineVars, overlapped, disturbed, takeovers>>

\* The progress heartbeat refreshes the claim, whoever holds it now, and
\* brings back the request to cancel.
Poll(w) ==
    /\ iworker[w].at = "run"
    /\ LET j == iworker[w].job  r == iworker[w].run IN
         /\ irun[r].at \notin RunOver
         /\ ijob[j].status = "in_progress"
         /\ ijob[j].stale \/ (ijob[j].cancel /\ ~irun[r].cancel)
         /\ ijob' = [ijob EXCEPT ![j].stale = FALSE]
         /\ irun' = [irun EXCEPT ![r].cancel = @ \/ ijob[j].cancel]
    /\ UNCHANGED <<iworker, pipelineVars, overlapped, disturbed, takeovers, ibudget>>

\* A heartbeat that fails ends the wait, not the task: the pipeline goes on
\* while its job is reported as failed.
PollFails(w) ==
    /\ iworker[w].at = "run" /\ Fault
    /\ irun[iworker[w].run].at \notin RunOver
    /\ iworker' = [iworker EXCEPT ![w].at = "fail", ![w].run = Nobody]
    /\ UNCHANGED <<ijob, irun, pipelineVars, overlapped, disturbed, takeovers>>

\* What becomes of the job: no count is too small to complete it.
Outcome(end) == IF end = "returned" THEN "complete"
                ELSE IF end = "unread" THEN "complete_unread" ELSE "fail"

Collect(w) ==
    /\ iworker[w].at = "run"
    /\ LET r == iworker[w].run IN
         /\ irun[r].at \in RunOver
         /\ iworker' = [iworker EXCEPT ![w].run = Nobody, ![w].at = Outcome(irun[r].at)]
         /\ irun' = [irun EXCEPT ![r] = FreeRun]
    /\ UNCHANGED <<ijob, pipelineVars, overlapped, disturbed, takeovers, ibudget>>

Completing == {"complete", "complete_unread"}

\* The result names the document (its title, path and content hash) when the
\* pipeline got as far as having one; otherwise it is a bare count of nothing.
CompletedRow(row, end) == [row EXCEPT !.status = "completed", !.named = (end = "complete")]

CompleteJob(w) ==
    /\ iworker[w].at \in Completing
    /\ ijob' = [ijob EXCEPT ![iworker[w].job] = CompletedRow(@, iworker[w].at)]
    /\ iworker' = [iworker EXCEPT ![w] = Proceed(w)]
    /\ UNCHANGED <<irun, pipelineVars, overlapped, disturbed, takeovers, ibudget>>

\* An error of the completion, committed or not, is handled as a failed job.
CompleteFails(w) ==
    /\ iworker[w].at \in Completing /\ Fault
    /\ \/ UNCHANGED <<ijob, disturbed>>
       \/ /\ ijob' = [ijob EXCEPT ![iworker[w].job] = CompletedRow(@, iworker[w].at)]
          /\ disturbed' = disturbed \cup {iworker[w].job}
    /\ iworker' = [iworker EXCEPT ![w].at = "fail"]
    /\ UNCHANGED <<irun, pipelineVars, overlapped, takeovers>>

FailJob(w) ==
    /\ iworker[w].at = "fail"
    /\ LET j == iworker[w].job IN
         /\ IndexAllows(j, FailedRow(ijob[j]))
         /\ ijob' = [ijob EXCEPT ![j] = FailedRow(@)]
    /\ iworker' = [iworker EXCEPT ![w] = Proceed(w)]
    /\ UNCHANGED <<irun, pipelineVars, overlapped, disturbed, takeovers, ibudget>>

\* A failure that cannot be recorded, because the statement errors or a
\* second active job holds the content, ends the step and drops the batch.
FailJobErrors(w) ==
    /\ iworker[w].at = "fail"
    /\ LET j == iworker[w].job IN
         IF IndexAllows(j, FailedRow(ijob[j])) THEN Fault ELSE UNCHANGED ibudget
    /\ iworker' = [iworker EXCEPT ![w] = IdleWorker]
    /\ UNCHANGED <<ijob, irun, pipelineVars, overlapped, disturbed, takeovers>>

\* The process dies with everything it was running and comes back idle.
CrashWorker(w) ==
    /\ Spend("crash", MaxIngestCrashes)
    /\ iworker' = [iworker EXCEPT ![w] = IdleWorker]
    /\ irun' = [r \in Runs |-> IF irun[r].owner = w THEN FreeRun ELSE irun[r]]
    /\ UNCHANGED <<ijob, pipelineVars, overlapped, disturbed, takeovers>>

-----------------------------------------------------------------------------
(* One execution of the pipeline.                                          *)

\* A run nobody waits for any more is simply gone.
Ended(r, how) ==
    IF \E w \in IngestWorkers : iworker[w].run = r
    THEN [irun EXCEPT ![r].at = how] ELSE [irun EXCEPT ![r] = FreeRun]

\* Mutant: an encounter counts as the whole document at once.
Found_Eager(c) == receipts[c] \cup (IF c \in met THEN {"doc"} ELSE {})

\* The receipts table, or for a document without any the attribution of a
\* memory to the whole document, which an encounter carries too.
Found(c) == IF receipts[c] # {} THEN receipts[c]
            ELSE IF c \in met THEN {"doc"} ELSE {}

\* What a run believes for the rest of its life.
ReadReceipts(r) ==
    /\ irun[r].at = "gate"
    /\ LET c == irun[r].content IN
         IF "doc" \in Found(c)
         THEN /\ irun' = Ended(r, "returned")
              /\ mistaken' = IF receipts[c] = {} THEN mistaken \cup {c} ELSE mistaken
         ELSE /\ irun' = [irun EXCEPT ![r].known = Found(c) \cap Sections, ![r].at =
                    IF "enc" \in Found(c) THEN "check" ELSE "meet"]
              /\ UNCHANGED mistaken
    /\ UNCHANGED <<ijob, iworker, receipts, met, persisted, overlapped,
                   disturbed, takeovers, ibudget>>

CreateEncounter(r) ==
    /\ irun[r].at = "meet"
    /\ met' = met \cup {irun[r].content}
    /\ irun' = [irun EXCEPT ![r].at = "note"]
    /\ UNCHANGED <<ijob, iworker, receipts, persisted, mistaken, overlapped,
                   disturbed, takeovers, ibudget>>

RecordEncounter(r) ==
    /\ irun[r].at = "note"
    /\ receipts' = [receipts EXCEPT ![irun[r].content] = @ \cup {"enc"}]
    /\ irun' = [irun EXCEPT ![r].at = "check"]
    /\ UNCHANGED <<ijob, iworker, met, persisted, mistaken, overlapped,
                   disturbed, takeovers, ibudget>>

\* The looks at the cancel flag: before a file is read, and before the extraction.
CheckCancel(r) ==
    /\ irun[r].at = "check" \/ (irun[r].at = "gate" /\ irun[r].cancel)
    /\ irun' = IF irun[r].cancel THEN Ended(r, "raised")
               ELSE [irun EXCEPT ![r].at = "persist"]
    /\ UNCHANGED <<ijob, iworker, pipelineVars, overlapped, disturbed,
                   takeovers, ibudget>>

\* Mutant: the receipt is not written.
SectionReceipt_Forgotten(c, s) == receipts

\* The memories of a section, if the model found any, and its receipt commit
\* together.
SectionReceipt(c, s) == [receipts EXCEPT ![c] = @ \cup {s}]

PersistSection(r) ==
    /\ irun[r].at = "persist"
    /\ \E s \in Sections \ irun[r].known :
         /\ persisted' = [persisted EXCEPT ![irun[r].content][s] = @ + 1]
         /\ receipts' = SectionReceipt(irun[r].content, s)
         /\ irun' = [irun EXCEPT ![r].known = @ \cup {s}]
    /\ UNCHANGED <<ijob, iworker, met, mistaken, overlapped, disturbed,
                   takeovers, ibudget>>

Sealable(r) == Sections \subseteq irun[r].known

SealDocument(r) ==
    /\ irun[r].at = "persist" /\ Sealable(r)
    /\ receipts' = [receipts EXCEPT ![irun[r].content] = @ \cup {"doc"}]
    /\ irun' = Ended(r, "returned")
    /\ UNCHANGED <<ijob, iworker, met, persisted, mistaken, overlapped,
                   disturbed, takeovers, ibudget>>

\* The file is missing, of a kind nobody reads or unreadable, or the page could
\* not be fetched: the pipeline says so and returns, with no memories.
ReadFails(r) ==
    /\ irun[r].at = "gate" /\ Fault
    /\ irun' = Ended(r, "unread")
    /\ UNCHANGED <<ijob, iworker, pipelineVars, overlapped, disturbed, takeovers>>

\* An artifact that is gone, the reader of a transcript, a PDF or a feed, a
\* model call or a statement raises.
RunFails(r) ==
    /\ irun[r].at \in {"gate", "meet", "note", "check", "persist"} /\ Fault
    /\ irun' = Ended(r, "raised")
    /\ UNCHANGED <<ijob, iworker, pipelineVars, overlapped, disturbed, takeovers>>

-----------------------------------------------------------------------------
WorkerStep(w) == ClaimJobs(w) \/ StartJob(w) \/ Collect(w) \/ CompleteJob(w)
                 \/ FailJob(w) \/ FailJobErrors(w)
RunStep(r) == ReadReceipts(r) \/ CreateEncounter(r) \/ RecordEncounter(r)
              \/ CheckCancel(r) \/ PersistSection(r) \/ SealDocument(r)

IngestNext ==
    \/ \E c \in Contents : EnqueueJob(c)
    \/ \E j \in JobIds : CancelJob(j) \/ ComeDue(j) \/ GoStale(j)
    \/ \E w \in IngestWorkers : \/ WorkerStep(w) \/ StartFails(w) \/ Poll(w)
                                \/ PollFails(w) \/ CompleteFails(w) \/ CrashWorker(w)
    \/ \E r \in Runs : RunStep(r) \/ ReadFails(r) \/ RunFails(r)

\* The maintenance loop ticks for ever, a process that died is restarted,
\* an execution makes progress and the clock runs.
IngestFairness ==
    /\ \A w \in IngestWorkers : WF_ingestVars(WorkerStep(w))
    /\ \A r \in Runs : WF_ingestVars(RunStep(r))
    /\ \A j \in JobIds : WF_ingestVars(ComeDue(j)) /\ WF_ingestVars(GoStale(j))

IngestSpec == IngestInit /\ [][IngestNext]_ingestVars /\ IngestFairness

-----------------------------------------------------------------------------
JobRow == [status : Active \cup Finished \cup {"none"}, content : Contents \cup {Nobody},
           cancel : BOOLEAN, attempts : Nat, due : BOOLEAN, stale : BOOLEAN,
           named : BOOLEAN]
WorkerState == [at : {"idle", "next", "run", "fail"} \cup Completing, batch : SUBSET JobIds,
                job : JobIds \cup {Nobody}, run : Runs \cup {Nobody}]
RunState == [at : {"free", "gate", "meet", "note", "check", "persist"} \cup RunOver,
             owner : IngestWorkers \cup {Nobody}, content : Contents \cup {Nobody},
             cancel : BOOLEAN, known : SUBSET Sections]

IngestTypeOK ==
    /\ ijob \in [JobIds -> JobRow]
    /\ iworker \in [IngestWorkers -> WorkerState]
    /\ irun \in [Runs -> RunState]
    /\ receipts \in [Contents -> SUBSET (Sections \cup {"enc", "doc"})]
    /\ met \subseteq Contents /\ mistaken \subseteq Contents
    /\ persisted \in [Contents -> [Sections -> Nat]]
    /\ overlapped \subseteq Contents /\ disturbed \subseteq JobIds
    /\ takeovers \in [JobIds -> Nat]
    /\ ibudget \in [fault : 0..MaxIngestFaults, crash : 0..MaxIngestCrashes,
                    late : 0..MaxIngestLate]

\* Whatever late workers report, a document never has two active jobs.
OneActiveJob == \A j, k \in JobIds :
    /\ ijob[j].status \in Active /\ ijob[k].status \in Active
    /\ ijob[j].content = ijob[k].content
    => j = k

\* Only a claim that timed out buys an attempt beyond the maximum: crashes
\* and late workers included, a job is not tried more often than that.
AttemptsBounded == \A j \in JobIds :
    ijob[j].attempts <= MaxAttempts + takeovers[j]

\* A receipt is never ahead of the work it stands for: a section that has
\* one was persisted, and a document that has one has all its sections.
ReceiptsHonest == \A c \in Contents :
    /\ \A s \in Sections \cap receipts[c] : persisted[c][s] > 0
    /\ "doc" \in receipts[c] => Sections \subseteq receipts[c]

\* Crashes, failures, retries and takeovers write the memories of a section
\* once, unless two executions on its document overlapped.
PersistedOnce == \A c \in Contents \ overlapped : \A s \in Sections :
    persisted[c][s] <= 1

\* A job whose result names a document stands for a document that was read to
\* the end, unless an encounter without a receipt was taken for one: neither a
\* source that could not be read nor a late completion claims to have read it.
NamedIsRead == \A j \in JobIds :
    ijob[j].named /\ ijob[j].content \notin mistaken
        => Sections \subseteq receipts[ijob[j].content]

\* What the guide says of the job list (docs/guides/ingestion.md), that it shows
\* what ran and what failed: a completed job has read its document.
FailuresShow == \A j \in JobIds : ijob[j].status = "completed" => ijob[j].named

\* What db/72 says of the fallback: an encounter never makes the document
\* of a completed job go unread.
CrashResumes == \A j \in JobIds :
    ijob[j].status = "completed" => Sections \subseteq receipts[ijob[j].content]

\* A finished job stays as it is, unless it was taken from a living process
\* or its completion was reported as an error.  Even then a job that failed for
\* good or was cancelled does not come back: a late worker can complete it, and
\* no failure reported late puts it in the queue again.
FinishedStays == [][\A j \in JobIds :
    /\ ijob[j].status \in Finished /\ j \notin disturbed' => ijob'[j].status = ijob[j].status
    /\ ijob[j].status \in {"failed", "cancelled"} => ijob'[j].status \in Finished]_ingestVars

\* Every job that was enqueued is finished at last, for good.
JobsSettle == <>[](\A j \in JobIds : ijob[j].status \notin Active)
=============================================================================
