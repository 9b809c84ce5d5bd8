------------------------------ MODULE Backfill ------------------------------
(***************************************************************************)
(* Historical import from a connected account: the jobs of one connection  *)
(* and cursor key (connector_backfill_jobs), its sync cursor and the       *)
(* workers that fetch pages from the provider and store their messages.    *)
(* A requested range is a list of pages.  A live range is read with the    *)
(* provider's page tokens, which the cursor carries from job to job: token *)
(* k, not 0, asks for page k + 1, and 0 stands for no token.  An export is *)
(* a local file, read from its beginning.                                  *)
(***************************************************************************)
EXTENDS Integers, FiniteSets

CONSTANTS
    Live,              \* ranges read from the provider
    Exports,           \* ranges read from a local export
    Pages,             \* pages of every range
    Cap,               \* max_messages, in pages
    BackfillIds,       \* rows; a finished row nobody holds is used again
    Importers,         \* worker processes
    NoOne,             \* no job, no range
    MaxTries,          \* max_attempts
    MaxBackfillFaults, \* failing requests and statements
    MaxBackfillCrashes,
    MaxBackfillLate,   \* claims that time out under a living process
    MaxRequests,       \* pauses and cancellations by the user
    MaxAsks,           \* imports the user starts
    MaxTrouble         \* faults, crashes, late claims and requests together

Ranges == Live \cup Exports
PageNos == 1..Pages

ASSUME BackfillAssumption ==
    /\ Pages \in Nat \ {0} /\ Cap \in Nat \ {0} /\ MaxTries \in Nat \ {0}
    /\ {MaxBackfillFaults, MaxBackfillCrashes, MaxBackfillLate,
        MaxRequests, MaxAsks, MaxTrouble} \subseteq Nat
    /\ NoOne \notin Live \cup Exports \cup BackfillIds
    /\ Live \cap Exports = {}

VARIABLES
    backfill,   \* connector_backfill_jobs
    cursor,     \* cursor_value: the page token and the range it belongs to
    importer,   \* the processes
    stored,     \* pages of a range whose messages are all stored
    asked,      \* history: ranges a job was created for
    astray,     \* history: live ranges begun at another range's token
    stopped,    \* history: ranges with a job that was paused, cancelled or failed
    bfBudget    \* faults, crashes, late claims and requests so far

backfillVars == <<backfill, cursor, importer, stored, asked, astray, stopped, bfBudget>>
importVars == <<cursor, importer, stored, astray>>

Open == {"pending", "in_progress", "paused"}
Over == {"completed", "failed", "cancelled"}

EmptyRow == [status |-> "none", range |-> NoOne, cancel |-> FALSE, pause |-> FALSE,
             tries |-> 0, due |-> FALSE, stale |-> FALSE, truncated |-> FALSE]
Waiting == [at |-> "idle", job |-> NoOne, token |-> 0, seen |-> 0]

BackfillInit ==
    /\ backfill = [j \in BackfillIds |-> EmptyRow]
    /\ cursor = [token |-> 0, range |-> NoOne]
    /\ importer = [w \in Importers |-> Waiting]
    /\ stored = [r \in Ranges |-> {}]
    /\ asked = {} /\ astray = {} /\ stopped = {}
    /\ bfBudget = [fault |-> 0, crash |-> 0, late |-> 0, request |-> 0, ask |-> 0]

Charge(kind, bound) ==
    /\ bfBudget[kind] < bound
    /\ bfBudget.fault + bfBudget.crash + bfBudget.late + bfBudget.request < MaxTrouble
    /\ bfBudget' = [bfBudget EXCEPT ![kind] = @ + 1]
Trouble == Charge("fault", MaxBackfillFaults)

-----------------------------------------------------------------------------
(* The jobs.                                                               *)

OpenJobs == {j \in BackfillIds : backfill[j].status \in Open}
Working(j) == \E w \in Importers : importer[w].job = j
SpareRows == {j \in BackfillIds : backfill[j].status \notin Open /\ ~Working(j)}

NewRow(range) == [EmptyRow EXCEPT !.status = "pending", !.range = range, !.due = TRUE]

\* One open job per connection and cursor key, whatever range it was asked
\* for: the caller gets that one.
EnqueueBackfill(range) ==
    /\ OpenJobs = {} /\ SpareRows # {}
    /\ backfill' = [backfill EXCEPT ![CHOOSE j \in SpareRows : TRUE] = NewRow(range)]
    /\ asked' = asked \cup {range}
    /\ bfBudget.ask < MaxAsks
    /\ bfBudget' = [bfBudget EXCEPT !.ask = @ + 1]
    /\ UNCHANGED <<importVars, stopped>>

Halt(j) == stopped' = stopped \cup {backfill[j].range}

PauseBackfill(j) ==
    /\ backfill[j].status \in {"pending", "in_progress"} /\ ~backfill[j].pause
    /\ Charge("request", MaxRequests)
    /\ backfill' = [backfill EXCEPT ![j].pause = TRUE, ![j].status =
          IF @ = "pending" THEN "paused" ELSE @]
    /\ Halt(j)
    /\ UNCHANGED <<importVars, asked>>

\* A job in progress cannot be resumed, not even when nobody works on it.
ResumeBackfill(j) ==
    /\ backfill[j].status = "paused" \/ (backfill[j].status = "pending" /\ ~backfill[j].due)
    /\ backfill' = [backfill EXCEPT ![j].status = "pending", ![j].pause = FALSE,
                                    ![j].due = TRUE]
    /\ UNCHANGED <<importVars, asked, stopped, bfBudget>>

CancelBackfill(j) ==
    /\ backfill[j].status \in Open /\ ~backfill[j].cancel
    /\ Charge("request", MaxRequests)
    /\ backfill' = [backfill EXCEPT ![j].cancel = TRUE, ![j].status =
          IF @ = "in_progress" THEN @ ELSE "cancelled"]
    /\ Halt(j)
    /\ UNCHANGED <<importVars, asked>>

\* Mutant: the job of a lost worker is never taken over.
Takeable_PendingOnly(row) == row.status = "pending" /\ row.due

Takeable(row) ==
    /\ ~row.cancel /\ ~row.pause
    /\ \/ row.status = "pending" /\ row.due
       \/ row.status = "in_progress" /\ row.stale

BackfillDue(j) ==
    /\ backfill[j].status = "pending" /\ ~backfill[j].due
    /\ backfill' = [backfill EXCEPT ![j].due = TRUE]
    /\ UNCHANGED <<importVars, asked, stopped, bfBudget>>

BackfillStale(j) ==
    /\ backfill[j].status = "in_progress" /\ ~backfill[j].stale
    /\ backfill' = [backfill EXCEPT ![j].stale = TRUE]
    /\ IF Working(j) THEN Charge("late", MaxBackfillLate) ELSE UNCHANGED bfBudget
    /\ UNCHANGED <<importVars, asked, stopped>>

-----------------------------------------------------------------------------
(* The workers.                                                            *)

\* The claim and, in the statement after it, the read of the cursor.
ClaimBackfill(w) ==
    /\ importer[w].at = "idle"
    /\ \E j \in BackfillIds :
         /\ Takeable(backfill[j])
         /\ backfill' = [backfill EXCEPT ![j].status = "in_progress",
                            ![j].stale = FALSE, ![j].tries = @ + 1]
         /\ importer' = [importer EXCEPT ![w] = [Waiting EXCEPT !.at = "load", !.job = j]]
    /\ UNCHANGED <<cursor, stored, asked, astray, stopped, bfBudget>>

\* The token is taken whatever range it came from; an export has no use for it.
LoadCursor(w) ==
    /\ importer[w].at = "load"
    /\ LET range == backfill[importer[w].job].range
           token == IF range \in Live THEN cursor.token ELSE 0 IN
         /\ importer' = [importer EXCEPT ![w].at = "list", ![w].token = token]
         /\ astray' = IF token > 0 /\ cursor.range # range
                      THEN astray \cup {range} ELSE astray
    /\ UNCHANGED <<backfill, cursor, stored, asked, stopped, bfBudget>>

\* Mutant: the token runs past the last page.
NextToken_Endless(page) == IF page >= Pages THEN page + 1 ELSE page

\* Mutant: the token points one page too far.
NextToken_Ahead(page) == IF page + 1 >= Pages THEN 0 ELSE page + 1

NextToken(page) == IF page >= Pages THEN 0 ELSE page

\* One page is listed and its messages stored one by one.
StorePage(w) ==
    /\ importer[w].at = "list"
    /\ LET page == importer[w].token + 1 IN
         /\ stored' = [stored EXCEPT ![backfill[importer[w].job].range] = @ \cup {page}]
         /\ importer' = [importer EXCEPT ![w].at = "report",
                            ![w].token = NextToken(page), ![w].seen = @ + 1]
    /\ UNCHANGED <<backfill, cursor, asked, astray, stopped, bfBudget>>

\* The cursor's token after this run's progress: an export writes none.
SavedCursor(w) ==
    LET range == backfill[importer[w].job].range IN
    [token |-> IF range \in Live THEN importer[w].token ELSE 0, range |-> range]

ReportProgress(w) ==
    /\ importer[w].at = "report"
    /\ LET j == importer[w].job IN
         /\ backfill' = [backfill EXCEPT ![j].stale =
                IF backfill[j].status = "in_progress" THEN FALSE ELSE @]
         /\ cursor' = SavedCursor(w)
         /\ importer' = [importer EXCEPT ![w].at =
                IF backfill[j].cancel \/ backfill[j].pause THEN "fail"
                ELSE IF importer[w].token = 0 \/ importer[w].seen >= Cap
                THEN "complete" ELSE "list"]
    /\ UNCHANGED <<stored, asked, astray, stopped, bfBudget>>

Truncated(w) == importer[w].token > 0

\* Mutant: a truncated job has no successor.
Successor_None(j, rows) == rows

\* A truncated job is completed and, unless another is open, succeeded by
\* one for the same range.
Successor(j, rows) ==
    IF \E k \in BackfillIds : rows[k].status \in Open THEN rows
    ELSE [rows EXCEPT ![CHOOSE k \in SpareRows : TRUE] = NewRow(backfill[j].range)]

CompletedRows(w) ==
    LET j == importer[w].job
        rows == [backfill EXCEPT ![j].status = "completed", ![j].truncated = Truncated(w)] IN
    IF Truncated(w) THEN Successor(j, rows) ELSE rows

CompleteBackfill(w) ==
    /\ importer[w].at = "complete"
    /\ Truncated(w) => SpareRows # {}
    /\ cursor' = SavedCursor(w)
    /\ backfill' = CompletedRows(w)
    /\ importer' = [importer EXCEPT ![w] = Waiting]
    /\ UNCHANGED <<stored, asked, astray, stopped, bfBudget>>

\* The statement fails, or commits and its reply is lost: both are failures.
CompletionErrors(w) ==
    /\ importer[w].at = "complete" /\ Trouble
    /\ \/ UNCHANGED <<backfill, cursor>>
       \/ /\ Truncated(w) => SpareRows # {}
          /\ cursor' = SavedCursor(w) /\ backfill' = CompletedRows(w)
    /\ importer' = [importer EXCEPT ![w].at = "fail"]
    /\ UNCHANGED <<stored, asked, astray, stopped>>

ImportFails(w) ==
    /\ importer[w].at \in {"load", "list", "report"} /\ Trouble
    /\ importer' = [importer EXCEPT ![w].at = "fail"]
    /\ UNCHANGED <<backfill, cursor, stored, asked, astray, stopped>>

AfterFailure(row) ==
    IF row.cancel \/ row.status = "cancelled" THEN [row EXCEPT !.status = "cancelled"]
    ELSE IF row.pause \/ row.status = "paused" THEN [row EXCEPT !.status = "paused"]
    ELSE IF row.tries >= MaxTries THEN [row EXCEPT !.status = "failed"]
    ELSE [row EXCEPT !.status = "pending", !.due = FALSE, !.stale = FALSE]

\* The partial unique index on connection and cursor key.
KeyFree(j, row) == row.status \in Open => OpenJobs \subseteq {j}

FailBackfill(w) ==
    /\ importer[w].at = "fail"
    /\ LET j == importer[w].job  row == AfterFailure(backfill[j]) IN
         /\ KeyFree(j, row)
         /\ backfill' = [backfill EXCEPT ![j] = row]
         /\ stopped' = IF row.status = "pending" THEN stopped
                       ELSE stopped \cup {row.range}
    /\ importer' = [importer EXCEPT ![w] = Waiting]
    /\ UNCHANGED <<cursor, stored, asked, astray, bfBudget>>

\* The failure cannot be recorded: the row stays as it is.
FailureLost(w) ==
    /\ importer[w].at = "fail"
    /\ LET j == importer[w].job IN
         IF KeyFree(j, AfterFailure(backfill[j])) THEN Trouble ELSE UNCHANGED bfBudget
    /\ importer' = [importer EXCEPT ![w] = Waiting]
    /\ UNCHANGED <<backfill, cursor, stored, asked, astray, stopped>>

CrashImporter(w) ==
    /\ importer[w].at # "idle" /\ Charge("crash", MaxBackfillCrashes)
    /\ importer' = [importer EXCEPT ![w] = Waiting]
    /\ UNCHANGED <<backfill, cursor, stored, asked, astray, stopped>>

-----------------------------------------------------------------------------
ImportStep(w) == ClaimBackfill(w) \/ LoadCursor(w) \/ StorePage(w) \/ ReportProgress(w)
                 \/ CompleteBackfill(w) \/ FailBackfill(w) \/ FailureLost(w)

BackfillNext ==
    \/ \E range \in Ranges : EnqueueBackfill(range)
    \/ \E j \in BackfillIds : \/ PauseBackfill(j) \/ ResumeBackfill(j)
                              \/ CancelBackfill(j) \/ BackfillDue(j) \/ BackfillStale(j)
    \/ \E w \in Importers : \/ ImportStep(w) \/ CompletionErrors(w)
                            \/ ImportFails(w) \/ CrashImporter(w)

\* The maintenance loop ticks for ever, requests are answered or fail, and
\* the clock runs.  The user is not obliged to anything.
BackfillFairness ==
    /\ \A w \in Importers : WF_backfillVars(ImportStep(w))
    /\ \A j \in BackfillIds : /\ WF_backfillVars(BackfillDue(j))
                              /\ WF_backfillVars(BackfillStale(j))

BackfillSpec == BackfillInit /\ [][BackfillNext]_backfillVars /\ BackfillFairness

-----------------------------------------------------------------------------
BackfillTypeOK ==
    /\ backfill \in [BackfillIds -> [status : Open \cup Over \cup {"none"},
            range : Ranges \cup {NoOne}, cancel : BOOLEAN, pause : BOOLEAN,
            tries : Nat, due : BOOLEAN, stale : BOOLEAN, truncated : BOOLEAN]]
    /\ cursor \in [token : 0..Pages, range : Ranges \cup {NoOne}]
    /\ importer \in [Importers -> [at : {"idle", "load", "list", "report", "complete", "fail"},
            job : BackfillIds \cup {NoOne}, token : 0..Pages, seen : Nat]]
    /\ stored \in [Ranges -> SUBSET PageNos]
    /\ asked \subseteq Ranges /\ astray \subseteq Ranges /\ stopped \subseteq Ranges
    /\ bfBudget \in [fault : 0..MaxBackfillFaults, crash : 0..MaxBackfillCrashes,
                     late : 0..MaxBackfillLate, request : 0..MaxRequests, ask : 0..MaxAsks]

\* The cursor never points past a page that was not stored: a job that
\* crashes, is paused or is overtaken by a late one is resumed without a gap.
\* Only a token that came from another range can be wrong.
CursorCovered == cursor.range \notin astray =>
    \A page \in 1..cursor.token : page \in stored[cursor.range]

\* A job that ended with nothing left to fetch has stored its whole range.
FinishedIsWhole == \A j \in BackfillIds :
    /\ backfill[j].status = "completed" /\ ~backfill[j].truncated
    /\ backfill[j].range \notin astray
    => PageNos \subseteq stored[backfill[j].range]

\* No page is left out, neither behind the cursor nor by a job that is over.
NoPageSkipped == CursorCovered /\ FinishedIsWhole

\* The worker of a job in progress died after a stop was asked for: claims
\* pass it over, it cannot be resumed and it keeps the key.
Stranded(j) == /\ backfill[j].status = "in_progress" /\ ~Working(j)
               /\ backfill[j].cancel \/ backfill[j].pause

\* Every live range that is asked for is stored whole by a chain of capped
\* jobs, unless one of them was stopped or began at another range's token.
LiveRangesArrive == <>[](\A r \in Live :
    r \in asked \ (stopped \cup astray) => PageNos \subseteq stored[r])

\* The same of an export.
ExportsArrive == <>[](\A r \in Exports :
    r \in asked \ stopped => PageNos \subseteq stored[r])

\* No job is left in progress for ever, except a stranded one.
NoJobLingers == \A j \in BackfillIds :
    []<>(backfill[j].status # "in_progress" \/ Stranded(j))
=============================================================================
