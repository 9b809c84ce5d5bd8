# Hexis: models and proofs of its asynchronous core

Hexis keeps an agent's mind in PostgreSQL. plpgsql functions (`db/*.sql`) own
the state; Python processes (`services/`, `core/`, `channels/`, `apps/`) poll
the database, call language models and messaging platforms, and write results
back. Almost nothing in it runs alone: a heartbeat timer, a gateway consumer,
maintenance sweeps, channel adapters, companion nodes, the HTTP API and the CLI
all work on the same rows. This directory models the parts where their steps
interleave, checks them with TLC and proves the central invariants with TLAPS.

## Inventory

| Component | State | Operations | What is hard |
|---|---|---|---|
| Gateway event queue (`core/gateway.py`, `db/28a`) | `gateway_events` | submit, record, dequeue, complete, fail, reclaim, cleanup; the consumer loop | crashes between claim and settlement, reclaimed events whose handler is still at work, lost replies |
| Heartbeat cycle and economy (`db/07`, `11`, `13`, `17`, `42a`, `43`, `86a`; `services/worker_service.py`, `heartbeat_agentic.py`, `heartbeat_runner.py`; manual run in `apps/hexis_api.py`) | `heartbeat_state` (a view over one JSON row), `heartbeat_outcomes`, `heartbeat_economy_state` | start, submit, run (agentic or JSON path), charge, recap, release, pause, spend | whole-row writes from stale snapshots, check and act in different statements, a claim nobody may release, reruns |
| Database outbox (`db/42`, `MaintenanceWorker`) and web inbox (`db/76`) | `outbox_messages`, `web_inbox` | queue, claim, publish, requeue | crash between publish and mark, overlapping claims after 120 s, order of a batch |
| RabbitMQ bridge (`core/rabbitmq_bridge.py`) and channel outbox consumer (`channels/outbox.py`) | broker queues | publish, poll, send | a message taken without acknowledgement, a timeout after the broker has accepted |
| Delivery obligations (`db/89`) | `channel_delivery_obligations` | upsert, claim, delivered, failed, recover, abandon | duplicate sends, the attempt budget, late answers |
| Operator approval (`db/43_functions_operator_approval.sql`, `services/operator_approval.py`) | `operator_tool_approval_requests` | create, decide, expire, consume, escalate | a decision racing expiry, exact-once consumption, a bare "yes" whose request changes under it, escalation without an owner |
| Outbound safety (`db/86b`, `services/outbound_safety.py`) | controls, budgets, strain, the ledger `outbound_events` | authorize, reserve, finalize, refund, STOP and START, suspend | a STOP racing a send, one message reserved twice, refunds of refunds, points below zero |
| Ingestion jobs and pipeline (`db/72`, `73`, `66`, `services/ingest`) | `ingestion_jobs`, `ingestion_receipts`, memories | enqueue, claim, progress, complete, fail, cancel; the writes of one run | stale workers, cancellation against completion, what a retry takes for already done |
| Connector backfill (`db/79`, `services/gmail_backfill.py`, `channel_backfill.py`) | `connector_backfill_jobs`, sync cursors | request, claim, page, complete with successor, fail, pause, cancel | cursor against crash, successors, ranges that inherit another's cursor |
| Scheduling (`db/19`, `db/36`, `run_scheduled_tasks`) | `scheduled_tasks` | due, run, recompute, edit | missed and repeated runs, an edit between read and write |
| Nodes (`db/88a`, `services/node_gateway.py`, `core/node_daemon.py`) | `hexis_nodes`, pairing requests, `node_invocations` | pair, connect, invoke, answer, expire, revoke | late answers, reconnects, two processes with one identity |
| Protected replacement (`db/53`-`55`, `core/protected_replacement.py`) | sections, requests, audit rows with snapshots | propose, acknowledge, override, import, revert, list | state edited between check and write, two lock orders, a window that lapses |
| Worker runtime (`db/88`) | `worker_runs` | seen, start, complete, fail, recover | interrupted runs, restart storms |
| Agent turns (`db/37`, `core/agent_loop.py`), chat sessions (`db/78`) | turns, events | start, step, tool call, end | timeouts and cancellation |
| Connector actions (`db/80`) and claims in prose (`db/58`) | policies, audit | check, record; flag unsupported claims | a daily limit counted from an audit that is written after the act |
| Memory (recall, embeddings, RecMem, beliefs, retention, reconsolidation) | memories, graph | mostly single statements over vectors and text | numeric thresholds, model output |
| CLI, TUI, UI, plugins, skills, evals, migrations | files, screens | I/O | outside this kind of model |

How they interact: `run_heartbeat()` takes the claim, the timer submits its
payload to the gateway, the consumer in the same process runs it and releases
the claim; handlers and sweeps queue outbox messages; the maintenance worker
moves them to the web inbox and the broker; the channel worker turns each into
delivery obligations and sends it. A tool call in a beat or a chat passes the
policy check, which may wait for the operator, and if it writes to another
person, the outbound safety; a tool on a companion node waits for that node's
answer. The maintenance worker also runs ingestion jobs, imports and scheduled
tasks, whose messages go back into the outbox.

## Modules

| Module | Models |
|---|---|
| `EventQueue` | what the gateway promises: at-least-once events |
| `Gateway` | table `gateway_events`, its SQL functions, the consumer loop |
| `Pulse` | what the heartbeat promises: one beat at a time |
| `Heartbeat` | start, submission, run, charge and release of beats; other writers of `heartbeat_state`; uses `EventQueue` for the gateway |
| `Handover` | what each hop of the message relay promises: nothing is called done before it was handed over, and done is final |
| `Outbox` | `outbox_messages`, `web_inbox`, the maintenance worker's delivery and the publishing side of the RabbitMQ bridge |
| `Delivery` | the fetching side of the bridge, the channel outbox consumer and its ledger of obligations |
| `Consent` | what asking the operator promises: one answer per request, run at most once and only on a yes |
| `Approval` | approval requests, waiters, both deadlines, Slack letters, texts, escalation loops, consumption by the policy check |
| `Outbound` | controls, budgets, strain and reservations for messages to one person |
| `Ingest` | the queue of ingestion jobs, its workers, and the writes and receipts of one run of the pipeline |
| `Backfill` | import jobs of one connection, the sync cursor, the loops that read pages |
| `Schedule` | scheduled tasks, the statement that runs what is due, the recomputation of cron tasks, the user's edits |
| `Nodes` | pairing, connections, invocations and revocation, from both ends |
| `Replacement` | the replacement of a protected section of the self: requests, answers, overrides, the write and its reversion |
| `GatewayProofs`, `HeartbeatProofs`, `DeliveryProofs`, `IngestProofs`, `NodesProofs` | theorems about the module each is named after |
| `ActsProofs` | theorems about `Approval` and `Outbound` |
| `RowsProofs` | theorems about `Outbox` and `Replacement` |
| `WorkProofs` | theorems about `Schedule`, `Backfill` and the model `MCWork` made of them, `Ingest` and `Nodes` |
| `MCGateway`, `MCDelivery`, `MCActs`, `MCWork`, `MCRows` | models for TLC that run one of several components per behaviour, chosen in the initial state |
| `MCHeartbeat`, `MCStop`, `MCIngest`, `MCBackfill`, `MCNodes` | instances of one component for TLC |

An operator named `Action_Something` below a `\* Mutant:` comment is the form an
action would have with a plausible mistake in it. `PROJECT.json` pairs each with
the property that catches it; the specifications never use them.

### How the models correspond to the code

**Grain.** One action is one SQL statement, one HTTP request or one call of a
handler or adapter: whatever the database or the broker makes atomic. What a
Python process remembers between two of these is a variable of its own, and
the process may die between any two. A call that fails is an action of its own
with both outcomes: the statement did not run, or it ran and the reply was
lost. Time is never a number, except in `Schedule`. Each timeout in the code compares a column with
`now()`; the model keeps the set of rows for which the comparison has become
true (`stale`, `due`, `late`), and an action puts a row there at any moment.

**Gateway.** `status`, `started` and `stale` are the columns of
`gateway_events`; `pc`, `held` are a consumer's place in `run()` and the event
in its hand. `token`, `claims`, `reclaims` and `returned` are history for the
properties. `Settleable` is the table's constraint `valid_completed`: a row
whose `started_at` a reclaim has cleared cannot get a `completed_at`, so the
UPDATE of a late handler raises, which is the only thing that stops it.
`gateway_cleanup` has no caller in production and is modelled as an operator's
action.

**Heartbeat.** `heartbeat_state` is a view over one JSON row. An UPDATE on it
computes the whole new row from the snapshot of its statement, and an INSTEAD
OF trigger writes it back (`db/07:684-709`). Each such statement is therefore two
actions, `Open...` (snapshot) and `Commit...` (write), with other sessions in
between. `Locked` and `CanWrite` are the `FOR UPDATE` of
`finalize_heartbeat_economy` against the release trigger of the table, and
`StatementFails` lets PostgreSQL break the deadlock the two lock orders can
form. A session is a database connection: the worker's timer, its gateway
consumer (one process, `Crash` takes both), manual requests of the API
(`Manuals`) and everybody else who writes the row (`Writers`: chat, channels,
CLI, maintenance). The advisory lock of `run_heartbeat` needs no variable:
there is one timer, and the manual endpoint does not take it.

**Outbox.** `status`, `created` and `stale` are columns; `at`, `batch` and
`done` follow `_run_outbox_delivery` from the claim through the copy to the web
inbox, `channel_adapters_active`, the publishes and the two settling
statements. `accepted` remembers what the broker ever took. A claim takes the
oldest rows by `created_at`, whose default is the start of the inserting
transaction (`db/42:16`). The model gives a row its rank when it becomes visible
(`NextRank`), so order here is the order of commits; a message whose transaction
began early and committed late may carry an older time than one already claimed.

**Delivery.** The ledger's rows are pairs of envelope and target, as the
obligation key is built. `at` follows one poll: recovery, rescue of what it
claimed, fetch, and per envelope the routing, upsert, claim, send and mark.
`inhand`, `left`, `rescued`, `marked`, `work` and `tracked` are local variables
of that poll and die with the process; `copies` counts what platforms accepted.
The two CTEs of the recovery see the same snapshot, and a row that both would
update is updated by one of them, which one PostgreSQL leaves open: `Recover`
chooses. Every database helper of this class swallows its exception and lets
the send go on; `Attempted` and `Swallowed` say so.

**Approval.** A call and its request have the same number; requests are in
order of creation because a bare "yes" goes to the newest open one. `call` is
the place of the waiting coroutine in `authorize_operator_tool` and of the tool
execution behind it; `plain` remembers what a bare decision counted before it
decides, since counting and deciding are two statements. `late` is
`expires_at`; the waiter's own deadline runs on another clock and may pass at
any poll. An escalation loop claims a batch, sends one message at a time and
marks each; a loop that dies leaves rows `escalating`, which a later sweep
takes back.

**Outbound.** One person, several addresses. `Resolve` is
`resolve_outbound_entity`: the contacts row that lists the address, or the
address itself. A sender resolves, is authorized (controls, reuse of an open
reservation, budget) in one statement, sends, and finalizes in another.
`points` may become negative (a charge is taken although it exceeds what is
there when the purpose is urgent), and `strain` has to cover that debt.

**Ingest.** `ijob` is the table, `iworker` a maintenance process with the batch
it claimed, `irun` an execution of the pipeline, which may outlive its claim.
`receipts` has the three kinds of rows the resume logic reads: the encounter
(`"enc"`), one per section, and the document (`"doc"`). `met` is the encounter
memory, which exists before its receipt does. An execution ends in one of three
ways. It has read to the end, or found the document's receipt (`"returned"`). It
raised (`"raised"`): a model call, a statement, a reader of PDFs, feeds or transcripts
that lets its exception through, an artifact that is gone, a cancellation, which is
looked at before a file is read and before the extraction. Or it returned 0
because there was no document (`"unread"`, action `ReadFails`): the file is missing,
of an unsupported kind, its reader raised (`pipeline.py:178-214`), or neither page
nor feed could be fetched (`417-421`). `_process_job` tells only exceptions
from returns, so the third completes the job as the first does; all that differs
is the result, which names the document or is a bare count (`named`).
`complete_ingestion_job` and `fail_ingestion_job` look neither at status nor
owner; the model writes what they write.

**Backfill.** A range is a list of pages; `cursor` is the page token the
connector row carries and the range it was left by. `stored` says which pages
are fully stored; the upsert makes repeated messages harmless, so a page read
twice is no violation and a page skipped is one.

**Schedule.** The three kinds of schedules are numbers on a small clock;
`NextRun` is `compute_next_run_at` up to calendars. Reading the cron tasks and
writing their next run are two statements, with the user's edits in between.

**Nodes.** A `session` is one websocket with its handler in the gateway, a
`daemon` a process of `hexis node run`, and an `asker` a tool execution that
waits for an invocation. The link is up while the daemon has the session as its
own; either end may notice its loss first. `fresh` is the 30 seconds within
which a second connection is refused.

**Replacement.** A section (worldview, relationships, ...) is a set of records,
and equal digests are equal sets; an import brings one section. `verdict`,
`file`, `base`, `undo` and `kept` are columns of `hmx_pending_replacements` and
of its audit row; `"draft"` is a row whose INSERT has not committed. `gate` is
the advisory lock of `core/protected_replacement.py`, `rowLock` the `FOR UPDATE`
on request rows, and `tx[a].at` is the place of a transaction in
`import_authoritative_hmx`, `acknowledge_protected_replacement`,
`execute_protected_replacement` or `revert_protected_replacement`. All run at
READ COMMITTED, so a section that heartbeats and chats edit without any of
these locks may change between any two exports; the snapshot, the write and
the last comparison see what is there then. `missed` remembers who compared
before an edit and has not written since, `slipped` which requests were executed
that way. An export of a section, and a write of it, is one step.
`overdue` and `ripe` say that a timeout or a reversion window has passed.
`Rollback` undoes what a transaction wrote, and `DeadlockDetected` is
PostgreSQL's, between an acceptance (row, then gate) and an import (gate, then
row).

## Checks

Distinct states are those TLC reports for the configuration in this directory.

| Run | Instance | What it shows |
|---|---|---|
| `gateway` | 2 consumers, 2 events; a crash, a lost reply, a slow handler. Or the heartbeat worker alone, 3 beats, 2 failing calls (103,089 states) | two consumers share an event only after a reclaim; claims minus reclaims stays 0 or 1 as the row's status says; the table implements `EventQueue`; what was stranded in `processing` is settled if processes keep restarting; the lone heartbeat implements `Pulse`, and without failures every beat ends and gives up its claim |
| `hb_crowd` | worker, manual run, background writer; 2 beats; a crash, a failing call, a lost client, a write (4,912,237 states) | the economy charges no beat twice, and none before its outcome is final |
| `delivery` | the first hop with 2 workers, 2 messages and a note, and two of: the note, a crash, a failing publish. Or the second with an envelope and its copy, up to 2 targets, 2 attempts, a crash, a failing statement, a failing send (1,037,382 states) | both hops implement `Handover`; no uncounted copy; delivered is final; every obligation ends delivered or abandoned |
| `rows` | the first hop with 1 worker, batches of 2 and adapters that come and go: 3 messages with one fault, or 2 with one of each kind. Or 1 replacement, 2 agents, an edit and an interruption; or 2 replacements and 1 agent undisturbed (120,432 states) | published is visible; order of first publication; every queued message is published in the end; only the state a request names is erased, a snapshot fits its audit, decisions are final, no transaction stays open |
| `acts` | 2 protected calls with one fault, or 1 call with two. Or 2 senders, 2 addresses of one person, 3 kinds of message, one fault, one STOP (1,164,565 states) | the exchange with the operator implements `Consent`, every wait and every escalation ends; whoever sends to a barred entity was past the controls when the bar came; one open reservation per message; debt is covered by strain; nothing is paid back twice |
| `work` | 1 document and 2 workers with two troubles, or with one and cancellations, or 2 documents in one batch with one; 1 import of 3 pages with two troubles, or 2 imports with one; 3 scheduled tasks of each kind with an edit and a fault; 1 node and its invocation, or 2 daemons of one identity, each with one trouble (618,399 states) | a section's memories are written once, a job whose result names its document has read it, attempts are bounded by claims, a finished job stays finished, every job settles; no page is skipped, every live range arrives; a task speaks once per run, due tasks run; an invocation runs at most once and its answer is true, capabilities are those approved, no daemon hangs |

`gateway`, `delivery`, `acts`, `work` and `rows` are one model each for parts that
share no state: the initial state chooses the part, and only that part moves.
Where fairness is stated for all parts, nothing fair is enabled in a part
that does not run. What the parts say to each other is the environment of the
one that runs: each module has the actions of its neighbours that it can see.

Six more runs check one documented statement each and TLC refutes it. The
behaviours are those of the code; `PROJECT.json` quotes the documents.

| Run | Statement | Shortest counterexample |
|---|---|---|
| `hb_crash` | a crash loses no state (`docs/concepts/heartbeat-system.md:77`) | crash between the start's commit and the submit: the claim is never released and no later beat starts |
| `stop_holds` | only START reverses a STOP (`docs/guides/outbound-safety.md:52`) | STOP under the bare address, then a contacts row that lists the address: the control stays with the old entity |
| `ingest_skip` | a crash after the encounter resumes (`db/72:19-22`) | crash between encounter and receipt: the encounter's attribution is read as the receipt of the document |
| `backfill_export` | a successor continues where the job stopped (`db/79:636-638`) | an export longer than the cap: every successor starts at the file's beginning |
| `replacement_revert` | a reversion never overwrites newer state (`plans/hmx.md:1935`) | an edit between the comparison of a reversion and its deletion is deleted with the rest |
| `node_revoked` | revocation is irreversible (`docs/operations/companion-nodes.md:232`) | a request filed before the revocation is approved after it |

The modules define more such statements, which TLC refutes in the same way and
for which no run is kept: `Gateway!CrashedEventsRecovered` (a startup reclaim
that comes within ten minutes of the crash finds the row too young),
`Heartbeat!NeverOverrides` (the manual endpoint checks and starts in two
statements), `Heartbeat!PauseHolds` (a start writes its snapshot over a pause),
`Delivery!EnvelopesRecorded` (fetched without acknowledgement, then a crash),
`Delivery!ReplaysMarked` (claim fails, send succeeds, mark fails: the row is
resent unmarked) and `Ingest!FailuresShow` (the reader of a file fails: the
execution returns 0, and the job is completed with nothing read and never tried
again, while `docs/guides/ingestion.md:125` promises a list of "what failed and why").

Reading the node code against `companion-nodes.md` showed more that the model
has and no property states: approving a capability escalation takes an online
node offline, so a second process can take the identity over (lines 140-142 say
the running one keeps it); a first refusal closes the socket without a status,
so a revoked daemon reconnects for ever; after a crash of the gateway a daemon
that reconnects within 30 seconds is told `already_connected` and exits;
`claim_node_invocation` does not look at the node's status; rows that were
dispatched and whose asker died are never expired.

### Bounds

Every bound is a constant whose name starts with `Max`, and guards only the
environment's actions: how many events, beats or envelopes there are and how
many faults happen. No bound stops a process from finishing what it does.

- Two of each competing party, one manual run beside the timer and the consumer:
  every hazard listed in `PROJECT.json` is a race of two parties for one row.
- Two events, two or three beats, three messages: an earlier and a later one, and
  for the order of a batch a third that must wait for the next claim. Two
  ingestion jobs are one and the next for the same content, or the two documents
  of a batch. Three pages with a cap of two need a successor; the third job row is
  for the second range.
- One fault of each kind per behaviour, two failing calls where the worker is
  alone, two troubles together where the instance is one document, one range or
  one call: enough for a crash during the repair of a failed call. Where two
  parties meet (`two calls`, `batch`, the second range, the node parts) one
  trouble. The proofs below have no such limit.
- Two records and two sections of which one is replaced: enough to tell an edited
  section, an overwritten one and a disturbed neighbour apart. Two requests are a
  first and the one that meets it under the gate or is filed again after it.
- `Cap` and `Reserve` of one or two units of energy: empty, some, full and
  above the reserve. Charges of 2 against at most 3 points: affordable once,
  then into debt. The proofs hold for all values.
- `MaxLate` bounds how often the recovery claims an obligation that is out of
  attempts although another CTE would abandon it. PostgreSQL in fact takes the
  abandonment in every plan we know of, but does not promise it.
- `MaxClock` moments are enough for each schedule to come due, be missed and come
  due again.

### Fairness

Assumed of the code and nothing else: a loop that polls goes on polling
(`while running` around one `_poll` in each worker); a statement, request or
handler that was begun ends (all have timeouts); docker restarts a process
that died (`restart: unless-stopped` in the compose file); time passes. Faults,
new messages, manual runs, background writes, the user's edits and the
operator's decisions are never fair. `Gateway`
needs strong fairness for a dequeue because two consumers compete for rows;
a poller that finds rows again and again gets one in the end (`SKIP LOCKED`).
`SettledIfRestartedForever` states its premise, restarts for ever, in the
property: the code gives no such guarantee.

- *Approval*: waiters poll and meet their own deadline, a granted call runs, the
  sweep takes back interrupted escalations, loops go on with what they claimed.
- *Ingest, Backfill, Schedule*: the maintenance loop ticks, an execution in
  progress progresses, claims grow stale and retries come due. In `Schedule` the
  clock stops at `MaxClock`, so `DueTasksRun` speaks of what is due then.
- *Nodes*: the handlers of open sessions, the reconnecting daemons, the askers
  with their timeout, and time.
- *Outbox, Delivery*: the workers and the consumer poll; a restart follows a crash.
- *Replacement*: statements end; a transaction that waits for the gate or a row gets
  it in turn, since PostgreSQL queues waiters (hence strong fairness); the list of
  open requests is read in the plan of every heartbeat, which expires what has
  lapsed. Nobody has to submit, decide or revert anything.
- `Outbound` has no liveness property: a send that dies leaves its reservation
  open on purpose.

## Proofs

Everything here holds for every value of the constants that satisfies the
module's named assumption, so for any number of processes, rows and faults.

- **`GatewayProofs`**: `TypeCorrect`, `Exclusive`, `Accounting`, `SettledRan`,
  `Refinement`. None of the properties is inductive. The invariant adds that
  `started_at` is set exactly from the claim on (which makes `valid_completed`
  turn away the settlement of a waiting row), that a working consumer holds an
  event under one of its claims, and that no two consumers share a claim. Two
  holders then mean two claims, and by the accounting a reclaim between them.
- **`HeartbeatProofs`**: `TypeCorrect`, `LockProtects`, `ChargeOnce`,
  `LoneWorkerPulses`. The invariant adds that a session at work has a beat and
  that no two sessions have locked the same outcome. Outcomes turn final only
  under that lock or by a write that waits for it, so whoever got as far as the
  charge finds the outcome running and leaves it final; nobody gets there
  twice. The claim plays no part, which is why stale whole-row writes cannot
  break the charge.
  `LoneWorkerPulses` (`Heartbeat` implements `Pulse`) assumes the worker alone:
  no manual runs, no background writers, no crash, but any number of beats and
  of failing calls. A claim is in one place only, with the timer, in the queue or
  with the consumer (`OneClaim`), so no snapshot is ever stale (`SnapshotsTrue`).
- **`RowsProofs`**, of `Outbox`: `OutboxTypeCorrect`, `PublishedVisible`, `PublishedForGood`,
  `Refinement`, `OldestFirst`. Rows carry no owner. The invariant `HandedOver` is about the
  workers instead: what a worker is about to mark it has itself handed over,
  and neither inbox nor broker history shrinks. `Refinement` assumes that
  adapters are always active (`FALSE \notin AdapterStates`); otherwise the code
  publishes rows without the broker on purpose. `OldestFirst` is the order of first
  publication and assumes one worker. While nothing but the broker fails, what is
  `publishing` is in that worker's batch (`InBatch`), and everything older than a
  row of the batch is in the batch or published (`OldestTaken`), because ranks
  only grow (`RanksBelow`) and a claim takes the oldest rows.
- **`DeliveryProofs`**: `TypeCorrect`, `CopiesAreCounted`, `DeliveredForGood`,
  `ConsumerHandsOver`. The invariant follows what the consumer holds: an
  obligation that waits to be sent has one attempt more than copies and is not
  delivered. `CopiesAreCounted` holds only while no statement fails, because the code
  sends untracked rather than not at all; the statement of the property says so.
  `ConsumerHandsOver` (`Delivery` implements `Handover`) holds whatever fails: the
  recovery and the loop over envelopes never hold work together (`Places`), what
  is held for the ledger has an open row (`RowsOpen`), and whoever is about to mark
  a row delivered has seen a platform take it (`HandedOver`).
- **`ActsProofs`**, of `Approval`: `ApprovalTypeCorrect`, `ConsentFirst`,
  `UsedByItsCall`, `AnswersStand`, `Implements`. The argument is how a row may
  evolve: each action moves a request along an order in which an answer is final
  and only the row's own call consumes it; what a call believes about its row stays
  true because nothing else can change it. The steps of `Consent` follow.
- **`ActsProofs`**, of `Outbound`: `OutboundTypeCorrect`, `ControlsBind`,
  `ReservedOnce`, `DebtIsStrain`, `NothingPaidTwice`. The invariant says that a
  sender past the controls has a ticket that is its own or the open one it reuses
  (`Ticketed`), and that what a reservation may give back is no more than it cost
  (`DebtWithinCost`), which is what keeps strain above debt when refunds and
  regeneration meet. `NothingPaidTwice` is about a sum over all reservations
  (`Counted`, `Spent`), for any number of them. `Induction` derives induction on
  the size of a finite set from the well-foundedness of the naturals, with a set of
  numbers where a library theorem takes an operator, which the provers cannot
  instantiate; `Unfold` and `Iteration` show that the fold of the community modules
  is the same sum in any order, and `SumAdds` and `SumAgrees` say what a change of
  one reservation does to it. Then every action keeps the balance (`Backed`).
- **`IngestProofs`**: `TypeCorrect`, `Attempts`, `Honest`, `WrittenOnce`,
  `ReadWhole`, `FinishedStay`, `OneActive`. Rows carry no owner either, so the
  invariant is about what workers and executions hold: they name rows, batches
  and documents that exist (`RowsNamed`, `BatchesNamed`, `RunsNamed`), two
  executions of a document that never overlapped are one (`Apart`, `Once`), an
  execution that returned with a document has read to the end (`ReadToEnd`), and a
  job that was never taken from a living process is held by one worker
  (`HeldOnce`). `ReadWhole` is about completed jobs whose result names a document,
  since a source that could not be read completes its job too, and excepts the
  documents that were skipped on the word of an encounter (`mistaken`, the run
  `ingest_skip`). `FinishedStay` adds that no late report puts a job back in the
  queue that had failed for good or was cancelled: a failed row has its attempts
  used up (`RowsNamed`), and both are what `fail_ingestion_job` looks at (`OverStays`).
- **`WorkProofs`**, of `Schedule`: `ScheduleTypeCorrect`, `OneMessagePerRun`. Runs,
  messages and the remaining count of a task change in one statement, so the
  count is right in every row (`Told`) except one that a recomputation of a cron
  schedule wrote back from before an edit; only cron tasks can be (`WritesCron`).
- **`WorkProofs`**, of `Backfill`: `BackfillTypeCorrect`, `NothingSkipped`. Jobs carry no
  owner, and a worker whose claim has timed out goes on writing. The invariant
  follows what each worker believes: all pages before its token are stored
  (`ReadersTrue`), unless it began at a token that another range left, and what it
  holds names a job with a range (`HandsNamed`, `RowsRanged`). A saved cursor is some
  worker's token, so it is covered too.
- **`WorkProofs`**, of the model: `WorkTypeCorrect`. A behaviour of `MCWork` is one of
  each of its four parts (lemma `EachPart`: three of them stutter), so what is
  proved of the parts holds in the model.
- **`NodesProofs`**: `NodesTypeCorrect`, `RunOnce`, `CapabilitiesGranted`,
  `IdentityHeld`. `Links` ties the two ends of a connection together, and each move
  of a session, daemon, row and asker is one of a few kinds (`SessionSteps`,
  `DaemonSteps`, `InvocationSteps`, `AskerSteps`). For `RunOnce`: an invocation on its
  way to a daemon has not run (`Carried`), one being run is run by the only daemon
  that holds it (`InHand`), a result in a row or on its way comes from a run
  (`ResultsTrue`), and what a caller was told is what the row says for good
  (`RunsTold`). For `CapabilitiesGranted`: a handshake that will write capabilities
  writes those it read, and what it read was approved (`Renewing`), so are pairing
  decisions (`RowsGranted`); an open invocation asks for an approved one
  (`Entitled`). For `IdentityHeld`: a row changes hands only when the connection it
  names ends or is displaced (`TakenByTheRules`, `DisplacedStay`).
- **`RowsProofs`**, of `Replacement`: `ReplacementTypeCorrect`, `ErasesKnown`, `SnapshotsRestore`,
  `DecisionsStand`. The invariant says who holds what: a transaction that compares
  and writes holds the gate and its request's row (`TxHolds`), a locked row is the
  request of who locked it or one that lapses with its decision (`LocksHeld`), a
  draft is hidden behind the gate (`DraftsHidden`); and, unless an edit came
  between, the section is what it was compared with (`Fits`). One frame (`Frame`)
  says what a step of one transaction leaves to the others. Sections are not
  locked, which is why `Fits` excepts exactly the transactions in `missed`.

Proved but in no run, since TLC and the prover would say the same: the type
invariants of the modules whose run has none, `SettledRan`, `LockProtects`,
`PublishedForGood`, `ConsentFirst`, `UsedByItsCall`, `AnswersStand`, `Honest`,
`OneActive`. `RowsProofs!Refinement` and `DeliveryProofs!ConsumerHandsOver` are the
two halves of the run's `ImplementsHandover`, each about its module; the run
checks the first through an instance of `Outbox`, and `ImplementsPulse` through one
of `Heartbeat`.

So every invariant and every action property of a passing run, and every
refinement, is a theorem. What is only model-checked is liveness, which is out of
the prover's reach: `SettledIfRestartedForever`, `HealthyBeatsFinish`, that waits,
escalations, obligations, replacements and jobs end, that imports arrive, due
tasks run, messages are published and daemons do not hang.

## Not modelled

- Heartbeat: adaptive cadence and outcome scores, `terminate_agent`, the rows of
  wake events, the column `active_actions`, the early return for an invalid
  decision. Each is a column no modelled guard reads, or a path that ends like
  one that is modelled.
- Outbox: transactions that insert a message and stay open (see `NextRank` above);
  `channel.web_inbox.enabled` is taken to be on, its default; messages that
  heartbeats and scheduled tasks publish without an outbox row.
- Delivery: webhooks, the approval notice after a direct send, the batch limit of
  25, the arithmetic of contact budgets (`Deny` is its answer), fall-through
  from a domain route to the last active channel (both are targets).
- Outbound: how costs and the cadence of regeneration are computed, ledger rows
  of denied sends, texts of disclosure.
- Ingest: what readers, sectioning, appraisal and extraction produce, of which only
  how they end is modelled, and an answer of the model that cannot be parsed, which
  counts as a section without memories; the slow and hybrid modes. Jobs for
  an address or an artifact are keyed by it and receipts by the text; here
  both are one name.
- Backfill: the upsert of one message and the requests to the provider (one step
  per page), the live import of Twitter/X.
- Schedule: calendars and time zones; tasks created later or deleted for good.
- Replacement: what happens inside one export or one write, imports of several
  sections at once, the additive import of ordinary sections and its staging,
  reference maps, audit rows beside the snapshot, signatures (an override's is
  taken as valid and covers the state its first export saw).
- Nodes: signatures (taken as verified), wake utterances, what an action does on
  the host.
- RabbitMQ, the chat platforms and mail providers are outside the repository; they
  appear as what the code in `src/` sees of them.
- The components marked `not_modelled` in `PROJECT.json`, each with its reason:
  ranking over vectors and graphs, text and model output, single-user dialogues,
  and I/O. Those in the plan below follow.

## Plan

In this order; each keeps the form of the modules above (named assumptions, one
action per operation, no recursive operator where proofs are to follow).

1. `Relay`: `Outbox` and `Delivery` over one broker and one inbox, with an
   end-to-end property; it replaces the environment action `Arrive`.
2. `HeartbeatSystem`: `Heartbeat` over `Gateway` instead of `EventQueue`.
3. Connector actions (`db/80`): the daily limit under concurrent calls.
4. Agent loop and tool runtime (`db/37`), chat sessions (`db/78`), agent questions
   (`db/45`), the queue of embeddings (`db/86`).
5. Proofs: the invariants and refinements of the modules to come; for the modules
   above only liveness is left.
