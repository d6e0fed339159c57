# Verification of the Company Intelligence Platform

TLA+ specifications, TLC runs and TLAPS proofs for the Company Intelligence
Platform (CIP): the code that takes a company name, runs five research agents
over it and hands back a report.  Paths below are relative to `src/`.

A run is submitted to an HTTP API, waits in an SQS FIFO queue, is executed by a
Lambda that writes a report file and a status row, and is polled by a browser.
Nearly everything that can go wrong lies *between* the handlers: a call that
fails after another has succeeded, a redelivered message, two invocations of
one run, a kill between two writes, an answer assembled while its subject is
changing, a screen that shows what a lost request left there.  Those are what
the models are about.

## 1. Inventory

### Components modelled

| Component (source) | State it keeps | Operations | Module |
|---|---|---|---|
| Ingestion API, `lambdas/api-ingestion/ingestion_handler.py` | how far each request is, the answer | validate, `put_item`, `send_message`, answer, be killed | `IngestionApi` |
| Run-state table, `lib/platform-infra-stack.ts:28`, `update_run_status` | the status of each row | `put_item`, `update_item`, the swallowing `update_run_status` | `RunStateTable` |
| FIFO queue, dead-letter queue, event source mapping, `lib/platform-infra-stack.ts:36-44,135` | place, group, order and receive count of each message | send, receive, redrive, become visible, expire, delete | `IngestionQueue` (external service) |
| Engine orchestrator, `lambdas/engine-orchestrator/orchestrator_handler.py` | control state and execution environment of each invocation, report files per environment | mark PROCESSING, run the graph, open and write the artifact, mark COMPLETED or FAILED, return or raise, be killed | `Orchestrator` |
| Status API and reports API, `lambdas/api-status/handler.py`, `lambdas/api-reports/handler.py` | none (read-only) | the HTTP code a client gets | `RunPipeline` |
| Intelligence graph, `temp-deploy/src/orchestrator/{graph,reducers,state}.py` | the shared graph state, which nodes are running | five agent nodes, validation, synthesis, report, merging what a superstep returned | `AgentGraph` |
| Validation, synthesis, report, `temp-deploy/src/processing`, `temp-deploy/src/reports` | the candidate bundle, the correction round, the models tried | validate, correct, give up, synthesize, ask a model, fall back to the template | `AgentGraph` |
| Articles and cases, `processing/synthesis.py`, `processing/impact.py` | none (a function of the agents' lists) | split, deduplicate, classify, rank, divide into material and contextual | `ReportFocus`, `Impact` |
| Local backend, `local_backend.py` | the `runs` dict, the asyncio task of each run, the thread that answers a GET | submit by either route, the task's assignments, the reads of the three GET routes (status, reports, report-view), restart | `LocalBackend` |
| Browser, `cip-frontend/src/hooks/useRunStatus.ts`, `utils/api.ts`, and what `App.tsx`, `AnalysisForm.tsx`, `Dashboard.tsx` do to the query | data and error of the query, the fetch in progress, its failures, visibility of the tab | open, interval fetch, succeed, fail, retry, hide, focus, reload | `StatusPoller`, composed in `LocalSession` |
| Other orchestrators, `temp-deploy/orchestrator_handler.py` (S3), `orchestrator_handler_minimal.py` | as the deployed one | put the artifact in a bucket; update, write, swallow the failure | `HandlerVariants` |

### How they interact

`POST /ingest` puts a `QUEUED` row and then sends a message whose
deduplication id is the `run_id` and whose group is `<company>:<country>`.  The
event source mapping (batch size 1) invokes the orchestrator with it.  The
handler updates the row three times at most (`PROCESSING`, then `COMPLETED` or
`FAILED`), writes `<run_id>.json` below `REPORTS_DIR`, and returns, in which
case the message is deleted, or raises, in which case it reappears when the
visibility timeout is over and goes to the dead-letter queue after three
receives.  The two read-only APIs look at the row and at the file.  The browser
polls the status until it sees `COMPLETED` or `FAILED`.

Inside an invocation (and inside the local backend's task) LangGraph runs the
graph: five agent nodes in parallel, then validation, synthesis and the report,
which asks a list of Bedrock models in turn.  `RunPipeline` sees this as one
step that succeeds or raises; `AgentGraph` opens it up.  The copy of `graph.py`
in the repository decorates `invoke` with an `app` that is defined nowhere
(line 341) and imports agents that are not in the repository; the model takes
the rest of the module as it is written.  Its `run_intelligence_pipeline` (line
194) takes one dict, while `orchestrator_handler.py:116` calls it with keyword
arguments: with this copy every deployed invocation would raise in that step.
`build_orchestrator_minimal.py:10` bundles another copy, `agentcore/src`, which
is not in the repository; the models keep both outcomes of the step.

The local backend replaces all of this by one process: a dict, one asyncio task
per run on the event loop, and GET handlers that FastAPI runs in a thread pool.

### What is hard, and what makes each component correct

* **Ingestion API.** Two remote calls and no transaction.  Correct if whoever
  was told 202 is never forgotten, and if it never takes a row back that an
  orchestrator has already touched.
* **Queue.** Redelivery, FIFO order per group, a redrive limit.  Correct if no
  run is executed twice at once and no message blocks its group for ever.
* **Orchestrator.** Swallowed exceptions, two `except` paths, a kill between
  any two steps, a retry that starts over, two invocations of one run.
  Correct if a message is deleted only after a whole report was left, and if
  the row tells the truth when nothing more will write it.  Its `/tmp` outlives
  an invocation: a retry in the same environment truncates what an earlier
  attempt has left.
* **Status and reports APIs.** They read state that others are changing, the
  reports API from a directory that may be another one than the writer's.
* **Intelligence graph.** Five branches end in any order and merge into one
  state; five separate edges lead to validation, and only the wiring makes it
  wait.  Correct if validation has seen every branch, no node runs twice, a
  dossier is made of validated data only, and every execution ends.
* **Articles and cases.** Weights that add up against thresholds, a four-part
  sort key, text that is split and dropped.  Correct if adverse news leads,
  whatever else it says, and if no signal is lost or listed twice.
* **Local backend.** An answer is built from several unsynchronised reads, and
  a restart forgets every run.  Correct if an answer that says `COMPLETED` or
  serves a report has what it promises.
* **Browser.** Requests are lost, repeated and answered late; a hidden tab
  stops in the middle of its retries.  Correct if the screen never shows what
  the run has not reached, never goes back, and shows the end of the run, or
  that the run is lost, after any outage.
* **Minimal orchestrator.** It gives a message up although the run failed, and
  writes `COMPLETED`, which a redelivery takes back.  Correct if the row tells
  how the run ended before the message is gone, and a `COMPLETED` row has its
  report while a later attempt is at work.

### Not modelled, and why

| Component | Why |
|---|---|
| Prompt and template wording (`reports/generator.py`), sentiment | text for a model or a reader; the template raises before it is rendered (section 5), so its rule that good news is left out of the summary when there is bad news never runs; `sentiment_from_ranked_items` is not called |
| `invoke` and its payload normalisation (`graph.py:206-366`) | the module cannot be imported as it stands (line 341) |
| `build_status_result_payload` (`local_backend.py:70-205`) | which words go into which field; the models keep whether a result was shaped by it |
| Browser views and formatting | layout; a dashboard that is left and opened again is a tab that is loaded again |
| Mock data, a report passed as `initialData` | they make no requests; `App.tsx` never passes one |
| MCP tools (`mcp_servers/corporate_tools.py`) | stateless stubs; their failure is a failure of an agent node |
| Agents (`agentcore.agents`) | not in the repository; modelled by what they can return |
| CDK stacks beyond the settings used | they declare resources |
| Entry points, operations scripts (`fix_cors*.py`, `verify_*.py`, `update_*.py`, ...) | straight-line scripts run by a person |
| Vendored libraries | two facts are used: boto3 rejects floats, LangGraph works in supersteps |

`PROJECT.json` has the complete list, and the hazards each at its line.

## 2. Modules

```
RunIds                the runs
  Platform            whether AWS calls may fail
    RunStateTable     DynamoDB rows, update_run_status
    IngestionQueue    SQS FIFO queue and dead-letter queue
      IngestionApi    POST /ingest                (extends both)
      Orchestrator    the SQS-triggered handler   (extends both)
        RunPipeline   composition, read-only APIs, properties
          MCRunPipeline           instances for TLC
          HandlerVariants         the other two orchestrators in its place
            MCHandlerVariants
          RunPipelineProofs       invariants for any timing
            RunPipelineRefinement     RunPipeline implements RetryingJob
            RunPipelineSerialProofs   invariants of serial execution
              HandlerVariantsProofs     the other two orchestrators (extends
                                        RunPipelineRefinement as well)
  LocalBackend        the FastAPI process
    LocalBackendProofs
  StatusPoller        the dashboard's query, one tab for each run
    LocalSession      composition of LocalBackend and StatusPoller
      LocalSessionProofs
RetryingJob           abstract specification of a run
AgentGraph            one execution of the graph
  MCAgentGraph, AgentGraphProofs
Impact                classification and sort key, over scores
  ReportFocus         from an agent's list to the brief's lists
    MCReportFocus, ReportFocusProofs
```

**RunStateTable.** `status[r]` is the row's status attribute.  `UpdateRunStatus`
is the helper of the same name: the update happens, or it is swallowed when the
call fails, and it never happens when one of its extra attributes is a float
(`FloatAttributes`), because boto3's serializer raises.

**IngestionQueue.** `msg`, `group`, `sent`, `receives`: where the message of a
run is, its group, its place in the order, its receive count.  A message can be
received when no earlier one of its group is left and none of its group is in
flight.  A message received `MaxReceiveCount` times goes to the dead-letter
queue when it becomes visible again.  Retention may end a waiting message.

**IngestionApi.** `api[r]` is how far the handler is with a request.  Each of
`put_item` and `send_message` may raise having taken effect or not; the function
may be killed between them.  Sanitization is the choice of a group: two requests
may or may not end up in the same one.

**Orchestrator.** Invocation `<<r, k>>` is started by the k-th receive of run
r's message.  `pc` walks through the handler: mark PROCESSING, run the graph,
open the file (which truncates it), write it, mark COMPLETED; any raise leads
to `MarkFailed` and to a raised invocation.  `env` is the execution environment
an invocation runs in, chosen when it starts among those no live invocation
uses (`Busy`): a new one, or a warm one whose `/tmp` still has what earlier
attempts, of any run, have left there.  `files` has a file per environment and
run, absent, partial or whole, and survives a kill; an environment that Lambda
retires is one that is never chosen again.  `OverlapPossible` says whether a
message can reappear under a running invocation: both timeouts are 15 minutes
but start at different moments.

**RunPipeline** composes these and adds what GET /status (`StatusCodes`: a set,
because the lookup may raise) and GET /reports answer.  The reports function
has an environment of its own, `ReportsDir`, which no orchestrator writes to.  **RetryingJob** is what a user is owed: absent, pending, then done
(only after an attempt left a report), dead-lettered after the last attempt,
or out of retention; ends are final.  An attempt of a pending run may take the
report back while it writes its own (`Overwrite`), and so may a late one of a
run that was dead-lettered or has expired, but never of one that is done.  This
is for places where `Overwriting` can happen: a file that is opened for writing
is truncated, an object of a bucket is replaced in one step.

**LocalBackend.** `entry` is `runs[run_id]`, `task` the assignment its
coroutine does next, `reader` and `answer` a GET request and what it has read.
Python may switch threads between any two reads; assignments of the event loop
are interleaved one at a time.  The two report routes look at the status first
and then read different things: GET /reports answers with the stored result, GET
/report-view with a header and `result["report"]["markdown"]` (`MarkdownOf`),
which the graph's output that `/ingest` stores has at that place and the payload
that `/invocations` stores has not.  `Restart` empties entries, tasks and requests;
`kind` says what was ever submitted and stays, because run ids are not reused.

**StatusPoller.** What TanStack Query keeps for a run: `shown` (the status in
`data`), `error`, `fetch` (off, idle, requested, served, waiting to retry) and
`failures` of the fetch in progress.  A successful fetch replaces `data` and
clears `error`; a fetch whose retries are used up sets `error` and keeps
`data`; starting one without `data` clears `error`.  The interval runs and
retries are made only in a visible tab, the focus refetches even a finished
run.  `Reload` is a new page on the same URL.

**LocalSession.** A tab's GET /status is a lookup by the backend's reader
thread followed by its reads; its answer is taken when the thread is done.
`Lose` fails the request before it arrives, or after it was answered or its
backend restarted.  While the tab waits for an answer the one modelled reader
is its own; other clients use it at all other times.

**HandlerVariants.** `handler` is chosen once.  The S3 handler shares the
steps of the deployed one except that one `put_object` takes the place of
opening and writing a file: `bucket` is the set of runs whose whole report is
an object of `REPORTS_BUCKET`, and it implements the `RetryingJob` that
overwrites nothing (`BucketJob`).  Nothing in the repository reads that bucket
(`api-reports/handler.py:46` reads a directory of its own), so no property says
that its reports are served.  The minimal handler
shares only the file steps; its updates raise instead of being swallowed, also
the one in the `except` block.

**Impact, ReportFocus.** An item is its three scores and its text, which only
counts as a place in the alphabetical order.  `Before` is the sort key.
`ReportFocus` holds the tables of weights, finds signals as substrings
(`Inside` lists the words that contain another signal, and two harmless ones),
and follows a list through splitting, the loss of short parts, deduplication,
ranking and division.  A phrase of weight w is worth w points, and a score is
the number of points whose phrase is found: the sum the code computes.  Lists
are put in order by counting (`InOrder`: n - 1 elements come before the n-th),
so that sorting, keeping the long parts, keeping the first of equal texts and
dividing are one operator with four orders.  `Synthesize` is the one step there
is.

**AgentGraph.** `active` is the running superstep, `output` what its nodes have
returned, `state` the merged fields.  A field is `"nothing"` until its node's
output is merged.  `Edges` and `EntryNodes` are the `add_edge` calls, in the
form the code gives them: one edge per agent, so that LangGraph would start
validation after *any* of them; `EndSuperstep` is LangGraph's `apply_writes`.
Branches end in any order, but that function sorts the tasks by path before it
calls the reducers (`layers/python/langgraph/pregel/_algo.py:253-256`), so the
order of the reducer calls is fixed and one step stands for them.
`candidate` and `round` are the loop of `validate_payload`, `tried` that of
`generate_report`.  An agent's data is usable, empty or malformed; Nova Micro's
reply conforms, violates the schema again, or is no JSON (`GiveUpOnBundle`, the
path taken without Bedrock, where the prompt itself comes back).

## 3. Runs

| Run | Instance | States | Shows |
|---|---|---|---|
| `retries` | one run, three receives, three environments, failing calls, kills, overlap | 104,326 | types; accepted requests are not lost; no row goes back to QUEUED; the pipeline implements `RetryingJob` although attempts truncate the files of warm environments |
| `groups` | two runs of one group, two receives, two environments, no overlap, kills | 221,468 | one execution at a time; FAILED rows belong to unacknowledged runs; a dead-lettered run says FAILED; every message leaves the queue |
| `variants` | each of three handlers, one run, three receives, three environments, failing calls, kills, overlap | 298,676 | a COMPLETED row has a whole report; an acknowledged run's row is settled, or an attempt is at work or has crashed; the bucket has every acknowledged report, and implements `RetryingJob` without overwriting |
| `session` | one run of either route, one tab, five retries, one reload, restarts | 80,512 | answers carry what they promise; the screen is never ahead of the run and never falls back; every run finishes, and its end or its loss is shown |
| `graph_premium` | five agents, Premium models, two correction rounds | 14,849 | barrier, single execution of nodes, complete results, validated dossiers, termination |
| `focus` | all lists of up to three of thirteen texts, both domains | 9,518 | one ranking for every order of the input; no signal lost or repeated; adverse news first; more adverse never lower |
| `deployed_reports`, `completed`, `terminal`, `local_results`, `graph_data`, `graph_template` | smallest instance | - | the disagreements of section 5 |

**Bounds.** One run suffices for `retries` because runs interact only through
message groups, which `groups` is about; three receives are the deployed limit,
so every attempt up to the last is there, and three environments let each of
them have one to itself, share one with an earlier attempt, or both.
Environments are compared and never told apart, so `retries` and `variants` use
symmetry on them; neither checks liveness.  In `groups` two receives are enough
for a first and a last attempt of both runs, and two environments for two
invocations at once.  Both runs are of one group: the runs of different groups
share nothing but environments, where each has a file of its own, and the
theorems cover any groups.  A failed deletion is there as a kill after the
handler has returned.  In `variants` the three handlers never meet, and runs
would only meet in groups; that every message leaves the queue is the queue's
doing, and checked with the deployed handler only.
`session` has one run because tabs, entries and tasks of different runs share
nothing but the restart, which takes all of them; the number of retries is the
deployed one, one reload is enough to lose the cache at any point, and tabs
hide, and backends restart, without bound.  The graph runs with its real five
agents, its real list of models (Nova Pro twice, as the defaults have it) and
the default of two rounds, so nothing is scaled down.  In `focus` three items
give duplicates, ties and every pair with a third in between; the texts are
chosen so that the impact is just at a threshold, adverse and good signals
outweigh each other, and every path of the splitting is taken.
`AwsCallsMayFail` and `OverlapPossible` are switched off only where the
property is conditional on them (below), to show that the disagreements need
no failure, and in `groups`, for `EveryMessageSettles` as well, which needs
neither: a message that can reappear earlier, or an attempt whose call fails,
brings the last receive nearer.

**Conditional properties.** Three properties of `groups` are about a stack whose
visibility timeout outlasts the invocation (`OverlapPossible = FALSE`):
`OneExecutionPerGroup`, `FailedIsNotAcknowledged` and `DeadLetteredIsFailed`; so
is the theorem `MinimalSettlesRowHolds`, whose unconditional counterpart
`RowLeftOpenHasCause` is in `variants`.  The deployed stack is not of that kind.  Both its timeouts are 15
minutes, so two invocations of one run can be alive at once; `groups` says
what raising one number (AWS recommends six times the function timeout) would
give.  `FailedIsNotAcknowledged` and `DeadLetteredIsFailed` also need updates
that reach the table.

What holds of the deployed stack as it is, with equal timeouts, failing calls,
kills and warm environments, is in `retries` and `variants`:
`AcceptedIsNeverLost`, `NeverBackToQueued`, `ImplementsRetryingJob`,
`CompletedRowHasReport`, `RowLeftOpenHasCause`, `BucketHoldsAcknowledged` and
`S3ImplementsJob`.
`AcknowledgedReportIsServed` holds nowhere: with the stack's two `/tmp` it fails
(`deployed_reports`), and no other deployment of these functions is in the
repository (the container of `docker-compose.yml` runs `local_backend.py`).

**Deadlock** is not looked for: every specification here may stop, when all
messages are settled, all runs answered, all tabs idle, the graph has returned,
or the brief is made.

**Fairness.** Weak fairness of a step the platform takes by itself: Lambda ends
every invocation, the event source mapping polls, the visibility timeout runs
out, the event loop runs ready tasks, a GET handler's thread goes on,
LangGraph's threads return (their clients have timeouts).  In `LocalSession`
strong fairness of `Serve`, `Receive`, `Retry` and `IntervalFetch`: a request
that is repeated for ever reaches the backend and is answered at some point,
and a timer of a visible tab fires although the tab is hidden again and again.
Its properties of the screen speak of a tab that is visible again and again and
of a network that may lose any number of requests, the answer to the POST
included.  Nothing makes a client submit, open, hide, focus or reload, a
backend restart, a message lapse, or a call succeed.  That agents and models
end is an assumption about code outside the repository.

## 4. Proofs

All for any number of runs, tabs and retries, any redrive limit, any groups,
agents, model lists, correction rounds, weights and texts.

* `RunPipelineProofs`.  `TypeCorrect`.  `NeverBackToQueuedHolds` needs
  `DispatchInv`: `SendFollowsPut` (a row exists before its message) and
  `AttemptsFollowReceives` (no invocation without a receive), because the
  property itself says nothing about where the API is when an orchestrator
  writes.  `AcceptedIsNeverLostHolds` follows from `ArtifactInv`, whatever calls
  fail and invocations overlap.  The property alone is not inductive: it does not
  say why the report behind a deleted message survives late attempts.  The
  invariant adds that live invocations never share an environment
  (`EnvironmentsExclusive`), hence that what a live one has written is still as
  it wrote it (`CurrentFile`), and that the attempt which had a message deleted
  left its report where no live attempt of the run is (`LeftForGood`,
  `AcknowledgedIsLeft`): none can come there later, because a deleted message is
  not received.  Two frames are stated once and used by every later proof:
  `InvocationChange`, what any step of an invocation leaves alone (other
  invocations, the queue, the API), and `OutsideChange`, what any other step
  may do to a message.  The handlers of `HandlerVariants` fit the first one.
* `RunPipelineSerialProofs`.  What holds when a message does not reappear under
  a running invocation (`NoOverlap`).  `OneExecutionPerGroupHolds` from
  `SerialInv`: a live invocation holds its message in flight and is its last
  receive, and a group has one message in flight.  `FailedIsNotAcknowledgedHolds`
  and `DeadLetteredIsFailedHolds` from `RowInv`, which adds how far the row
  follows the last attempt, if updates reach the table (`UpdatesReachTable`).
* `RunPipelineRefinement`.  `PipelineImplementsJob`, with no assumption: each
  action maps to one of `RetryingJob` or to a stutter, under `ArtifactInv`.
  Mapping: a message's place is the phase, the receive count the attempts, a
  whole file in some environment the report.  Opening a file is `Overwrite` if
  it was the last whole one; that the run is not done then is `AcknowledgedIsKept`.
  What the abstract job promises holds for the pipeline without another look at
  it: `DoneIsReportedHolds` and `EndsAreFinalHolds`.
* `HandlerVariantsProofs`.  `VariantTypeCorrect` and `VariantsExecuteSerially`
  show that types and serial execution are the queue's doing, whatever handler
  it invokes.  `BucketHoldsAcknowledgedHolds` and `S3ImplementsJobHolds` from
  `BucketInv`: an S3 invocation that is past `put_object` has its object whole,
  and no later attempt can take it back (`BucketKeepsReports`).  Neither needs an
  assumption on timing or environments.  `CompletedRowHasReportHolds` needs none
  either, from `ReportInv`: while a row says COMPLETED some environment has a
  whole report and no attempt of the run that is about to write there
  (`KeepsReport`), because an attempt takes the row back before it opens a file.
  `RowLeftOpenHasCauseHolds` from `CauseInv` (a row is settled when an attempt
  returns, and only an attempt in `OpenRow` opens it again) holds for any timing.
  `MinimalSettlesRowHolds`, that it is settled without exception, from
  `SettledInv` (the row is final from the return of an attempt on, not only from
  the deletion), needs serial execution: another attempt could otherwise take
  the row back in between.
* `LocalBackendProofs`.  `ReportHasBodyHolds`, `CompletedCarriesResultHolds`,
  `FinishedStaysFinishedHolds` (until a restart), from `BackendInv`: the task
  stores before it publishes (`PublishedInOrder`), and what a half-built answer
  has read on its route is still true of the entry (`ReadInOrder`), which is what
  makes unsynchronised reads safe for these properties and not for that of
  section 5.
* `LocalSessionProofs`.  `ScreenNeverRunsAheadHolds` and
  `ScreenNeverFallsBackHolds`, from `SessionInv`: a tab shows something of
  submitted runs only (`OpenedWasSubmitted`), which is behind the entry
  (`ScreenBehindRun`), the entry's status follows from the task
  (`TaskAndStatus`), and an answer under way says something between what the
  tab shows and what the entry says (`AnswerInBetween`), which a poll that is
  lost, repeated or late keeps true. `SessionKeepsBackendPromises` carries the
  theorems of `LocalBackend` over: a session step is a backend step or a
  stutter.
* `ReportFocusProofs`.  The invariant `FocusInv` only says that the brief is
  that of the items; the work is in the operators.  `InOrderEnumerates`: a
  strict order on a finite set is listed completely, once, in order.  From it
  what `_normalize_text_list` returns (`NormalizeTextListLists`) and that
  `rank_text_items` returns a ranking (`RankTextItemsRanks`), of which a set of
  texts has exactly one (`RankingIsUnique`), because the sort key is a strict
  total order (`BeforeIsStrictTotalOrder`).  `OrderOfItemsIsIrrelevantHolds`
  follows.  `EverySignalIsListedOnceHolds` adds that dividing a list loses and
  repeats nothing (`DividedListsAll`), `AdverseNewsComesFirstHolds` that the
  material texts are a head of the ranking (`DividedInOrder`), and
  `AdverseSignalNeverDemotesHolds` that the sort key favours adverse weight
  (`MoreAdverseIsBefore`) and that more words never score less (`ScoresGrow`).
  Assumed of the texts: parts of a text are texts, and "" is short and says
  nothing.
* `AgentGraphProofs`.  `GraphInvariant`: `Frontier` lists the five supersteps
  with what has been merged before each; `StageContents` says what each stage
  may have returned and what it saw.  From it the five safety properties follow
  for any agents.  Assumed: there is an agent, and none has a stage's name.

Model-checked only: the liveness properties (`EveryMessageSettles`,
`EverySubmissionFinishes`, `EveryEndIsShown`, `LossIsReported`, `GraphEnds`),
which are out of the prover's reach.  Every other property of a passing run is
a theorem.  Proved only: `MinimalSettlesRow`, which `variants` would violate,
because its invocations overlap.

## 5. Where the code and what is said of it differ

| Run | What the run shows |
|---|---|
| `completed` | The last update carries a float, which boto3 rejects and `update_run_status` swallows: a finished run's row stays PROCESSING. |
| `deployed_reports` | The reports function reads the `/tmp` of its own environment: 404 for every finished run. |
| `terminal` | A retry takes a row from FAILED back to PROCESSING after clients stopped polling. |
| `local_results` | A GET /status can say COMPLETED without the summary and the agents' results: when its reads straddle the task's last two assignments (`local_backend.py:304`), and for every run submitted by /ingest, which stores the graph's raw output (`:287`). |
| `graph_data` | Empty or malformed agent data does not stop a report. |
| `graph_template` | The local template raises NameError (`re` is not imported): without Bedrock every run fails. |

`local_results` stops at the first of its two causes; with `Kinds` reduced to
one route it finds the one that belongs to it.

Noticed but without a run:

* GET /report-view of a run of /invocations answers a bare header: the route
  reads `result["report"]["markdown"]` (`local_backend.py:344-346`), and the
  payload stored for that route (`:194-205`) keeps the graph's output under
  `result`.  No document, test or comment says what the route answers, so
  `ReportHasBody` promises its markdown for runs of /ingest only.
* `run_intelligence_pipeline` of the one `graph.py` in the repository takes a
  dict (`:194`), the orchestrator passes keywords (section 1).
* In the local backend the status is set before the error, so a FAILED answer
  may lack its `error_message`.
* When all six requests of a focus refetch fail, the error view takes the place
  of a finished report until the next focus, although
  `cip-frontend/ARCHITECTURE.md:179` has cached results stay.  The query keeps
  its data; the view looks at the error first.
* The body of an answer is read without a timeout (`utils/api.ts:63` clears it
  when the headers are there); a connection that stalls in between stops the
  polling of that tab.
* Good signals add to the impact: a pressure item of the news is material if it
  also mentions a launch.  In litigation every case with a signal is material,
  and good news ranks among cases as adverse news does.
* "layoffs", "warning" and "regulatory" count as two signals each, "issues"
  contains "sues" and "refines" contains "fine".
* A part of a split headline that is shorter than eight characters is dropped,
  and its signal with it.

## 6. Plan

Done, in this order: table, queue, API and orchestrator with their composition;
`RetryingJob` and the refinement; `LocalBackend`; `AgentGraph`; their proofs;
`StatusPoller` and its composition with `LocalBackend`; the other two
orchestrators; `Impact` and `ReportFocus`; the proofs under serial execution and
of `ReportFocus`; warm environments, and with them the refinement and the proofs
of reports for any timing.

Next, most important first:

1. `StatusPoller` over the deployed pipeline, whose row goes back from FAILED
   to PROCESSING: which of the session's properties hold there, and for what
   visibility timeout.
2. What a client may conclude from FAILED or COMPLETED when invocations
   overlap, that is, without `NoOverlap`.
3. `StatusPayload`: which of the graph's outputs the local backend's
   `build_status_result_payload` shows under which field.
