---------------------------- MODULE LocalBackend ----------------------------
(***************************************************************************)
(* The local development backend (local_backend.py).  POST /invocations    *)
(* and POST /ingest put an entry in the dict "runs" and start an asyncio   *)
(* task that fills it; both run on the event loop.  GET /status, /reports  *)
(* and /report-view are plain functions, so FastAPI runs them in a thread  *)
(* pool: their reads of an entry interleave with the task's assignments.   *)
(***************************************************************************)
EXTENDS RunIds

CONSTANT Kinds   \* the routes clients use: "invocations", "ingest" or both

ASSUME KindsAssumption == Kinds \subseteq {"invocations", "ingest"}

VARIABLES
  kind,     \* the route that created each run
  entry,    \* runs[run_id]: its "status", "result" and "error"
  task,     \* what the run's task does next
  reader,   \* what a request for the run reads next
  answer    \* what the request has read; complete when reader is "idle"

vars == <<kind, entry, task, reader, answer>>

Statuses == {"none", "QUEUED", "PROCESSING", "COMPLETED", "FAILED"}

(* Not there, the status payload of /invocations, or the graph's output.   *)
Results == {"none", "payload", "raw"}

Entries == [status: Statuses, result: Results, error: BOOLEAN]

(* GET /reports/{run_id} and GET /report-view/{run_id}.                    *)
ReportRoutes == {"reports", "view"}

Answers ==
  [route: {"none", "status"} \cup ReportRoutes, code: {"", "200", "404", "409"},
   status: Statuses, first: Results, result: Results, error: BOOLEAN]

NoAnswer == [route |-> "none", code |-> "", status |-> "none",
             first |-> "none", result |-> "none", error |-> FALSE]

(* runs.get(run_id) is None.                                               *)
NoEntry == [status |-> "none", result |-> "none", error |-> FALSE]

TypeOK ==
  /\ kind \in [Runs -> Kinds \cup {"none"}]
  /\ entry \in [Runs -> Entries]
  /\ task \in [Runs -> {"none", "start", "graph", "store", "publish",
                        "fail", "explain", "done"}]
  /\ reader \in [Runs -> {"idle", "status", "result", "error"} \cup ReportRoutes]
  /\ answer \in [Runs -> Answers]

Init ==
  /\ kind = [r \in Runs |-> "none"]
  /\ entry = [r \in Runs |-> NoEntry]
  /\ task = [r \in Runs |-> "none"]
  /\ reader = [r \in Runs |-> "idle"]
  /\ answer = [r \in Runs |-> NoAnswer]

-----------------------------------------------------------------------------
(*                              The event loop                             *)

Continue(r, step) ==
  /\ task' = [task EXCEPT ![r] = step]
  /\ UNCHANGED <<kind, reader, answer>>

(* invocations and ingest: the entry is made and the task is scheduled.    *)
Submit(r, route) ==
  /\ kind[r] = "none"
  /\ kind' = [kind EXCEPT ![r] = route]
  /\ entry' = [entry EXCEPT ![r].status = "QUEUED"]
  /\ task' = [task EXCEPT ![r] = "start"]
  /\ UNCHANGED <<reader, answer>>

StartTask(r) ==
  /\ task[r] = "start"
  /\ entry' = [entry EXCEPT ![r].status = "PROCESSING"]
  /\ Continue(r, "graph")

(* The await of compiled_graph.ainvoke ends.                               *)
GraphEnds(r) ==
  /\ task[r] = "graph"
  /\ Continue(r, "store") \/ Continue(r, "fail")
  /\ UNCHANGED entry

(* Only /invocations shapes the graph's output, which may raise.           *)
StoreResult(r) ==
  /\ task[r] = "store"
  /\ \/ /\ entry' = [entry EXCEPT ![r].result =
                       IF kind[r] = "invocations" THEN "payload" ELSE "raw"]
        /\ Continue(r, "publish")
     \/ /\ kind[r] = "invocations"
        /\ Continue(r, "fail")
        /\ UNCHANGED entry

(* Mutant of Publish: the status is taken from the graph's own word.       *)
PublishUnchecked(r) ==
  /\ task[r] = "publish"
  /\ entry' = [entry EXCEPT ![r].status = "success"]
  /\ Continue(r, "done")

Publish(r) ==
  /\ task[r] = "publish"
  /\ entry' = [entry EXCEPT ![r].status = "COMPLETED"]
  /\ Continue(r, "done")

MarkFailed(r) ==
  /\ task[r] = "fail"
  /\ entry' = [entry EXCEPT ![r].status = "FAILED"]
  /\ Continue(r, "explain")

StoreError(r) ==
  /\ task[r] = "explain"
  /\ entry' = [entry EXCEPT ![r].error = TRUE]
  /\ Continue(r, "done")

(* Mutant of TaskStep: the status is set before the result is stored.      *)
TaskStepPublishFirst(r) ==
  \/ StartTask(r) \/ MarkFailed(r) \/ StoreError(r)
  \/ /\ task[r] = "graph"
     /\ \/ /\ entry' = [entry EXCEPT ![r].status = "COMPLETED"]
           /\ Continue(r, "store")
        \/ Continue(r, "fail") /\ UNCHANGED entry
  \/ StoreResult(r)
  \/ /\ task[r] = "publish"
     /\ Continue(r, "done")
     /\ UNCHANGED entry

(* Mutant of TaskStep: an exception of the graph is not caught.            *)
TaskStepUncaught(r) ==
  StartTask(r) \/ GraphEnds(r) \/ StoreResult(r) \/ Publish(r)

TaskStep(r) ==
  \/ StartTask(r) \/ GraphEnds(r) \/ StoreResult(r) \/ Publish(r)
  \/ MarkFailed(r) \/ StoreError(r)

-----------------------------------------------------------------------------
(*                             The thread pool                             *)

ReadNext(r, step, reading) ==
  /\ reader' = [reader EXCEPT ![r] = step]
  /\ answer' = [answer EXCEPT ![r] = reading]
  /\ UNCHANGED <<kind, entry, task>>

(* get_status looks the run up and takes executive_summary, agent_results  *)
(* and completed_at from the result it sees now...                         *)
StatusLookup(r) ==
  /\ reader[r] = "idle"
  /\ IF entry[r].status = "none"
     THEN ReadNext(r, "idle",
            [NoAnswer EXCEPT !.route = "status", !.code = "404"])
     ELSE ReadNext(r, "status",
            [NoAnswer EXCEPT !.route = "status", !.code = "200",
                             !.first = entry[r].result])

(* ...then builds the response in the order of its keys.                   *)
StatusReadStatus(r) ==
  /\ reader[r] = "status"
  /\ ReadNext(r, "result", [answer[r] EXCEPT !.status = entry[r].status])

StatusReadResult(r) ==
  /\ reader[r] = "result"
  /\ ReadNext(r, "error", [answer[r] EXCEPT !.result = entry[r].result])

StatusReadError(r) ==
  /\ reader[r] = "error"
  /\ ReadNext(r, "idle", [answer[r] EXCEPT !.error = entry[r].error])

(* get_report and get_report_view: the status first, then the result.      *)
ReportLookup(r, route) ==
  /\ reader[r] = "idle"
  /\ LET reading == [NoAnswer EXCEPT !.route = route,
                                     !.status = entry[r].status]
     IN  CASE entry[r].status = "none" ->
                ReadNext(r, "idle", [reading EXCEPT !.code = "404"])
           [] entry[r].status = "COMPLETED" ->
                ReadNext(r, route, [reading EXCEPT !.code = "200"])
           [] OTHER ->
                ReadNext(r, "idle", [reading EXCEPT !.code = "409"])

ReportReadResult(r) ==
  /\ reader[r] = "reports"
  /\ ReadNext(r, "idle", [answer[r] EXCEPT !.result = entry[r].result])

(* result["report"]["markdown"]: the graph's output has it at that place,  *)
(* the status payload, which keeps that output under "result", has not.    *)
MarkdownOf(result) == IF result = "raw" THEN "raw" ELSE "none"

(* get_report_view answers a header followed by the markdown.              *)
ViewReadMarkdown(r) ==
  /\ reader[r] = "view"
  /\ ReadNext(r, "idle",
       [answer[r] EXCEPT !.result = MarkdownOf(entry[r].result)])

ReaderStep(r) ==
  \/ StatusReadStatus(r) \/ StatusReadResult(r) \/ StatusReadError(r)
  \/ ReportReadResult(r) \/ ViewReadMarkdown(r)

-----------------------------------------------------------------------------
(* The process ends and is started again: "runs" is a variable of it, and  *)
(* its tasks and the connections of its requests are gone as well.         *)
Restart ==
  /\ entry' = [r \in Runs |-> NoEntry]
  /\ task' = [r \in Runs |-> "none"]
  /\ reader' = [r \in Runs |-> "idle"]
  /\ answer' = [r \in Runs |-> NoAnswer]
  /\ UNCHANGED kind

RunNext(r) ==
  \/ \E route \in Kinds : Submit(r, route)
  \/ TaskStep(r)
  \/ StatusLookup(r)
  \/ \E route \in ReportRoutes : ReportLookup(r, route)
  \/ ReaderStep(r)

Next == (\E r \in Runs : RunNext(r)) \/ Restart

(* The event loop runs every task that is ready and the graph ends; nobody *)
(* has to submit a run, to ask for one or to restart the process.          *)
Spec ==
  /\ Init
  /\ [][Next]_vars
  /\ \A r \in Runs : WF_vars(TaskStep(r)) /\ WF_vars(ReaderStep(r))

-----------------------------------------------------------------------------
Answered(r, route) ==
  reader[r] = "idle" /\ answer[r].route = route /\ answer[r].code = "200"

(* No report is served too early, without its body: GET /reports answers   *)
(* with a result, and GET /report-view of a run submitted to /ingest with  *)
(* its markdown.  The task stores the result before it publishes           *)
(* COMPLETED, and the routes read in the other order.                      *)
ReportHasBody ==
  \A r \in Runs :
    /\ Answered(r, "reports") => answer[r].result # "none"
    /\ Answered(r, "view") /\ kind[r] = "ingest" => answer[r].result = "raw"

(* A status answer that says COMPLETED carries the run's result and no     *)
(* error message, whatever the task did while the answer was being built.  *)
CompletedCarriesResult ==
  \A r \in Runs :
    Answered(r, "status") /\ answer[r].status = "COMPLETED"
      => answer[r].result # "none" /\ ~ answer[r].error

(* A finished run stays finished, unlike a row of the deployed platform,   *)
(* until a restart loses it, and every other run with it.                  *)
FinishedStaysFinished ==
  [][\A r \in Runs : entry[r].status \in {"COMPLETED", "FAILED"}
        => \/ entry'[r].status = entry[r].status
           \/ \A q \in Runs : entry'[q] = NoEntry]_vars

(* Every submitted run reaches a status at which clients stop polling, or  *)
(* is lost in a restart.                                                   *)
EverySubmissionFinishes ==
  \A r \in Runs :
    entry[r].status = "QUEUED"
      ~> entry[r].status \in {"COMPLETED", "FAILED", "none"}

(* A status answer that says COMPLETED has the executive summary and the   *)
(* agent results, which get_status takes from a stored status payload:     *)
(* clients stop polling on it.                                             *)
CompletedHasSummary ==
  \A r \in Runs :
    Answered(r, "status") /\ answer[r].status = "COMPLETED"
      => answer[r].first = "payload"

=============================================================================
