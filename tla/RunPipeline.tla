---------------------------- MODULE RunPipeline ----------------------------
(***************************************************************************)
(* The deployed pipeline: POST /ingest -> run-state table and FIFO queue   *)
(* -> orchestrator, with the two read-only APIs.                           *)
(***************************************************************************)
EXTENDS IngestionApi, Orchestrator

CONSTANT ReportsDir   \* the REPORTS_DIR of the reports API's environment

(* Both functions call it /tmp/reports, but no two functions share a /tmp. *)
ASSUME ReportsDirAssumption == ReportsDir \in Directories \ Environments

vars == <<status, queueVars, apiVars, orchestratorVars>>

TypeOK == TableTypeOK /\ QueueTypeOK /\ ApiTypeOK /\ OrchestratorTypeOK

Init == TableInit /\ QueueInit /\ ApiInit /\ OrchestratorInit

-----------------------------------------------------------------------------
(* What GET /status/{runId} may answer now; every call may raise.  The     *)
(* route gives the handler a run id, so that it never answers 400.         *)
StatusCodes(r) ==
  (IF status[r] = NoRow THEN {"404"} ELSE {"200"}) \cup
  (IF AwsCallsMayFail THEN {"500"} ELSE {})

(* GET /reports/{runId}: missing, not to be parsed, or there.              *)
ReportsCode(r) ==
  CASE files[<<ReportsDir, r>>] = "absent"  -> "404"
    [] files[<<ReportsDir, r>>] = "partial" -> "500"
    [] files[<<ReportsDir, r>>] = "whole"   -> "200"

-----------------------------------------------------------------------------
Ingestion(r) == ApiStep(r) /\ UNCHANGED orchestratorVars

IngestionCrash(r) == CrashApi(r) /\ UNCHANGED orchestratorVars

Delivery(r) == StartInvocation(r) /\ UNCHANGED apiVars

Execution(r, k) == InvocationStep(r, k) /\ UNCHANGED apiVars

ExecutionKilled(r, k) == Kill(r, k) /\ UNCHANGED apiVars

Redelivery(r) == VisibilityTimeout(r) /\ UNCHANGED apiVars

DeadLettering(r) == Redrive(r) /\ UNCHANGED <<status, apiVars, orchestratorVars>>

RetentionLapse(r) == Expire(r) /\ UNCHANGED <<status, apiVars, orchestratorVars>>

RunNext(r) ==
  \/ Ingestion(r)
  \/ IngestionCrash(r)
  \/ Delivery(r)
  \/ \E k \in Attempts : Execution(r, k)
  \/ \E k \in Attempts : ExecutionKilled(r, k)
  \/ Redelivery(r)
  \/ DeadLettering(r)
  \/ RetentionLapse(r)

Next == \E r \in Runs : RunNext(r)

(* The API function answers or is killed; the event source mapping polls;  *)
(* the Lambda service ends every invocation; the visibility timeout runs   *)
(* out.  Nothing makes a client submit, or the retention period lapse.     *)
Fairness ==
  \A r \in Runs :
    /\ WF_vars(api[r] # "new" /\ Ingestion(r))
    /\ WF_vars(Delivery(r))
    /\ WF_vars(Redelivery(r))
    /\ WF_vars(DeadLettering(r))
    /\ \A k \in Attempts : WF_vars(Execution(r, k))

Spec == Init /\ [][Next]_vars /\ Fairness

-----------------------------------------------------------------------------
(* Attempt k of run r returned normally and its report file is whole.      *)
LeftReport(r, k) ==
  /\ pc[<<r, k>>] = "finished"
  /\ files[<<env[<<r, k>>], r>>] = "whole"

(* A request answered 202 is never lost: the status API knows its run, and *)
(* its message is waiting, being processed, dead-lettered or out of        *)
(* retention, or it was deleted by an attempt whose whole report is still  *)
(* there.  About the order of put_item and send_message, the re-raise in   *)
(* the handler's except blocks, deletion on a normal return only, and what *)
(* retries and late attempts do to the files of warm environments.         *)
AcceptedIsNeverLost ==
  \A r \in Runs : response[r] = "202" =>
    /\ "404" \notin StatusCodes(r)
    /\ msg[r] # "none"
    /\ msg[r] = "deleted" => \E k \in Attempts : LeftReport(r, k)

(* Once an orchestrator has touched a row the ingestion API never resets   *)
(* it to QUEUED, however late its own call is: the row is put before the   *)
(* message is sent, and put_item overwrites unconditionally.               *)
NeverBackToQueued ==
  [][\A r \in Runs : status[r] \notin {NoRow, "QUEUED"}
        => status'[r] # "QUEUED"]_vars

(* The pipeline implements the retrying job: a run's message is its phase, *)
(* its receive count the attempts, and it is reported while an attempt's   *)
(* file is whole.  A retry in a warm environment may overwrite that file,  *)
(* also a late one of a run that has been dead-lettered or has expired,    *)
(* but no attempt the report of a run that is done.                        *)
PhaseOf(place) ==
  CASE place = "none"                   -> "absent"
    [] place \in {"queued", "inflight"} -> "pending"
    [] place = "deleted"                -> "done"
    [] OTHER                            -> place

jobPhase == [r \in Runs |-> PhaseOf(msg[r])]

jobReported == {r \in Runs : \E e \in Environments : files[<<e, r>>] = "whole"}

Job == INSTANCE RetryingJob WITH
         MaxAttempts <- MaxReceiveCount, Overwriting <- TRUE,
         phase <- jobPhase, attempts <- receives, reported <- jobReported

ImplementsRetryingJob == Job!JobSpec

(* Every message leaves the queue: a run that keeps failing is             *)
(* dead-lettered, so it cannot hold back the later runs of its company and *)
(* country for ever.                                                       *)
EveryMessageSettles ==
  \A r \in Runs :
    msg[r] = "queued" ~> msg[r] \in {"deleted", "dead", "expired"}

(* Two runs of one company and country are never executed at the same      *)
(* time, nor is one run executed twice at once; needs a visibility timeout *)
(* that outlasts every invocation.                                         *)
OneExecutionPerGroup ==
  \A q, r \in Runs : \A j, k \in Attempts :
    /\ pc[<<q, j>>] \in Live
    /\ pc[<<r, k>>] \in Live
    /\ group[q] = group[r]
    => <<q, j>> = <<r, k>>

(* A row that says FAILED belongs to a run whose message is not            *)
(* acknowledged: it is retried or kept in the dead-letter queue.  A late   *)
(* attempt could otherwise mark as failed a run that another has finished. *)
FailedIsNotAcknowledged ==
  \A r \in Runs : status[r] = "FAILED" => msg[r] # "deleted"

(* If the last permitted attempt of a dead-lettered run raised, its row    *)
(* says so; needs updates that reach the table.                            *)
DeadLetteredIsFailed ==
  \A r \in Runs :
    msg[r] = "dead" /\ pc[<<r, MaxReceiveCount>>] = "raised"
      => status[r] = "FAILED"

(* The report of an acknowledged run can be fetched from GET /reports, as  *)
(* the troubleshooting guide says of a run that is no longer processing.   *)
AcknowledgedReportIsServed ==
  \A r \in Runs : msg[r] = "deleted" => ReportsCode(r) = "200"

(* An acknowledged run's row ends as COMPLETED: the last step of the       *)
(* README's flow.                                                          *)
AcknowledgedRunCompletes ==
  \A r \in Runs : msg[r] = "deleted" ~> status[r] = "COMPLETED"

(* FAILED and COMPLETED are final, as clients assume who stop polling.     *)
TerminalStatusIsFinal ==
  [][\A r \in Runs : status[r] \in {"COMPLETED", "FAILED"}
        => status'[r] = status[r]]_vars

=============================================================================
