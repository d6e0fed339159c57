--------------------------- MODULE HandlerVariants ---------------------------
(***************************************************************************)
(* The pipeline with the other two orchestrators of the repository in the  *)
(* place of the deployed one: the one that keeps reports in S3             *)
(* (temp-deploy/orchestrator_handler.py) and the minimal one that only     *)
(* exercises queue and table (orchestrator_handler_minimal.py).            *)
(***************************************************************************)
EXTENDS RunPipeline

VARIABLES
  handler,   \* the orchestrator that was deployed
  bucket     \* the runs whose whole report is in REPORTS_BUCKET

Handlers == {"s3", "s3_without_bucket", "minimal"}

variantVars == <<vars, handler, bucket>>

VariantInit == Init /\ handler \in Handlers /\ bucket = {}

-----------------------------------------------------------------------------
(*             The S3 variant: one bucket for all environments             *)

(* Mutant of PutArtifact: a failed put_object does not fail the run.       *)
PutArtifactBestEffort(r, k) ==
  /\ pc[<<r, k>>] = "opening"
  /\ bucket' = bucket \cup {r} \/ UNCHANGED bucket
  /\ Goto(r, k, "completing")
  /\ UNCHANGED <<status, queueVars, files>>

(* Mutant of PutArtifact: a call that fails leaves a truncated object.     *)
PutArtifactTruncating(r, k) ==
  /\ pc[<<r, k>>] = "opening"
  /\ \/ bucket' = bucket \cup {r} /\ Goto(r, k, "completing")
     \/ bucket' = bucket \ {r} /\ Goto(r, k, "failing")
  /\ UNCHANGED <<status, queueVars, files>>

(* put_object replaces the whole object, and may have done so although it  *)
(* raises; without REPORTS_BUCKET nothing is kept.                         *)
PutArtifact(r, k) ==
  /\ pc[<<r, k>>] = "opening"
  /\ IF handler = "s3"
     THEN \/ bucket' = bucket \cup {r}
             /\ (Goto(r, k, "completing") \/ Goto(r, k, "failing"))
          \/ UNCHANGED bucket /\ Goto(r, k, "failing")
     ELSE UNCHANGED bucket /\ Goto(r, k, "completing")
  /\ UNCHANGED <<status, queueVars, files>>

(* The final update carries execution_time_seconds, a float, here as well. *)
S3Step(r, k) ==
  \/ PutArtifact(r, k)
  \/ /\ \/ MarkProcessing(r, k) \/ RunGraph(r, k) \/ MarkCompleted(r, k)
        \/ MarkFailed(r, k) \/ Acknowledge(r, k)
     /\ UNCHANGED bucket

-----------------------------------------------------------------------------
(*                           The minimal variant                           *)

(* update_item without a net: an exception leads to the except block, and  *)
(* from there out of the handler; the row may have been written all the    *)
(* same.                                                                   *)
UpdateOrRaise(r, k, s, next, otherwise) ==
  /\ \/ UpdateItem(r, s) /\ Goto(r, k, next)
     \/ /\ AwsCallsMayFail
        /\ UpdateItem(r, s) \/ UNCHANGED status
        /\ Goto(r, k, otherwise)
  /\ UNCHANGED <<queueVars, files>>

(* Mutant of MinimalMarkProcessing: as update_run_status does it.          *)
MinimalMarkProcessingSwallowed(r, k) ==
  /\ pc[<<r, k>>] = "started"
  /\ UpdateOrRaise(r, k, "PROCESSING", "opening", "opening")

MinimalMarkProcessing(r, k) ==
  /\ pc[<<r, k>>] = "started"
  /\ UpdateOrRaise(r, k, "PROCESSING", "opening", "failing")

MinimalMarkCompleted(r, k) ==
  /\ pc[<<r, k>>] = "completing"
  /\ UpdateOrRaise(r, k, "COMPLETED", "returned", "failing")

(* Mutant of MinimalMarkFailed: this update's exception is caught as well. *)
MinimalMarkFailedCaught(r, k) ==
  /\ pc[<<r, k>>] = "failing"
  /\ UpdateOrRaise(r, k, "FAILED", "returned", "returned")

(* The except block does not raise again: the message will be deleted.     *)
MinimalMarkFailed(r, k) ==
  /\ pc[<<r, k>>] = "failing"
  /\ UpdateOrRaise(r, k, "FAILED", "returned", "raised")

(* The report is a constant, written without running the graph.            *)
MinimalStep(r, k) ==
  \/ MinimalMarkProcessing(r, k) \/ OpenArtifact(r, k) \/ WriteArtifact(r, k)
  \/ MinimalMarkCompleted(r, k) \/ MinimalMarkFailed(r, k)
  \/ Acknowledge(r, k)

-----------------------------------------------------------------------------
VariantExecution(r, k) ==
  /\ IF handler = "minimal"
     THEN MinimalStep(r, k) /\ UNCHANGED bucket
     ELSE S3Step(r, k)
  /\ UNCHANGED apiVars

(* What happens outside the handler is as with the deployed one.           *)
Elsewhere == UNCHANGED <<handler, bucket>>

SharedStep(r) ==
  /\ \/ Ingestion(r) \/ IngestionCrash(r) \/ Delivery(r)
     \/ Redelivery(r) \/ DeadLettering(r) \/ RetentionLapse(r)
     \/ \E k \in Attempts : ExecutionKilled(r, k)
  /\ Elsewhere

HandlerStep(r, k) == VariantExecution(r, k) /\ UNCHANGED handler

VariantNext ==
  \E r \in Runs : SharedStep(r) \/ \E k \in Attempts : HandlerStep(r, k)

VariantFairness ==
  \A r \in Runs :
    /\ WF_variantVars(api[r] # "new" /\ Ingestion(r) /\ Elsewhere)
    /\ WF_variantVars(Delivery(r) /\ Elsewhere)
    /\ WF_variantVars(Redelivery(r) /\ Elsewhere)
    /\ WF_variantVars(DeadLettering(r) /\ Elsewhere)
    /\ \A k \in Attempts : WF_variantVars(HandlerStep(r, k))

VariantSpec == VariantInit /\ [][VariantNext]_variantVars /\ VariantFairness

-----------------------------------------------------------------------------
(* While a row says COMPLETED, a whole report of its run is in some        *)
(* environment, whatever later or overlapping attempts of the run do: the  *)
(* minimal handler takes the row back before it truncates a file, and does *)
(* not go on if it cannot.                                                 *)
CompletedRowHasReport ==
  \A r \in Runs : status[r] = "COMPLETED" => r \in jobReported

(* Where an attempt that has not settled its row can be.                   *)
OpenRow == {"opening", "writing", "completing", "failing", "killed", "raised"}

(* The minimal handler gives a message up although the run has failed, but *)
(* not before the row says how it ended; needs attempts that do not        *)
(* overlap.                                                                *)
MinimalSettlesRow ==
  handler = "minimal" =>
    \A r \in Runs : msg[r] = "deleted" => status[r] \in {"COMPLETED", "FAILED"}

(* With overlapping attempts the row of an acknowledged run of the minimal *)
(* handler may be left behind, but only by an attempt that is still at     *)
(* work, was killed, or raised because its FAILED update failed: no        *)
(* attempt that returns leaves a row of its own making open.               *)
RowLeftOpenHasCause ==
  handler = "minimal" =>
    \A r \in Runs :
      msg[r] = "deleted" /\ status[r] \notin {"COMPLETED", "FAILED"}
        => \E k \in Attempts : pc[<<r, k>>] \in OpenRow

(* An acknowledged run of the S3 variant has its report in the bucket.     *)
BucketHoldsAcknowledged ==
  handler = "s3" => \A r \in Runs : msg[r] = "deleted" => r \in bucket

(* The S3 variant implements the retrying job without overwriting: once an *)
(* attempt has put its report, no retry, kill or late attempt takes it     *)
(* back, because put_object replaces whole objects.                        *)
BucketJob == INSTANCE RetryingJob WITH
               MaxAttempts <- MaxReceiveCount, Overwriting <- FALSE,
               phase <- jobPhase, attempts <- receives, reported <- bucket

S3ImplementsJob ==
  /\ BucketJob!JobInit
  /\ [][handler = "s3" => [BucketJob!JobNext]_(BucketJob!jobVars)]_variantVars

=============================================================================
