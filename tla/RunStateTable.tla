--------------------------- MODULE RunStateTable ---------------------------
(***************************************************************************)
(* The DynamoDB table "cip-run-state": one row per run, of which only the  *)
(* status matters to the other parts.  The ingestion API creates a row,    *)
(* the orchestrator updates it, the status API and the dashboard read it.  *)
(***************************************************************************)
EXTENDS Platform

VARIABLE status     \* the "status" attribute of each run's row

NoRow == "none"

RowStatus == {"QUEUED", "PROCESSING", "COMPLETED", "FAILED"}

TableTypeOK == status \in [Runs -> RowStatus \cup {NoRow}]

TableInit == status = [r \in Runs |-> NoRow]

-----------------------------------------------------------------------------
(* put_item and update_item both overwrite: neither call has a condition.  *)
PutItem(r) == status' = [status EXCEPT ![r] = "QUEUED"]

UpdateItem(r, s) == status' = [status EXCEPT ![r] = s]

(* Attributes whose Python value is a float.  The boto3 serializer raises  *)
(* TypeError for them before a request is sent.                            *)
FloatAttributes == {"execution_time_seconds"}

(* update_run_status: an exception of any kind is logged and swallowed, so *)
(* the caller always goes on as if the row had been written.               *)
UpdateRunStatus(r, s, extra) ==
  \/ /\ extra \cap FloatAttributes = {}
     /\ UpdateItem(r, s)
  \/ /\ AwsCallsMayFail \/ extra \cap FloatAttributes # {}
     /\ UNCHANGED status

=============================================================================
